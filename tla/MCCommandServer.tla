-------------------------- MODULE MCCommandServer --------------------------
(* Model-checking instance of CommandServer. *)
EXTENDS CommandServer, TLC

CONSTANTS n1, n2, h1, m1, m2

MCNamespaces == {n1, n2}
MCMsgs == {m1, m2}

(* Handlers that may leave the response open, or always close it. *)
AnyResponse == BOOLEAN
AlwaysResponds == {TRUE}

(* Deliveries are interchangeable until published. *)
MsgSymmetry == Permutations(MCMsgs)
=============================================================================
