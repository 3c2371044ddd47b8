----------------------------- MODULE MCSession -----------------------------
(* Model-checking instance of Session. *)
EXTENDS Session

CONSTANTS k1, EmptyValue, t1, t2

MCThreads == {t1, t2}

=============================================================================
