-------------------------- MODULE MCRemoteCatalog --------------------------
(* Model-checking instances of RemoteCatalog. *)
EXTENDS RemoteCatalog

CONSTANTS k1, k2, A, EmptyValue, t1, t2

MCValues == {EmptyValue, A}

(* Two goroutines racing on one key, or one goroutine reading two keys. *)
OneKey == {k1}
TwoKeys == {k1, k2}
OneThread == {t1}
TwoThreads == {t1, t2}

(* The owner's updates: one attribute at a time. *)
MCUpdateLists == {<<a>> : a \in Attr}

(* Remote updates of one or two attributes with different keys. *)
MCRemoteUpdateLists ==
    {<<a>> : a \in Attr} \cup {<<a, b>> \in Attr \X Attr : a.key # b.key}

(* Remote updates of one attribute that do not freeze it; the owner's    *)
(* updates still freeze keys.                                            *)
MCRemoteUnfrozenLists == {<<a>> : a \in {b \in Attr : ~b.frozen}}

(* Remote updates of one or two attributes, repeated keys included. *)
MCRemoteUpdateListsDup == {<<a>> : a \in Attr} \cup (Attr \X Attr)

(* Goroutines are interchangeable. *)
ThreadSymmetry == Permutations(TwoThreads)
=============================================================================
