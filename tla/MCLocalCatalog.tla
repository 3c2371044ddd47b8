--------------------------- MODULE MCLocalCatalog ---------------------------
(* Model-checking instance of LocalCatalog: two keys, one non-empty value. *)
EXTENDS LocalCatalog

CONSTANTS k1, k2, A, EmptyValue

MCKeys == {k1, k2}
MCValues == {EmptyValue, A}

(* Every attribute list of one or two attributes, repeated keys included. *)
MCUpdateLists == {<<a>> : a \in Attr} \cup {<<a, b>> : a, b \in Attr}
=============================================================================
