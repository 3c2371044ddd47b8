----------------------------- MODULE CatalogSpec -----------------------------
(***************************************************************************)
(* What a session's catalog promises its users (the Catalog interface,     *)
(* localsession/catalog.go lines 13-64, and spec 3): a revision number     *)
(* counting successful updates, one value and frozen flag per key, and a   *)
(* closed flag.                                                            *)
(*                                                                         *)
(*  - an update either changes nothing (it failed), or writes its whole    *)
(*    attribute list over the table at the next revision, a later          *)
(*    attribute of a key replacing an earlier one;                         *)
(*  - a successful update leaves every frozen attribute as it was;         *)
(*  - a closed catalog is never updated again.                             *)
(*                                                                         *)
(* Message IDs and the CreatedAt/UpdatedAt metadata are the                *)
(* implementation's own and not part of the promise.                       *)
(***************************************************************************)
EXTENDS Naturals, Sequences, FiniteSetsExt

CONSTANTS Keys, Values, Empty, UpdateLists, MaxRev

VARIABLES version, table, closed

absVars == <<version, table, closed>>

Entry == [value : Values, frozen : BOOLEAN]

(* A key nobody has set reads as the empty, unfrozen attribute. *)
Unset == [value |-> Empty, frozen |-> FALSE]

(* The table with the attributes of list written over it in order: a key *)
(* ends with its last attribute in list.                                 *)
Overwrite(t, list) ==
    [k \in Keys |->
        LET at == {i \in DOMAIN list : list[i].key = k} IN
        IF at = {} THEN t[k]
        ELSE LET a == list[Max(at)] IN [value |-> a.value, frozen |-> a.frozen]]

KeepsFrozen(t, new) == \A k \in Keys : t[k].frozen => new[k] = t[k]

Update(list) ==
    /\ ~closed
    /\ version < MaxRev
    /\ version' = version + 1
    /\ table' = Overwrite(table, list)
    /\ KeepsFrozen(table, table')
    /\ UNCHANGED closed

Close ==
    /\ closed' = TRUE
    /\ UNCHANGED <<version, table>>

AbsInit ==
    /\ version = 0
    /\ table = [k \in Keys |-> Unset]
    /\ closed = FALSE

AbsNext ==
    \/ \E list \in UpdateLists : Update(list)
    \/ Close

AbsSpec == AbsInit /\ [][AbsNext]_absVars
=============================================================================
