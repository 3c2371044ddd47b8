---------------------------- MODULE LocalCatalog ----------------------------
(***************************************************************************)
(* The authoritative attribute table of one session, kept by the peer that *)
(* owns it (src/rinq/internal/localsession/catalog.go).                    *)
(*                                                                         *)
(* Every method of the catalog runs under one RWMutex, so each is a single *)
(* atomic step here.  The session ID is fixed, so a ref is its revision    *)
(* number.  One namespace is modelled: TryUpdate clones and replaces the   *)
(* sub-table of the namespace it is given and no other, so namespaces do   *)
(* not interact.  An absent key is the Go zero value of attrmeta.Attr,     *)
(* which is what the map lookup in TryUpdate returns for it.               *)
(***************************************************************************)
EXTENDS Naturals, Sequences, SequencesExt

CONSTANTS
    Keys,        \* attribute keys
    Values,      \* attribute values, Empty among them
    Empty,       \* the empty string ""
    UpdateLists, \* the []rinq.Attr arguments TryUpdate is called with
    MaxRev,      \* bound: no TryUpdate beyond this revision
    MaxSeq,      \* bound: no NextMessageID once seq reaches this
    SeqModulus   \* 2^32 in the code: seq is a uint32

ASSUME Empty \in Values
ASSUME MaxRev \in Nat /\ MaxSeq \in Nat /\ SeqModulus \in Nat \ {0}

VARIABLES
    rev,      \* c.ref.Rev
    attrs,    \* c.attrs[ns]
    seq,      \* c.seq, the per-revision message counter
    done,     \* c.done has been closed
    history,  \* history[r + 1] = attrs as they were at revision r
    issued    \* every <<rev, seq>> NextMessageID has returned

catalogVars == <<rev, attrs, seq, done, history, issued>>

(* rinq.Attr *)
Attr == [key : Keys, value : Values, frozen : BOOLEAN]

(* attrmeta.Attr without its key, which indexes the table *)
Meta == [value : Values, frozen : BOOLEAN, createdAt : Nat, updatedAt : Nat]

(* What map lookup yields for a key that is not in the table. *)
ZeroMeta == [value |-> Empty, frozen |-> FALSE, createdAt |-> 0, updatedAt |-> 0]

Exists(entry) == entry.createdAt # 0

AttrsAt(r) == history[r + 1]

(* Mutant: CreatedAt is set on every change, not only when the key is new. *)
ApplyAttrRecreating(acc, attr, nextRev) ==
    LET entry == acc.table[attr.key] IN
    IF acc.err # "None" \/ (attr.value = entry.value /\ attr.frozen = entry.frozen)
    THEN acc
    ELSE IF entry.frozen
    THEN [acc EXCEPT !.err = "FrozenAttributes"]
    ELSE [acc EXCEPT !.changed = TRUE,
                     !.table[attr.key] = [value |-> attr.value, frozen |-> attr.frozen,
                                          updatedAt |-> nextRev, createdAt |-> nextRev]]

(***************************************************************************)
(* The loop of TryUpdate over its attrs argument, one attribute at a time: *)
(* an identical attribute is skipped, a change to a frozen one aborts the  *)
(* whole update, anything else is written at nextRev.                      *)
(***************************************************************************)
ApplyAttr(acc, attr, nextRev) ==
    LET entry == acc.table[attr.key] IN
    IF acc.err # "None" \/ (attr.value = entry.value /\ attr.frozen = entry.frozen)
    THEN acc
    ELSE IF entry.frozen
    THEN [acc EXCEPT !.err = "FrozenAttributes"]
    ELSE [acc EXCEPT !.changed = TRUE,
                     !.table[attr.key] =
                        [value     |-> attr.value,
                         frozen    |-> attr.frozen,
                         updatedAt |-> nextRev,
                         createdAt |-> IF Exists(entry) THEN entry.createdAt
                                                        ELSE nextRev]]

(* The outcome of TryUpdate(ref, ns, list) against the current state. *)
UpdateResult(ref, list) ==
    IF done THEN [err |-> "NotFound", changed |-> FALSE, table |-> attrs]
    ELSE IF ref # rev THEN [err |-> "StaleUpdate", changed |-> FALSE, table |-> attrs]
    ELSE FoldLeft(LAMBDA acc, a : ApplyAttr(acc, a, ref + 1),
                  [err |-> "None", changed |-> FALSE, table |-> attrs], list)

(* Mutant: the revision only moves when an attribute changed. *)
CommitUpdateOnlyIfChanged(res) ==
    IF res.err = "None"
    THEN /\ rev' = IF res.changed THEN rev + 1 ELSE rev
         /\ seq' = 0
         /\ attrs' = IF res.changed THEN res.table ELSE attrs
         /\ history' = IF res.changed THEN Append(history, attrs') ELSE history
         /\ UNCHANGED <<done, issued>>
    ELSE UNCHANGED catalogVars

(* Mutant: the attributes are applied to the table in place, not to a   *)
(* clone, so an update aborted by a frozen attribute keeps the changes   *)
(* made before it.                                                       *)
CommitUpdateInPlace(res) ==
    IF res.err = "None"
    THEN /\ rev' = rev + 1
         /\ seq' = 0
         /\ attrs' = IF res.changed THEN res.table ELSE attrs
         /\ history' = Append(history, attrs')
         /\ UNCHANGED <<done, issued>>
    ELSE IF res.err = "FrozenAttributes"
    THEN /\ attrs' = res.table
         /\ UNCHANGED <<rev, seq, done, history, issued>>
    ELSE UNCHANGED catalogVars

(* The state change of a TryUpdate whose outcome is res. *)
CommitUpdate(res) ==
    IF res.err = "None"
    THEN /\ rev' = rev + 1
         /\ seq' = 0
         /\ attrs' = IF res.changed THEN res.table ELSE attrs
         /\ history' = Append(history, attrs')
         /\ UNCHANGED <<done, issued>>
    ELSE UNCHANGED catalogVars

(* Mutant: the ID is made from seq before it is incremented. *)
NextMessageIDBeforeIncrement ==
    /\ seq < MaxSeq
    /\ seq' = (seq + 1) % SeqModulus
    /\ issued' = issued \cup {<<rev, seq>>}
    /\ UNCHANGED <<rev, attrs, done, history>>

(* NextMessageID: seq is incremented as a uint32. *)
NextMessageID ==
    /\ seq < MaxSeq
    /\ seq' = (seq + 1) % SeqModulus
    /\ issued' = issued \cup {<<rev, seq'>>}
    /\ UNCHANGED <<rev, attrs, done, history>>

(* TryUpdate called with a ref its caller read at some earlier time. *)
TryUpdate(ref, list) ==
    /\ rev < MaxRev
    /\ CommitUpdate(UpdateResult(ref, list))

(* TryDestroy: a stale ref is refused, closing twice is not an error. *)
TryDestroy(ref) ==
    /\ ref = rev
    /\ done' = TRUE
    /\ UNCHANGED <<rev, attrs, seq, history, issued>>

Close ==
    /\ done' = TRUE
    /\ UNCHANGED <<rev, attrs, seq, history, issued>>

Init ==
    /\ rev = 0
    /\ attrs = [k \in Keys |-> ZeroMeta]
    /\ seq = 0
    /\ done = FALSE
    /\ history = <<[k \in Keys |-> ZeroMeta]>>
    /\ issued = {}

Next ==
    \/ NextMessageID
    \/ \E ref \in 0..rev, list \in UpdateLists : TryUpdate(ref, list)
    \/ \E ref \in 0..rev : TryDestroy(ref)
    \/ Close

Spec == Init /\ [][Next]_catalogVars

(* What Ref and Attrs return: the revision, and each key's value and     *)
(* frozen flag (a missing key reads as the zero attribute).              *)
RefView == rev

AttrsView == [k \in Keys |-> [value |-> attrs[k].value, frozen |-> attrs[k].frozen]]

Abs == INSTANCE CatalogSpec WITH version <- RefView, table <- AttrsView, closed <- done

-----------------------------------------------------------------------------
TypeOK ==
    /\ rev \in 0..MaxRev
    /\ attrs \in [Keys -> Meta]
    /\ seq \in 0..(SeqModulus - 1)
    /\ done \in BOOLEAN
    /\ Len(history) = rev + 1
    /\ issued \subseteq (0..MaxRev) \X (1..(SeqModulus - 1))

(***************************************************************************)
(* MessageID fencing (NextMessageID, TryUpdate): every message ID handed   *)
(* out so far is from an older revision, or from this revision with a seq  *)
(* in 1..seq.  So the next ID, <<rev, seq + 1>>, is new, and an ID tells   *)
(* which revision its sender had observed.  Broken if a revision is        *)
(* re-entered with seq reset, or if seq wraps.                             *)
(***************************************************************************)
MessageIDFence ==
    \A m \in issued :
        \/ m[1] < rev
        \/ m[1] = rev /\ m[2] \in 1..seq

(***************************************************************************)
(* The metadata TryUpdate keeps agrees with the table's history: a key had *)
(* its current value and frozen flag at every revision since updatedAt,    *)
(* and was absent at every revision before createdAt.  The remote cache    *)
(* answers reads at old revisions from exactly these two numbers.          *)
(***************************************************************************)
MetaMatchesHistory ==
    \A k \in Keys, r \in 0..rev :
        /\ r >= attrs[k].updatedAt =>
              /\ AttrsAt(r)[k].value = attrs[k].value
              /\ AttrsAt(r)[k].frozen = attrs[k].frozen
        /\ r < attrs[k].createdAt => AttrsAt(r)[k] = ZeroMeta

(***************************************************************************)
(* The owner's catalog implements the Catalog interface (TryUpdate,        *)
(* TryDestroy, Close, NextMessageID): seen through Ref and Attrs, every    *)
(* step is an all-or-nothing update at the next revision that keeps frozen *)
(* attributes, a close, or no change at all.                               *)
(***************************************************************************)
CatalogRefinement == Abs!AbsSpec
=============================================================================
