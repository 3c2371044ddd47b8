---------------------------- MODULE RemoteCatalog ----------------------------
(***************************************************************************)
(* A session owned by one peer, read and updated from another peer.        *)
(*                                                                         *)
(*  - the owner's catalog is LocalCatalog (localsession/catalog.go); the   *)
(*    owner updates and closes it at any time;                             *)
(*  - the remote peer's goroutines (Threads) use one remote catalog        *)
(*    (remotesession/catalog.go): each method reads its state under the    *)
(*    lock, releases it, makes an RPC, and merges the answer under the     *)
(*    write lock.  These are separate steps, so the owner and the other    *)
(*    goroutines run between them;                                         *)
(*  - the RPCs are served by the owner's session server                    *)
(*    (remotesession/server.go), one goroutine per request, in any order;  *)
(*  - a caller's context may expire while its request is in flight: the    *)
(*    caller gets an error and the server still serves the request.        *)
(***************************************************************************)
EXTENDS LocalCatalog

CONSTANTS
    Threads,            \* goroutines of the remote peer using the catalog
    NoThread,           \* waiter of a request whose caller gave up
    RemoteUpdateLists,  \* attrs arguments of remote TryUpdate calls
    MaxInFlight         \* bound: requests in flight at once, orphans included

VARIABLES
    highestRev, \* c.highestRev
    cache,      \* c.cache[ns]: key -> cachedAttr, NoEntry when absent
    nsCached,   \* c.cache has an entry for ns (the map is not nil)
    isClosed,   \* c.isClosed
    stored,     \* the owner's session store still holds the session
    pc,         \* where each goroutine is
    frame,      \* the locals a goroutine keeps across its RPC
    requests,   \* RPC requests sent and not yet answered by the server
    reply,      \* reply[t]: the answer goroutine t is given, or NoReply
    panicked,   \* the remote peer has panicked
    unsoundRead, \* some Fetch has returned what the owner never held
    lostUpdate   \* some TryUpdate has succeeded without its attributes

remoteVars == <<highestRev, cache, nsCached, isClosed, stored, pc, frame,
                requests, reply, panicked, unsoundRead, lostUpdate>>
vars == <<catalogVars, remoteVars>>

NoEntry == [fetchedAt |-> 0]
NoReply == [err |-> "NoReply", rev |-> 0, metas |-> {}, created |-> <<>>]
NoFrame == [rev |-> 0, keys |-> {}, solved |-> {}, list |-> <<>>, sent |-> <<>>,
            cacheNil |-> FALSE]

(* cachedAttr: an attrmeta.Attr and the revision it was fetched at *)
CachedAttr == [attr : Attr, createdAt : Nat, updatedAt : Nat, fetchedAt : Nat]

(* The attrmeta.Attr the server returns for key k at the current state. *)
MetaOf(k) ==
    [attr |-> [key |-> k, value |-> attrs[k].value, frozen |-> attrs[k].frozen],
     createdAt |-> attrs[k].createdAt, updatedAt |-> attrs[k].updatedAt]

(* cachedAttr{attr, fetchedRev} *)
Cached(m, fetchedRev) ==
    [attr |-> m.attr, createdAt |-> m.createdAt, updatedAt |-> m.updatedAt,
     fetchedAt |-> fetchedRev]

StripMeta(k, m) == [key |-> k, value |-> m.value, frozen |-> m.frozen]

(* A read at revision r of keys answered with attributes got agrees with *)
(* the owner's history: a key left out was empty at r.                   *)
SoundRead(r, keys, got) ==
    /\ \A a \in got : a = StripMeta(a.key, AttrsAt(r)[a.key])
    /\ \A k \in keys \ {a.key : a \in got} :
          AttrsAt(r)[k].value = Empty /\ ~AttrsAt(r)[k].frozen

(* The owner's catalog at revision r holds the last attribute list sets  *)
(* for each key.                                                         *)
Applied(r, list) ==
    \A i \in DOMAIN list :
        (\A j \in DOMAIN list : j > i => list[j].key # list[i].key)
            => StripMeta(list[i].key, AttrsAt(r)[list[i].key]) = list[i]

(* Mutant: any error, a timeout included, marks the catalog closed. *)
UpdateStateClosingOnAnyError(r, err) ==
    /\ isClosed' = (isClosed \/ err # "None")
    /\ highestRev' = IF err = "None" /\ r > highestRev THEN r ELSE highestRev

(***************************************************************************)
(* updateState(rev, err): NotFound marks the catalog closed, success       *)
(* raises highestRev, any other error changes nothing.                     *)
(***************************************************************************)
UpdateState(r, err) ==
    /\ isClosed' = (isClosed \/ err = "NotFound")
    /\ highestRev' = IF err = "None" /\ r > highestRev THEN r ELSE highestRev

Send(t, req) ==
    /\ Cardinality(requests) < MaxInFlight
    /\ requests' = requests \cup {[req EXCEPT !.id = t]}

Respond(req, rsp) ==
    /\ requests' = requests \ {req}
    /\ reply' = IF req.id \in Threads THEN [reply EXCEPT ![req.id] = rsp]
                                      ELSE reply

Request(kind, r, keys, list) ==
    [id |-> NoThread, kind |-> kind, rev |-> r, keys |-> keys, list |-> list,
     applied |-> FALSE, newRev |-> 0]

Idle(t) == pc[t] = "idle" /\ ~panicked

(* A method returns: its locals are gone. *)
Return(t) ==
    /\ pc' = [pc EXCEPT ![t] = "idle"]
    /\ frame' = [frame EXCEPT ![t] = NoFrame]

(***************************************************************************)
(* At(rev): a revision learned from a message raises highestRev; a closed  *)
(* catalog returns a closed revision and changes nothing.                  *)
(***************************************************************************)
At(t, r) ==
    /\ Idle(t)
    /\ ~isClosed
    /\ UpdateState(r, "None")
    /\ UNCHANGED <<catalogVars, cache, nsCached, stored, pc, frame, requests,
                   reply, panicked, unsoundRead, lostUpdate>>

(* Head: a fetch of no keys, to learn the current revision. *)
HeadBegin(t) ==
    /\ Idle(t)
    /\ ~isClosed
    /\ Send(t, Request("fetch", 0, {}, <<>>))
    /\ pc' = [pc EXCEPT ![t] = "head"]
    /\ UNCHANGED <<catalogVars, highestRev, cache, nsCached, isClosed, stored,
                   frame, reply, panicked, unsoundRead, lostUpdate>>

HeadEnd(t) ==
    /\ pc[t] = "head" /\ reply[t] # NoReply /\ ~panicked
    /\ UpdateState(reply[t].rev, reply[t].err)
    /\ reply' = [reply EXCEPT ![t] = NoReply]
    /\ Return(t)
    /\ UNCHANGED <<catalogVars, cache, nsCached, stored, requests,
                   panicked, unsoundRead, lostUpdate>>

(* Mutant: an entry updated after r is not recognised as stale. *)
ClassifyIgnoringUpdate(k, r) ==
    LET e == cache[k] IN
    IF ~nsCached \/ e = NoEntry THEN "unsolved"
    ELSE IF e.createdAt > r THEN "absent"
    ELSE IF e.attr.frozen \/ r <= e.fetchedAt THEN "solved"
    ELSE "unsolved"

(***************************************************************************)
(* fetchLocal: how the cache classifies key k for a read at revision r.    *)
(***************************************************************************)
Classify(k, r) ==
    LET e == cache[k] IN
    IF ~nsCached \/ e = NoEntry THEN "unsolved"
    ELSE IF e.createdAt > r THEN "absent"
    ELSE IF e.updatedAt > r THEN "stale"
    ELSE IF e.attr.frozen \/ r <= e.fetchedAt THEN "solved"
    ELSE "unsolved"

(***************************************************************************)
(* fetchLocal(rev, ns, keys): the attributes the cache answers, the keys   *)
(* it cannot, and the error: a stale entry, or unsolved keys of a closed   *)
(* catalog.                                                                *)
(***************************************************************************)
FetchLocalResult(r, keys) ==
    LET unsolved == {k \in keys : Classify(k, r) = "unsolved"} IN
    [solved   |-> {cache[k].attr : k \in {k2 \in keys : Classify(k2, r) = "solved"}},
     unsolved |-> unsolved,
     err      |-> IF \E k \in keys : Classify(k, r) = "stale" THEN "StaleFetch"
                  ELSE IF unsolved # {} /\ isClosed THEN "NotFound"
                  ELSE "None"]

(* Fetch, up to its RPC: an error or a full answer from the cache returns *)
(* at once; otherwise the unsolved keys are fetched from the owner.       *)
FetchLocal(t, r, keys) ==
    LET res      == FetchLocalResult(r, keys)
        solved   == res.solved
        unsolved == res.unsolved
    IN
    /\ Idle(t)
    /\ IF res.err # "None"
       THEN UNCHANGED <<requests, pc, frame, unsoundRead>>
       ELSE IF unsolved = {}
       THEN /\ unsoundRead' = (unsoundRead \/ ~SoundRead(r, keys, solved))
            /\ UNCHANGED <<requests, pc, frame>>
       ELSE /\ Send(t, Request("fetch", r, unsolved, <<>>))
            /\ pc' = [pc EXCEPT ![t] = "fetch"]
            /\ frame' = [frame EXCEPT ![t] = [NoFrame EXCEPT !.rev = r, !.keys = keys,
                                                               !.solved = solved]]
            /\ UNCHANGED unsoundRead
    /\ UNCHANGED <<catalogVars, highestRev, cache, nsCached, isClosed, stored,
                   reply, panicked, lostUpdate>>

(* Mutant: the namespace map created for the merge is not stored in c.cache. *)
NamespaceCachedNotStored(newer) == nsCached

(* A namespace map created for the merge is stored in c.cache when it holds *)
(* an entry.                                                               *)
NamespaceCached(newer) == nsCached \/ newer # {}

(* Mutant: a fetched attribute updated after r is dropped, not reported. *)
FetchedStaleNever(m, r) == FALSE

(* A fetched attribute that existed at r but was updated after it. *)
FetchedStale(m, r) == m.createdAt <= r /\ m.updatedAt > r

(***************************************************************************)
(* The second half of Fetch: merge what the server returned into the cache *)
(* when it is newer than the entry there, and answer from it.              *)
(***************************************************************************)
FetchMerge(t) ==
    LET rsp     == reply[t]
        r       == frame[t].rev
        fetched == rsp.metas
        newer   == {m \in fetched : rsp.rev > cache[m.attr.key].fetchedAt}
        valid   == {m \in fetched : m.createdAt <= r /\ m.updatedAt <= r}
        stale   == \E m \in fetched : FetchedStale(m, r)
    IN
    /\ pc[t] = "fetch" /\ rsp # NoReply /\ ~panicked
    /\ UpdateState(rsp.rev, rsp.err)
    /\ IF rsp.err = "None"
       THEN /\ cache' = [k \in Keys |->
                           IF \E m \in newer : m.attr.key = k
                           THEN Cached(CHOOSE m \in newer : m.attr.key = k, rsp.rev)
                           ELSE cache[k]]
            /\ nsCached' = NamespaceCached(newer)
            /\ unsoundRead' = (unsoundRead \/
                    (~stale /\ ~SoundRead(r, frame[t].keys,
                                          frame[t].solved \cup {m.attr : m \in valid})))
       ELSE UNCHANGED <<cache, nsCached, unsoundRead>>
    /\ reply' = [reply EXCEPT ![t] = NoReply]
    /\ Return(t)
    /\ UNCHANGED <<catalogVars, stored, requests, panicked, lostUpdate>>

(***************************************************************************)
(* The first half of TryUpdate: refuse a closed catalog, a revision older  *)
(* than highestRev and a change to an attribute the cache knows is frozen; *)
(* leave out what the cache says the server already has; send the rest.   *)
(* The namespace's cache map is captured here, possibly nil.               *)
(***************************************************************************)
(* Mutant: an entry fetched at or before r is trusted. *)
SkippableIfOlder(a, r) ==
    LET e == cache[a.key] IN
    /\ nsCached /\ e # NoEntry
    /\ a = e.attr
    /\ e.attr.frozen \/ e.fetchedAt <= r

(* Mutant: only the value is compared, not the frozen flag. *)
SkippableValueOnly(a, r) ==
    LET e == cache[a.key] IN
    /\ nsCached /\ e # NoEntry
    /\ a.value = e.attr.value
    /\ e.attr.frozen \/ e.fetchedAt = r

Skippable(a, r) ==
    LET e == cache[a.key] IN
    /\ nsCached /\ e # NoEntry
    /\ a = e.attr
    /\ e.attr.frozen \/ e.fetchedAt = r

FrozenConflict(a) ==
    LET e == cache[a.key] IN
    nsCached /\ e # NoEntry /\ e.attr.frozen /\ a # e.attr

UpdateBegin(t, r, list) ==
    LET sent == SelectSeq(list, LAMBDA a : ~Skippable(a, r)) IN
    /\ Idle(t)
    /\ ~isClosed
    /\ ~(highestRev > r)
    /\ \A i \in DOMAIN list : ~FrozenConflict(list[i])
    /\ Send(t, Request("update", r, {}, sent))
    /\ pc' = [pc EXCEPT ![t] = "update"]
    /\ frame' = [frame EXCEPT ![t] = [NoFrame EXCEPT !.rev = r, !.list = list,
                                                     !.sent = sent,
                                                     !.cacheNil = ~nsCached]]
    /\ UNCHANGED <<catalogVars, highestRev, cache, nsCached, isClosed, stored,
                   reply, panicked, unsoundRead, lostUpdate>>

(***************************************************************************)
(* The second half of TryUpdate: each attribute sent comes back with the   *)
(* created revision the server read and the new revision as its updated   *)
(* revision, and is written into the captured map unless its entry there   *)
(* is as new.  Writing into a nil map panics.                              *)
(***************************************************************************)
MergeUpdated(c, m, updatedRev) ==
    IF updatedRev > c[m.attr.key].fetchedAt
    THEN [c EXCEPT ![m.attr.key] = Cached(m, updatedRev)]
    ELSE c

UpdateMerge(t) ==
    LET rsp      == reply[t]
        sent     == frame[t].sent
        returned == [i \in DOMAIN sent |->
                       [attr |-> sent[i], createdAt |-> rsp.created[i],
                        updatedAt |-> rsp.rev]]
    IN
    /\ pc[t] = "update" /\ rsp # NoReply /\ ~panicked
    /\ UpdateState(rsp.rev, rsp.err)
    /\ IF rsp.err # "None"
       THEN UNCHANGED <<cache, panicked, lostUpdate>>
       ELSE IF frame[t].cacheNil /\ sent # <<>>
       THEN /\ panicked' = TRUE
            /\ UNCHANGED <<cache, lostUpdate>>
       ELSE /\ cache' = FoldLeft(LAMBDA c, m : MergeUpdated(c, m, rsp.rev), cache, returned)
            /\ lostUpdate' = (lostUpdate \/ ~Applied(rsp.rev, frame[t].list))
            /\ UNCHANGED panicked
    /\ reply' = [reply EXCEPT ![t] = NoReply]
    /\ Return(t)
    /\ UNCHANGED <<catalogVars, nsCached, stored, requests, unsoundRead>>

(* TryDestroy: on success the catalog is closed; an error is returned as is. *)
DestroyBegin(t, r) ==
    /\ Idle(t)
    /\ ~isClosed
    /\ ~(highestRev > r)
    /\ Send(t, Request("close", r, {}, <<>>))
    /\ pc' = [pc EXCEPT ![t] = "destroy"]
    /\ UNCHANGED <<catalogVars, highestRev, cache, nsCached, isClosed, stored,
                   frame, reply, panicked, unsoundRead, lostUpdate>>

(* Mutant: the catalog is marked closed whatever the server answered. *)
DestroyEndIgnoringError(t) ==
    /\ pc[t] = "destroy" /\ reply[t] # NoReply /\ ~panicked
    /\ isClosed' = TRUE
    /\ reply' = [reply EXCEPT ![t] = NoReply]
    /\ Return(t)
    /\ UNCHANGED <<catalogVars, highestRev, cache, nsCached, stored,
                   requests, panicked, unsoundRead, lostUpdate>>

DestroyEnd(t) ==
    /\ pc[t] = "destroy" /\ reply[t] # NoReply /\ ~panicked
    /\ isClosed' = (isClosed \/ reply[t].err = "None")
    /\ reply' = [reply EXCEPT ![t] = NoReply]
    /\ Return(t)
    /\ UNCHANGED <<catalogVars, highestRev, cache, nsCached, stored,
                   requests, panicked, unsoundRead, lostUpdate>>

(***************************************************************************)
(* The caller's context expires while it waits: it gets an error and its   *)
(* request stays in flight with nobody waiting for the answer.             *)
(***************************************************************************)
Timeout(t) ==
    /\ pc[t] \in {"head", "fetch", "update", "destroy"} /\ ~panicked
    /\ reply' = [reply EXCEPT ![t] = [NoReply EXCEPT !.err = "Timeout"]]
    /\ requests' = {IF q.id = t THEN [q EXCEPT !.id = NoThread] ELSE q : q \in requests}
    /\ UNCHANGED <<catalogVars, highestRev, cache, nsCached, isClosed, stored,
                   pc, frame, panicked, unsoundRead, lostUpdate>>

-----------------------------------------------------------------------------
(* server.fetch: the current revision and the requested keys that exist. *)
ServeFetch(req) ==
    /\ req.kind = "fetch"
    /\ Respond(req, IF ~stored THEN [NoReply EXCEPT !.err = "NotFound"]
                    ELSE [NoReply EXCEPT !.err = "None", !.rev = rev,
                            !.metas = {MetaOf(k) : k \in {k2 \in req.keys : Exists(attrs[k2])}}])
    /\ UNCHANGED <<catalogVars, highestRev, cache, nsCached, isClosed, stored,
                   pc, frame, panicked, unsoundRead, lostUpdate>>

(***************************************************************************)
(* server.update, first step: TryUpdate on the owner's catalog; a failure  *)
(* is answered at once.                                                    *)
(***************************************************************************)
ServeUpdateApply(req) ==
    LET res == UpdateResult(req.rev, req.list) IN
    /\ req.kind = "update" /\ ~req.applied
    /\ IF ~stored \/ res.err # "None"
       THEN /\ Respond(req, [NoReply EXCEPT !.err = IF ~stored THEN "NotFound" ELSE res.err])
            /\ UNCHANGED catalogVars
       ELSE /\ rev < MaxRev
            /\ CommitUpdate(res)
            /\ requests' = (requests \ {req}) \cup
                             {[req EXCEPT !.applied = TRUE, !.newRev = rev + 1]}
            /\ UNCHANGED reply
    /\ UNCHANGED <<highestRev, cache, nsCached, isClosed, stored, pc, frame,
                   panicked, unsoundRead, lostUpdate>>

(* server.update, second step: read CreatedAt of each attribute sent from a *)
(* fresh snapshot of the catalog, and answer.                              *)
ServeUpdateReply(req) ==
    /\ req.kind = "update" /\ req.applied
    /\ Respond(req, [NoReply EXCEPT !.err = "None", !.rev = req.newRev,
                       !.created = [i \in DOMAIN req.list |-> attrs[req.list[i].key].createdAt]])
    /\ UNCHANGED <<catalogVars, highestRev, cache, nsCached, isClosed, stored,
                   pc, frame, panicked, unsoundRead, lostUpdate>>

(* server.close: TryDestroy on the owner's catalog. *)
ServeClose(req) ==
    /\ req.kind = "close"
    /\ IF stored /\ req.rev = rev
       THEN /\ TryDestroy(req.rev)
            /\ Respond(req, [NoReply EXCEPT !.err = "None"])
       ELSE /\ Respond(req, [NoReply EXCEPT !.err = IF ~stored THEN "NotFound"
                                                   ELSE "StaleUpdate"])
            /\ UNCHANGED catalogVars
    /\ UNCHANGED <<highestRev, cache, nsCached, isClosed, stored, pc, frame,
                   panicked, unsoundRead, lostUpdate>>

-----------------------------------------------------------------------------
(* The owner's own session updates and destroys the catalog. *)
OwnerUpdate(ref, list) ==
    /\ TryUpdate(ref, list)
    /\ UNCHANGED remoteVars

OwnerClose ==
    /\ Close
    /\ UNCHANGED remoteVars

(* The owner's session store forgets a session once its catalog is closed. *)
StoreRemove ==
    /\ done /\ stored
    /\ stored' = FALSE
    /\ UNCHANGED <<catalogVars, highestRev, cache, nsCached, isClosed, pc,
                   frame, requests, reply, panicked, unsoundRead, lostUpdate>>

RemoteInit ==
    /\ Init
    /\ highestRev = 0
    /\ cache = [k \in Keys |-> NoEntry]
    /\ nsCached = FALSE
    /\ isClosed = FALSE
    /\ stored = TRUE
    /\ pc = [t \in Threads |-> "idle"]
    /\ frame = [t \in Threads |-> NoFrame]
    /\ requests = {}
    /\ reply = [t \in Threads |-> NoReply]
    /\ panicked = FALSE
    /\ unsoundRead = FALSE
    /\ lostUpdate = FALSE

RemoteNext ==
    \/ \E ref \in 0..rev, list \in UpdateLists : OwnerUpdate(ref, list)
    \/ OwnerClose
    \/ StoreRemove
    \/ \E t \in Threads :
          \/ \E r \in 0..rev : At(t, r)
          \/ HeadBegin(t)
          \/ HeadEnd(t)
          \/ \E r \in 0..highestRev, keys \in SUBSET Keys \ {{}} : FetchLocal(t, r, keys)
          \/ FetchMerge(t)
          \/ \E r \in 0..highestRev, list \in RemoteUpdateLists : UpdateBegin(t, r, list)
          \/ UpdateMerge(t)
          \/ \E r \in 0..highestRev : DestroyBegin(t, r)
          \/ DestroyEnd(t)
          \/ Timeout(t)
    \/ \E req \in requests :
          \/ ServeFetch(req)
          \/ ServeUpdateApply(req)
          \/ ServeUpdateReply(req)
          \/ ServeClose(req)

RemoteSpec == RemoteInit /\ [][RemoteNext]_vars

-----------------------------------------------------------------------------
RemoteTypeOK ==
    /\ TypeOK
    /\ highestRev \in 0..MaxRev
    /\ \A k \in Keys : cache[k] = NoEntry \/ cache[k] \in CachedAttr
    \* a nil namespace map holds no entries
    /\ ~nsCached => \A k \in Keys : cache[k] = NoEntry
    /\ nsCached \in BOOLEAN /\ isClosed \in BOOLEAN /\ stored \in BOOLEAN
    /\ pc \in [Threads -> {"idle", "head", "fetch", "update", "destroy"}]
    /\ panicked \in BOOLEAN /\ unsoundRead \in BOOLEAN /\ lostUpdate \in BOOLEAN

(***************************************************************************)
(* Remote reads are sound (fetchLocal, Fetch, TryUpdate's cache merge): an *)
(* attribute a Fetch at revision r returns is the one the owner's catalog  *)
(* held at r, and a requested key it leaves out was empty at r.  Each      *)
(* successful Fetch is judged by SoundRead when it returns.                *)
(***************************************************************************)
FetchSound == ~unsoundRead

(***************************************************************************)
(* A remote TryUpdate that succeeds has left the owner's catalog holding   *)
(* every attribute it was asked to set, those it did not send because the  *)
(* cache said the owner already had them included.  Judged by Applied.    *)
(***************************************************************************)
UpdateApplied == ~lostUpdate

(***************************************************************************)
(* The remote catalog considers the session closed only when the owner     *)
(* has closed it: updateState marks it closed on NotFound alone, never on  *)
(* a timeout or a stale update.                                            *)
(***************************************************************************)
ClosedOnlyIfDestroyed == isClosed => done

(* The merge of a TryUpdate never writes into a nil namespace map. *)
NoNilMapWrite == ~panicked
=============================================================================
