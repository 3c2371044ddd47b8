# TLA+ models of rinq-go

These modules model the session-attribute and command layers of rinq-go, a
peer-to-peer RPC and session library built on AMQP. The source is under `src/`:

- `src/src/rinq/...`: the catalogs and the remote session server;
- `src/unnamed/part_*`: the command server, the session facade, interfaces and
  options.

Each module is written from the Go code. The line ranges each definition
stands for are listed in `PROJECT.json` under `"map"`.

## 1. The system

| Part | Source | State it keeps | Operations that change it |
|---|---|---|---|
| Local catalog | `localsession/catalog.go` | `ref` (session ID and revision), `attrs` (namespace → key → attribute with CreatedAt/UpdatedAt), `seq` (uint32), `done` channel; all under one RWMutex | `NextMessageID`, `TryUpdate`, `TryDestroy`, `Close` |
| Remote catalog | `remotesession/catalog.go` | `highestRev`, `cache` (namespace → key → attribute + FetchedAt), `isClosed`; one RWMutex | `Head`, `At`, `Fetch` (`fetchLocal`, RPC, merge), `TryUpdate`, `TryDestroy`, `updateState` |
| Remote session server | `remotesession/server.go` | none of its own; it works on the owner's local catalogs through the session store | `fetch`, `update`, `close` |
| Command server | `unnamed/part_000` (second file) | `handlers` map under an RWMutex, the AMQP channel, `done`; at the broker: the private request queue, its multicast bindings, balanced queues, unacknowledged deliveries | `Listen`, `Unlisten`, `dispatchEach`, `dispatch`, `handle`, `initialize`, `waitForChannel`, `close` |
| Session facade | `unnamed/part_003` | `done`, the session RWMutex, the catalog, the invoker and listener | `Call`, `CallAsync`, `SetAsyncHandler`, `Execute`, `Notify`, `NotifyMany`, `Listen`, `Unlisten`, `destroy` |
| Interfaces | `unnamed/part_000` (first file), `part_001`, `part_006` | none | none |
| Attribute tables, formatting, logging, tracing, options | `part_002`, `attrmeta/repr.go`, `revision_logging.go`, `traceutil/command.go`, `part_004` | none that is read back | pure functions and setters |

### How the parts interact

A session is owned by one peer, which keeps its local catalog. The owner's own
session updates the catalog directly. Other peers reach it through a remote
catalog, which keeps a cache. On a miss, the remote catalog sends `fetch`,
`update` or `close` as a command to the owner's remote session server, which
runs it on the local catalog.

Each method of the remote catalog has three phases:

1. classify under the read lock;
2. release the lock and make the RPC;
3. merge under the write lock.

The owner and the peer's other goroutines act between these phases. A
caller's context can expire while its request is still in flight.

The remote peer's commands travel over the broker. The command server
receives them:

- through a private queue, bound to the peer ID for unicast and to each
  listened namespace for multicast;
- through a per-namespace balanced queue that all listening peers share.

Each delivery is dispatched on its own goroutine. `handle` settles it in one
of three ways:

- ack it;
- reject it with requeue;
- reject it without requeue.

### What is hard

- **Remote reads racing owner writes.** A read is classified against the
  cache, then answered by an RPC, then merged. The owner may commit any
  number of revisions in between, and other goroutines may merge older or
  newer answers.
- **Timeouts.** The caller gives up while the server still applies the
  update, so the remote catalog never learns the new revision.
- **Non-atomic server steps.** `server.update` runs `TryUpdate` and then
  reads `CreatedRevs` from a second snapshot.
- **Captured state used after unlocking.** The nil namespace map in the
  remote `TryUpdate` is an example.
- **Deliveries buffered before `Unlisten`.** They reach `handle` after the
  handler is gone.
- **Out-of-order completion.** Dispatch goroutines finish in any order while
  acks use `multiple = true`.
- **A channel closing under running handlers.**
- **Bounded counters.** `seq` is a uint32.

### What makes each part correct

- **Local catalog:**
  - Message IDs are fenced by revision (spec 8.3).
  - Frozen attributes never change (spec 8.2).
  - CreatedAt and UpdatedAt describe the table's history, which is what the
    remote cache relies on.
- **Remote catalog:**
  - A Fetch at revision r returns only what the owner held at r (spec 8.5).
  - A successful remote TryUpdate has applied its attributes.
  - The catalog is marked closed only for a destroyed session.
  - Nothing panics.
- **Command server:**
  - A balanced request is never abandoned.
  - A request is acked only after it is answered.
  - Only balanced deliveries are requeued when no handler is found (spec
    8.6).
  - Every delivery is eventually settled.

## 2. Modules

They are listed in dependency order.

| Module | Models | Composes |
|---|---|---|
| `CatalogSpec` | what the `Catalog` interface promises (abstract) | |
| `LocalCatalog` | the owner's catalog | `INSTANCE CatalogSpec WITH` (refinement) |
| `RemoteCatalog` | remote catalog + remote session server + owner | `EXTENDS LocalCatalog` |
| `CommandServer` | one peer's AMQP command server and the broker queues it uses | |
| `Session` | the local session facade over its owner catalog | `EXTENDS LocalCatalog` |
| `MCLocalCatalog`, `MCRemoteCatalog`, `MCCommandServer`, `MCSession` | model values and constant sets for TLC | |

### LocalCatalog

- **Variables.** `rev`, `attrs` (one namespace: key → `[value, frozen, createdAt, updatedAt]`), `seq` and `done`. There are also two history variables, used only by properties:
  - `history`: the table at every revision;
  - `issued`: every ID handed out.
- **Locking.** Every method holds the catalog lock for its whole body, so each one is one action.
- **TryUpdate.** It is `UpdateResult`, a `FoldLeft` of `ApplyAttr` over the attribute list followed by the done and stale checks, and then `CommitUpdate`. Its shape:
  - the revision moves and `seq` resets on every success;
  - the table is replaced only if something changed.
- **NextMessageID.** It increments `seq` modulo `SeqModulus` (2^32 in the code).
- **Head and At.** They only read, and the table they hand out is never
  written again (`TryUpdate` builds a new one with `CloneAndReplace`), so
  they are not modelled: a revision handle is the table's value at its
  revision, which `history` already records.
- **Absent keys.** An absent key is Go's zero `attrmeta.Attr`, which is what the map lookup returns.
- **Refinement.** `CatalogSpec` is the contract written on the `Catalog`
  interface: a revision counting successful updates, a value and frozen flag
  per key, a closed flag. Its `Update(list)` writes the whole list over the
  table at the next revision (a key's last attribute wins) and leaves frozen
  attributes alone; anything else is a failure that changes nothing.
  `LocalCatalog` maps onto it through what `Ref` and `Attrs` return
  (`RefView`, `AttrsView`, `done`); message IDs and the
  `CreatedAt`/`UpdatedAt` metadata are hidden. `CatalogRefinement`
  (`Abs!AbsSpec`) is checked as a property of the `local_catalog` run.

### RemoteCatalog

The remote catalog's state is:

- `highestRev`, `cache`, `nsCached` (whether `c.cache[ns]` is non-nil) and `isClosed`;
- `pc` and `frame`: each goroutine's position and the locals it keeps across its RPC.

Each method is split at its RPC:

| Method | Before the RPC | After the RPC |
|---|---|---|
| Head | `HeadBegin` | `HeadEnd` |
| Fetch | `FetchLocal` (with `FetchLocalResult` = `fetchLocal`, which classifies each key by `Classify`) | `FetchMerge` |
| TryUpdate | `UpdateBegin` | `UpdateMerge` |
| TryDestroy | `DestroyBegin` | `DestroyEnd` |

`At` is a single step.

RPCs are records in `requests`. The server handles them in any order, one
goroutine per request:

- `ServeFetch`;
- `ServeUpdateApply`, which is `TryUpdate`, followed later by a separate `ServeUpdateReply`, which is the second `Attrs()` read;
- `ServeClose`.

The other actions:

- `Timeout` gives a waiting goroutine an error and leaves its request in flight with no receiver.
- The owner acts at any time through `OwnerUpdate` and `OwnerClose`.
- `StoreRemove` drops a closed session from the owner's session store.

Two monitor flags record the check on each returned answer:

- `unsoundRead`: the Fetch answer is compared with `history` at the requested revision.
- `lostUpdate`: the table after the update is compared with the update's list.

The client and the session store are not in the source. `Send`, `Respond`,
`Request`, `Timeout` and `StoreRemove` are written from the spec and marked
`spec_modelled`.

### CommandServer

- **Variables.**
  - Server side: `handlers`.
  - Broker side: `bound` (multicast bindings), `consuming` (balanced consumers), `queue`, `outstanding` (unacknowledged deliveries in delivery-tag order) and `chanOpen`.
  - Tracking: `running` (live dispatch goroutines), `origin`, `info` (exchange, namespace and form of each published message) and `fate`.
  - History for properties: `answered`.
- **Listen and Unlisten.** Each holds the server mutex across its broker calls, so each is one action.
- **Dispatch.** This is `dispatch` + `handle` for one delivery. Its decision is `Outcome`. The broker applies it in `Settle`:
  - `Ack(true)` removes the delivery and every earlier one;
  - settling a delivery the broker no longer holds is a channel error.
- **Deliver.** It is bounded by the channel-global prefetch (`Qos(preFetch, 0, true)`).
- **ChannelClose.** This is `waitForChannel`/`close`. The broker requeues every unacknowledged delivery (`ChannelLost`).
- **ListenFails, UnlistenFails.** The error returns of `Listen` and `Unlisten`. A broker that refuses an AMQP method raises a channel exception, so the channel closes; a multicast binding made (or removed) before the failing call stays so, and the handler map is not changed.
- **Outside the source.** Publishing (`Publish`), other peers' consumers (`OtherTake`) and the broker's requeue and tags are marked `spec_modelled`.

### Session

- **Variables.** `sessDone` (`s.done` closed), `readers` (goroutines holding
  the read lock), `spc` (where each goroutine is), `listening`
  (subscriptions held by the listener), `asyncHandler`, `arg` (the
  namespace a `Listen` in progress subscribes in); the history variable
  `lateCall` records a `Call` or `CallAsync` that sent after destroy.
  The catalog's variables come from `LocalCatalog`.
- **The RWMutex.** `CanRLock` is Go's rule: a reader enters only when no
  goroutine waits in `Lock` (`WriterPending`).
- **Methods under the read lock.** `LockAndCheck` is `RLock` followed by
  the `select` on `done`. `Call` is `CallBegin` (lock and check),
  `CallSend` (`NextMessageID` and the send) and `CallEnd` (the response
  arrives or the deadline passes; the deferred `RUnlock`). `CallAsync` is
  `CallAsyncBegin` and `CallAsyncSend`, `Listen` is `ListenBegin` and
  `ListenSubscribe`, `SetAsyncHandler` is `SetAsyncHandlerBegin` and
  `SetAsyncHandlerEnd`. Splitting them at the check makes the lock
  observable: a `destroy` whose `Lock` does not wait for a goroutine
  between the check and its send or subscription lets that goroutine act
  on a destroyed session. `Unlisten` stays one action (destroy unlistens
  everything anyway).
- **Execute, Notify, NotifyMany** are `ExecuteCheck` (the `select` on
  `done`, no lock) and `ExecuteSend` (`NextMessageID` and the send).
- **destroy.** `DestroyCall` (an application goroutine) and `WatcherWake`
  (the goroutine `NewSession` starts, woken by `catalog.Done()`) wait in
  `Lock`; `DestroyLocked` runs once no reader is left and, the first time,
  closes `done`, closes the catalog, clears the async handler and unlistens.
- **CatalogClosed.** The catalog is closed from elsewhere: a remote
  `TryDestroy` served by this peer, or the peer stopping.

## 3. Runs

| Run | cfg | Expect | What it shows |
|---|---|---|---|
| session | `MCSession.cfg` | pass | Two application goroutines and the watcher, the catalog closed from elsewhere. Checks `SessTypeOK`, `NothingAfterDestroy` (no subscription or async handler made between a goroutine's done check and its listener call survives destroy), `CallsWhileLive` (no `Call` or `CallAsync` sends after destroy), `SessionEndsWithCatalog` and `DestroyCompletes`. `Execute` sends without the lock, which spec 4.5 allows, so no property is stated about it. |
| local_catalog | `MCLocalCatalog.cfg` | pass | Every owner history up to revision 3, two keys and update lists of one or two attributes (repeated keys included), with destroys and ID allocation. Checks `TypeOK`, `MessageIDFence`, `MetaMatchesHistory` and the refinement `CatalogRefinement` (which also keeps frozen attributes fixed). |
| local_seq_wrap | `MCLocalCatalogWrap.cfg` | violation | With `SeqModulus = 3`, `MessageIDFence` fails: the counter wraps and an ID is reissued. |
| remote_catalog_races | `MCRemoteCatalog.cfg` | pass | Two remote goroutines and the owner on one key up to revision 3, with timeouts and closes; only the owner freezes the key. Checks `RemoteTypeOK`, `FetchSound`, `UpdateApplied` and `ClosedOnlyIfDestroyed`. |
| remote_catalog_keys | `MCRemoteCatalogKeys.cfg` | pass | `FetchSound`, `UpdateApplied` and `ClosedOnlyIfDestroyed` with one goroutine and two keys, so a request mixes solved, absent, stale and unsolved keys. |
| remote_nil_map | `MCRemoteNilMap.cfg` | violation | The first remote TryUpdate of an uncached namespace writes into a nil map. |
| remote_dup_keys | `MCRemoteDupKeys.cfg` | violation | A remote TryUpdate setting one key twice makes a later Fetch unsound. |
| command_server | `MCCommandServer.cfg` | pass | One delivery in flight, two namespaces, two messages of any exchange and form, and handlers that may not answer, with the channel closing. Another peer listens on n1. Checks `CmdTypeOK`, which includes the global prefetch bound: the channel never holds more than `PreFetch` unacknowledged deliveries across all its consumers. |
| command_server_prefetch2 | `MCCommandServerPrefetch2.cfg` | pass | Two deliveries in flight, including settling an already-acked delivery, with other peers listening on both namespaces. `BalancedSettled`: every balanced request is eventually acked, rejected or taken by another peer, unless the channel closes first. |
| command_ack_multiple | `MCCommandAckMultiple.cfg` | violation | `AckedOnlyIfAnswered` fails with two deliveries in flight: `Ack(true)` acks a request still being handled. |
| command_requeue_loop | `MCCommandRequeueLoop.cfg` | violation | A unicast delivery with no handler is requeued (spec 8.6 allows that only for balanced ones). Under fairness, handlers that always answer and a channel that stays open, such a request still circulates forever (`EverySettled`). |

Every property of a passing run has a mutant in `PROJECT.json`. A mutant is a
plausible bug in a mapped definition, and the property catches it. Examples:

- writing a partial update into the live table;
- ignoring `UpdatedAt` in `fetchLocal`;
- comparing only values when skipping;
- closing on any error;
- prefetch off by one;
- leaving an unanswered request unsettled.

### Bounds and why they are enough

**Revisions.** `MaxRev = 3` in `remote_catalog_races` and `local_catalog`,
and 2 in `remote_catalog_keys` (two keys at revision 3 take 13 minutes).
Revision 2 is enough for a goroutine to:

1. cache a key at one revision;
2. see the owner change it;
3. read or update at an older, equal or newer revision.

These are all the comparisons `fetchLocal` and `TryUpdate` make: created
after, updated after, frozen, fetched at or after. Skipping an attribute
fetched *before* the update's revision is wrong only when the owner changed
it in between and a goroutine then updates at a later revision: that takes
a third owner revision, which is why the races run goes to 3; its
`UpdateApplied` mutant (`SkippableIfOlder`) is exactly that bug.
In the races run the remote goroutines set one attribute without freezing
it (`MCRemoteUnfrozenLists`); the owner still freezes keys, so the cache
still meets frozen entries. Remote updates that freeze, and lists of two
attributes, are in `remote_catalog_keys`. This keeps the races run at
about 920,000 states, well inside the time limit at revision 3.

**In-flight requests.** `MaxInFlight = 1` bounds requests in flight,
orphans included. With two goroutines, one can still be between its phases
while another completes a whole method. Larger values made the state space
explode without adding an interleaving of a different kind.

**Command server.** Two messages, two namespaces and prefetch 1 or 2 are
enough for:

- a delivery buffered across an Unlisten;
- a requeue to each kind of queue;
- two deliveries completing out of order (the `Ack(true)` case).

**Session.** Two application goroutines are enough for one to hold the
read lock in `Call` while the other waits in `destroy`, and for a reader to
race the watcher. The message counter wraps (`MaxSeq = SeqModulus = 3`), so
goroutines can call forever in a finite state space; without that, a bound
on sends would drain the readers by itself and `DestroyCompletes` would hold
for the wrong reason. The catalog never updates (`UpdateLists = {}`), since
revisions do not affect the facade.

**Symmetry.** Goroutines and messages are model values under symmetry in the
safety-only runs. Runs that check a liveness property (`session`,
`command_server_prefetch2`, `command_requeue_loop`) use no symmetry.

**Seq counter.** TLC cannot represent 2^32, so the pass run uses
`SeqModulus = 2^31 - 1` with `MaxSeq = 2`. There the wrap cannot happen, and
the wrap run shrinks the modulus instead.

### Fairness

`session` checks `SessionEndsWithCatalog` and `DestroyCompletes` under weak fairness on
`CallEnd` (the context passed to `Call` carries a deadline, so the call
returns), on `WatcherWake` and on `DestroyLocked` (a goroutine runnable in
`Lock` is scheduled once the readers leave; Go's RWMutex lets no new reader
in meanwhile), and on `CallSend`, `CallAsyncSend`, `ListenSubscribe` and
`SetAsyncHandlerEnd` (a goroutine holding the read lock runs on to its
unlock). No fairness is given to `CallBegin`: goroutines may keep
calling, and `DestroyCompletes` shows the writer still gets the lock.

`command_server_prefetch2` (`BalancedSettled`) and `command_requeue_loop`
(`EverySettled`) check liveness of the command server. Their fairness is:

- weak fairness on each delivery, because the broker keeps delivering to an
  open consumer with room in its prefetch window;
- weak fairness on each dispatch goroutine, which runs to its end;
- strong fairness on another peer taking from a balanced queue, because the
  broker round-robins among a queue's consumers and so eventually offers the
  message to the other peer.

Listen, Unlisten and Publish are client choices and get no fairness.
Handlers get none either: a handler may leave every response open. An
unanswered balanced request then leaves this peer only because the strong
fairness of `OtherTake` lets another peer take it when it is requeued.

## 4. Not modelled, and why

- **Session facade details.** Listener and invoker errors, payloads,
  tracing and logging are left out; `CurrentRevision`, `ID` and `Done` only
  read. A handler that destroys its own session waits in `Lock` for its
  `Call`'s deadline; this is a delay, not a deadlock, and is listed as a
  hazard only.
- **The invoker.** Its pending-response table (spec 8.7) is not in the
  source. Only the interface (`part_006`) is.
- **Client-side errors of Listen/Unlisten on a closed channel.** They return
  `ErrClosed` and change nothing, so they are stuttering steps.
- **Multiple namespaces of a catalog.** `TryUpdate` clones and replaces one
  namespace's sub-table only, so namespaces do not interact. The server code
  in `server.go` also has no namespace argument.
- **Revision handles.** `Head` and `At` hand out a table `TryUpdate` never
  writes again (`CloneAndReplace`), so a handle is the table's value at its
  revision and there is nothing more to check about it.
- **Pure code.** Payload encoding, tracing, logging, the attribute-table
  string form, `MatchConstraint`, options and identifier parsing have no
  state that the properties above distinguish.
