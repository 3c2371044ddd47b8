------------------------------ MODULE Session ------------------------------
(***************************************************************************)
(* The local session facade (localsession session, unnamed/part_003) over  *)
(* its LocalCatalog.                                                       *)
(*                                                                         *)
(*  - application goroutines (Threads) call the session concurrently;      *)
(*  - Call, CallAsync, SetAsyncHandler, Listen and Unlisten hold the       *)
(*    session's read lock from their done check to their return; Execute,  *)
(*    Notify and NotifyMany check done without it;                         *)
(*  - destroy takes the write lock; it is called by Destroy and by the     *)
(*    goroutine NewSession starts, which waits for catalog.Done();         *)
(*  - the catalog is also closed from elsewhere: a remote peer's accepted  *)
(*    TryDestroy, or the peer stopping.                                    *)
(* A pending Lock blocks new RLock calls (sync.RWMutex), so once destroy   *)
(* waits, no reader enters.                                                *)
(***************************************************************************)
EXTENDS LocalCatalog, FiniteSets

CONSTANTS
    Threads,      \* application goroutines using the session
    Watcher,      \* the goroutine started by NewSession
    SessNamespaces \* notification namespaces

ASSUME Watcher \notin Threads

VARIABLES
    sessDone,     \* s.done has been closed
    readers,      \* goroutines holding the session's read lock
    spc,          \* spc[g]: where goroutine g is
    arg,          \* arg[t]: the namespace a Listen of t subscribes in
    listening,    \* namespaces the listener holds a subscription of this session in
    asyncHandler, \* the invoker holds an async handler for this session
    lateCall      \* a message was sent by Call/CallAsync after destroy

sessVars == <<sessDone, readers, spc, arg, listening, asyncHandler, lateCall>>
allVars == <<catalogVars, sessVars>>

Goroutines == Threads \cup {Watcher}

(* Where a goroutine holds the read lock: between its done check and the  *)
(* deferred RUnlock.                                                      *)
Locked == {"callLocked", "calling", "asyncLocked", "listenLocked", "handlerLocked"}

(* A goroutine waits in Lock: new RLock calls block. *)
WriterPending == \E g \in Goroutines : spc[g] = "destroying"

(* Mutant: readers enter even while a writer waits in Lock. *)
CanRLockIgnoringWriter(t) == spc[t] = "idle"

(* An RLock call returns. *)
CanRLock(t) == spc[t] = "idle" /\ ~WriterPending

(* Take the read lock and pass the select on s.done, into state where; *)
(* when s.done is closed, RUnlock and return NotFound: no change.      *)
LockAndCheck(t, where) ==
    /\ CanRLock(t)
    /\ IF sessDone
       THEN UNCHANGED <<readers, spc>>
       ELSE /\ readers' = readers \cup {t}
            /\ spc' = [spc EXCEPT ![t] = where]

(* The deferred RUnlock. *)
RUnlock(t) ==
    /\ readers' = readers \ {t}
    /\ spc' = [spc EXCEPT ![t] = "idle"]

(* catalog.NextMessageID, then the message goes out through the invoker; *)
(* lateCall records whether the session was already gone.               *)
SendMessage ==
    /\ NextMessageID
    /\ lateCall' = (lateCall \/ sessDone)

(* Mutant: the early NotFound return does not release the read lock. *)
CallBeginLeakingLock(t) ==
    /\ CanRLock(t)
    /\ readers' = readers \cup {t}
    /\ spc' = [spc EXCEPT ![t] = IF sessDone THEN "idle" ELSE "callLocked"]
    /\ UNCHANGED <<catalogVars, sessDone, arg, listening, asyncHandler, lateCall>>

(* Mutant: the done check is made without the read lock, as Execute does. *)
CallBeginWithoutLock(t) ==
    /\ CanRLock(t) /\ ~sessDone
    /\ spc' = [spc EXCEPT ![t] = "callLocked"]
    /\ UNCHANGED <<catalogVars, sessDone, readers, arg, listening, asyncHandler, lateCall>>

(* Call: RLock, and the done check. *)
CallBegin(t) ==
    /\ LockAndCheck(t, "callLocked")
    /\ UNCHANGED <<catalogVars, sessDone, arg, listening, asyncHandler, lateCall>>

(* ... NextMessageID and CallBalanced, which waits with the lock held. *)
CallSend(t) ==
    /\ spc[t] = "callLocked"
    /\ SendMessage
    /\ spc' = [spc EXCEPT ![t] = "calling"]
    /\ UNCHANGED <<sessDone, readers, arg, listening, asyncHandler>>

(* Mutant: the deferred RUnlock is missing. *)
CallEndKeepingLock(t) ==
    /\ spc[t] = "calling"
    /\ spc' = [spc EXCEPT ![t] = "idle"]
    /\ UNCHANGED <<catalogVars, sessDone, readers, arg, listening, asyncHandler, lateCall>>

(* Call returns: a response or the context's deadline; RUnlock. *)
CallEnd(t) ==
    /\ spc[t] = "calling"
    /\ RUnlock(t)
    /\ UNCHANGED <<catalogVars, sessDone, arg, listening, asyncHandler, lateCall>>

(* CallAsync: RLock and the done check, ... *)
CallAsyncBegin(t) ==
    /\ LockAndCheck(t, "asyncLocked")
    /\ UNCHANGED <<catalogVars, sessDone, arg, listening, asyncHandler, lateCall>>

(* ... then NextMessageID, CallBalancedAsync and RUnlock. *)
CallAsyncSend(t) ==
    /\ spc[t] = "asyncLocked"
    /\ SendMessage
    /\ RUnlock(t)
    /\ UNCHANGED <<sessDone, arg, listening, asyncHandler>>

(* Execute, Notify, NotifyMany: the done check, without the lock, ... *)
ExecuteCheck(t) ==
    /\ spc[t] = "idle" /\ ~sessDone
    /\ spc' = [spc EXCEPT ![t] = "checked"]
    /\ UNCHANGED <<catalogVars, sessDone, readers, arg, listening, asyncHandler, lateCall>>

(* ... then NextMessageID and the send. *)
ExecuteSend(t) ==
    /\ spc[t] = "checked"
    /\ NextMessageID
    /\ spc' = [spc EXCEPT ![t] = "idle"]
    /\ UNCHANGED <<sessDone, readers, arg, listening, asyncHandler, lateCall>>

(* Mutant: Listen checks done without the read lock, as Execute does. *)
ListenBeginWithoutLock(t, ns) ==
    /\ CanRLock(t) /\ ~sessDone
    /\ spc' = [spc EXCEPT ![t] = "listenLocked"]
    /\ arg' = [arg EXCEPT ![t] = ns]
    /\ UNCHANGED <<catalogVars, sessDone, readers, listening, asyncHandler, lateCall>>

(* Listen(ns): RLock and the done check, ... *)
ListenBegin(t, ns) ==
    /\ LockAndCheck(t, "listenLocked")
    /\ arg' = [arg EXCEPT ![t] = ns]
    /\ UNCHANGED <<catalogVars, sessDone, listening, asyncHandler, lateCall>>

(* ... then listener.Listen subscribes the session in ns; RUnlock. *)
ListenSubscribe(t) ==
    /\ spc[t] = "listenLocked"
    /\ listening' = listening \cup {arg[t]}
    /\ RUnlock(t)
    /\ UNCHANGED <<catalogVars, sessDone, arg, asyncHandler, lateCall>>

(* Unlisten: under the read lock, a live session unsubscribes from ns. *)
Unlisten(t, ns) ==
    /\ CanRLock(t) /\ ~sessDone
    /\ listening' = listening \ {ns}
    /\ UNCHANGED <<catalogVars, sessDone, readers, spc, arg, asyncHandler, lateCall>>

(* SetAsyncHandler: RLock and the done check, ... *)
SetAsyncHandlerBegin(t) ==
    /\ LockAndCheck(t, "handlerLocked")
    /\ UNCHANGED <<catalogVars, sessDone, arg, listening, asyncHandler, lateCall>>

(* ... then the invoker gets the session's wrapper; RUnlock. *)
SetAsyncHandlerEnd(t) ==
    /\ spc[t] = "handlerLocked"
    /\ asyncHandler' = TRUE
    /\ RUnlock(t)
    /\ UNCHANGED <<catalogVars, sessDone, arg, listening, lateCall>>

(* Destroy is called: destroy waits in Lock. *)
DestroyCall(t) ==
    /\ spc[t] = "idle"
    /\ spc' = [spc EXCEPT ![t] = "destroying"]
    /\ UNCHANGED <<catalogVars, sessDone, readers, arg, listening, asyncHandler,
                   lateCall>>

(* The goroutine of NewSession wakes on catalog.Done() and calls destroy. *)
WatcherWake ==
    /\ spc[Watcher] = "idle" /\ done
    /\ spc' = [spc EXCEPT ![Watcher] = "destroying"]
    /\ UNCHANGED <<catalogVars, sessDone, readers, arg, listening, asyncHandler,
                   lateCall>>

(***************************************************************************)
(* destroy, once Lock returns: the first caller closes s.done, closes the  *)
(* catalog, removes the async handler and all subscriptions.              *)
(***************************************************************************)
DestroyLocked(g) ==
    /\ spc[g] = "destroying" /\ readers = {}
    /\ spc' = [spc EXCEPT ![g] = IF g = Watcher THEN "finished" ELSE "idle"]
    /\ IF sessDone
       THEN UNCHANGED <<catalogVars, sessDone, listening, asyncHandler>>
       ELSE /\ sessDone' = TRUE
            /\ Close
            /\ asyncHandler' = FALSE
            /\ listening' = {}
    /\ UNCHANGED <<readers, arg, lateCall>>

(* The catalog is closed from elsewhere: a remote peer's TryDestroy is   *)
(* accepted, or the peer stops.                                          *)
CatalogClosed ==
    /\ \/ \E ref \in 0..rev : TryDestroy(ref)
       \/ Close
    /\ UNCHANGED sessVars

SessInit ==
    /\ Init
    /\ sessDone = FALSE
    /\ readers = {}
    /\ spc = [g \in Goroutines |-> "idle"]
    /\ arg = [t \in Threads |-> CHOOSE ns \in SessNamespaces : TRUE]
    /\ listening = {}
    /\ asyncHandler = FALSE
    /\ lateCall = FALSE

SessNext ==
    \/ \E t \in Threads :
          \/ CallBegin(t) \/ CallSend(t) \/ CallEnd(t)
          \/ CallAsyncBegin(t) \/ CallAsyncSend(t)
          \/ ExecuteCheck(t) \/ ExecuteSend(t)
          \/ SetAsyncHandlerBegin(t) \/ SetAsyncHandlerEnd(t)
          \/ ListenSubscribe(t) \/ DestroyCall(t)
          \/ \E ns \in SessNamespaces : ListenBegin(t, ns) \/ Unlisten(t, ns)
    \/ WatcherWake
    \/ \E g \in Goroutines : DestroyLocked(g)
    \/ CatalogClosed

(* A Call returns: its context carries a deadline.  A goroutine holding  *)
(* the read lock runs on to its RUnlock, and the watcher and a destroy   *)
(* waiting in Lock are scheduled.                                        *)
SessFairness ==
    /\ \A t \in Threads : WF_allVars(CallEnd(t))
    /\ \A t \in Threads : WF_allVars(CallSend(t) \/ CallAsyncSend(t) \/ ListenSubscribe(t)
                                     \/ SetAsyncHandlerEnd(t))
    /\ WF_allVars(WatcherWake)
    /\ \A g \in Goroutines : WF_allVars(DestroyLocked(g))

SessSpec == SessInit /\ [][SessNext]_allVars /\ SessFairness

-----------------------------------------------------------------------------
SessTypeOK ==
    /\ sessDone \in BOOLEAN /\ asyncHandler \in BOOLEAN
    /\ listening \subseteq SessNamespaces
    /\ spc \in [Goroutines -> Locked \cup {"idle", "checked", "destroying", "finished"}]
    /\ arg \in [Threads -> SessNamespaces]
    \* exactly the goroutines between a done check and its RUnlock hold the read lock
    /\ readers = {t \in Threads : spc[t] \in Locked}
    /\ lateCall \in BOOLEAN

(***************************************************************************)
(* A destroyed session keeps no subscription and no async handler (Listen, *)
(* SetAsyncHandler, destroy; the mutex comment: destroy's Unlisten is not  *)
(* "undone" by the user).  Listen and SetAsyncHandler hold the read lock   *)
(* from their done check to the listener or invoker call, so destroy's    *)
(* Lock waits for them and its UnlistenAll comes after.                   *)
(***************************************************************************)
NothingAfterDestroy ==
    sessDone => listening = {} /\ ~asyncHandler

(***************************************************************************)
(* Call and CallAsync never send a request on behalf of a destroyed        *)
(* session: the read lock taken before their done check is held until the  *)
(* request is sent, so destroy cannot close s.done in between.             *)
(***************************************************************************)
CallsWhileLive == ~lateCall

(***************************************************************************)
(* Once the catalog is closed, by any path, the session is eventually      *)
(* destroyed (NewSession's goroutine): the pending Lock keeps new readers  *)
(* out and every Call returns.                                             *)
(***************************************************************************)
SessionEndsWithCatalog == done ~> sessDone

(***************************************************************************)
(* Every Destroy, and the watcher's destroy, returns (destroy, Call): the  *)
(* write lock waits for the Calls holding the read lock, and Go's RWMutex  *)
(* lets no new reader in meanwhile, so the readers drain even though       *)
(* goroutines keep calling.                                                *)
(***************************************************************************)
DestroyCompletes ==
    \A g \in Goroutines : spc[g] = "destroying" ~> spc[g] # "destroying"
=============================================================================
