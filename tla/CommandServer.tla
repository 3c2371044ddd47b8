--------------------------- MODULE CommandServer ---------------------------
(***************************************************************************)
(* The AMQP command server of one peer (commandamqp server, the second     *)
(* file of unnamed/part_000) and the broker queues it consumes.            *)
(*                                                                         *)
(*  - the peer's private request queue is bound to its peer ID on the      *)
(*    unicast exchange, and to every namespace it listens on on the        *)
(*    multicast exchange;                                                  *)
(*  - each namespace has a balanced queue shared by every peer listening   *)
(*    on it; this peer consumes it while it listens;                       *)
(*  - deliveries are dispatched on their own goroutines, at most PreFetch  *)
(*    unacknowledged at once on the server's channel;                      *)
(*  - Listen and Unlisten hold the server's mutex across their broker      *)
(*    calls, and handle reads the handler map under the read lock, so each *)
(*    is one step here.                                                    *)
(* Messages are published by other peers' invokers.  Other peers that      *)
(* listen on a namespace take messages from its balanced queue.            *)
(***************************************************************************)
EXTENDS Naturals, FiniteSets, Sequences, SequencesExt

CONSTANTS
    Namespaces,      \* command namespaces
    Handlers,        \* overpass.CommandHandler values
    NoHandler,       \* what the handler map yields for a namespace not listened on
    Msgs,            \* AMQP deliveries, each published once
    Private,         \* the peer's private request queue
    OtherListeners,  \* namespaces some other peer listens on, forever
    Responses,       \* whether a handler run closes its response
    ChannelMayClose, \* whether the broker may close the server's channel
    PreFetch         \* the preFetch argument of the server's channel.Qos

ASSUME Private \notin Namespaces /\ NoHandler \notin Handlers
ASSUME ChannelMayClose \in BOOLEAN /\ Responses \subseteq BOOLEAN /\ OtherListeners \subseteq Namespaces /\ PreFetch \in Nat \ {0}

Exchanges == {"unicast", "multicast", "balanced"}

(* A queue: the private one, or the balanced queue of a namespace. *)
Queues == {Private} \cup Namespaces

(* What a published message carries: its exchange, its namespace (routing  *)
(* key or namespace header), and its form: "valid", "malformed" (a message *)
(* ID that does not parse, or a unicast request without a namespace        *)
(* header), or "nosource" (its source session's revision cannot be got).   *)
Info == [ex : Exchanges, ns : Namespaces, form : {"valid", "malformed", "nosource"}]

VARIABLES
    handlers,    \* s.handlers
    bound,       \* namespaces the private queue is bound to on the multicast exchange
    consuming,   \* namespaces whose balanced queue this server consumes
    queue,       \* queue[q]: messages ready in queue q
    outstanding, \* the channel's unacknowledged deliveries, in delivery-tag order
    running,     \* messages whose dispatch goroutine has not settled them yet
    chanOpen,    \* the server's channel is open (s.done not closed)
    origin,      \* origin[m]: the queue m was last delivered from
    info,        \* info[m]: what m carries, once published
    fate,        \* fate[m]: "unsent", "pending", "acked", "dropped" or "elsewhere"
    answered     \* messages whose handler has closed the response

cmdVars == <<handlers, bound, consuming, queue, outstanding, running, chanOpen,
             origin, info, fate, answered>>

NoInfo == [ex |-> "unicast", ns |-> CHOOSE n \in Namespaces : TRUE, form |-> "malformed"]

(***************************************************************************)
(* Listen(namespace, handler): swap the handler when already listening;    *)
(* otherwise bind the private queue to the namespace on the multicast      *)
(* exchange, consume the namespace's balanced queue and store the handler. *)
(* On a closed channel the first broker call fails and nothing changes.    *)
(***************************************************************************)
Listen(ns, h) ==
    /\ handlers[ns] = NoHandler => chanOpen
    /\ handlers' = [handlers EXCEPT ![ns] = h]
    /\ IF handlers[ns] # NoHandler
       THEN UNCHANGED <<bound, consuming>>
       ELSE /\ bound' = bound \cup {ns}
            /\ consuming' = consuming \cup {ns}
    /\ UNCHANGED <<queue, outstanding, running, chanOpen, origin, info, fate, answered>>

(***************************************************************************)
(* Unlisten(namespace): unbind the multicast binding, cancel the balanced  *)
(* consumer and delete the handler.  Deliveries already dispatched stay    *)
(* unacknowledged and reach handle after the handler is gone.              *)
(***************************************************************************)
Unlisten(ns) ==
    /\ handlers[ns] # NoHandler /\ chanOpen
    /\ bound' = bound \ {ns}
    /\ consuming' = consuming \ {ns}
    /\ handlers' = [handlers EXCEPT ![ns] = NoHandler]
    /\ UNCHANGED <<queue, outstanding, running, chanOpen, origin, info, fate, answered>>

(* Another peer's invoker publishes m: the broker routes it by exchange; a *)
(* multicast message with no binding for its namespace is not routed here. *)
Publish(m, i) ==
    /\ fate[m] = "unsent"
    /\ info' = [info EXCEPT ![m] = i]
    /\ IF i.ex = "multicast" /\ i.ns \notin bound
       THEN /\ fate' = [fate EXCEPT ![m] = "elsewhere"]
            /\ UNCHANGED queue
       ELSE LET q == IF i.ex = "balanced" THEN i.ns ELSE Private IN
            /\ queue' = [queue EXCEPT ![q] = @ \cup {m}]
            /\ fate' = [fate EXCEPT ![m] = "pending"]
    /\ UNCHANGED <<handlers, bound, consuming, outstanding, running, chanOpen,
                   origin, answered>>

(* The server consumes queue q: its private queue always, a balanced queue *)
(* while it listens on the namespace.                                      *)
Consumes(q) == chanOpen /\ (q = Private \/ q \in consuming)

(* Mutant: the prefetch count is exceeded by one. *)
DeliverPastPrefetch(q, m) ==
    /\ Consumes(q) /\ m \in queue[q]
    /\ Len(outstanding) <= PreFetch
    /\ queue' = [queue EXCEPT ![q] = @ \ {m}]
    /\ outstanding' = Append(outstanding, m)
    /\ running' = running \cup {m}
    /\ origin' = [origin EXCEPT ![m] = q]
    /\ UNCHANGED <<handlers, bound, consuming, chanOpen, info, fate, answered>>

(***************************************************************************)
(* The broker delivers m from q to dispatchEach, which starts a dispatch   *)
(* goroutine for it.  channel.Qos(preFetch, 0, true) is global: PreFetch   *)
(* bounds the unacknowledged deliveries of all consumers of the channel    *)
(* together.                                                               *)
(***************************************************************************)
Deliver(q, m) ==
    /\ Consumes(q) /\ m \in queue[q]
    /\ Len(outstanding) < PreFetch
    /\ queue' = [queue EXCEPT ![q] = @ \ {m}]
    /\ outstanding' = Append(outstanding, m)
    /\ running' = running \cup {m}
    /\ origin' = [origin EXCEPT ![m] = q]
    /\ UNCHANGED <<handlers, bound, consuming, chanOpen, info, fate, answered>>

(* Another peer listening on ns takes m from the balanced queue. *)
OtherTake(ns, m) ==
    /\ ns \in OtherListeners /\ m \in queue[ns]
    /\ queue' = [queue EXCEPT ![ns] = @ \ {m}]
    /\ fate' = [fate EXCEPT ![m] = "elsewhere"]
    /\ UNCHANGED <<handlers, bound, consuming, outstanding, running, chanOpen,
                   origin, info, answered>>

(* The broker puts every unacknowledged delivery back in its queue. *)
RequeueAll(q) == queue[q] \cup {outstanding[i] : i \in {j \in DOMAIN outstanding : origin[outstanding[j]] = q}}

(***************************************************************************)
(* The channel closes (a broker or connection error): waitForChannel       *)
(* closes s.done; the broker requeues the channel's unacknowledged         *)
(* deliveries.  Goroutines still running then settle on a closed channel.  *)
(***************************************************************************)
ChannelLost ==
    /\ chanOpen' = FALSE
    /\ queue' = [q \in Queues |-> RequeueAll(q)]
    /\ outstanding' = <<>>

ChannelClose ==
    /\ chanOpen /\ ChannelMayClose
    /\ ChannelLost
    /\ UNCHANGED <<handlers, bound, consuming, running, origin, info, fate, answered>>

(***************************************************************************)
(* Listen's error returns: QueueBind, the balanced queue's declaration in  *)
(* queues.Get, or Consume is refused.  A refused AMQP method is a channel  *)
(* exception, so the channel closes; a binding made before the failure    *)
(* stays, and no handler is stored.                                        *)
(***************************************************************************)
ListenFails(ns) ==
    /\ handlers[ns] = NoHandler /\ chanOpen /\ ChannelMayClose
    /\ \E bindDone \in BOOLEAN : bound' = IF bindDone THEN bound \cup {ns} ELSE bound
    /\ ChannelLost
    /\ UNCHANGED <<handlers, consuming, running, origin, info, fate, answered>>

(* Unlisten's error returns: QueueUnbind or Cancel is refused; the channel *)
(* closes and the handler is not deleted.                                 *)
UnlistenFails(ns) ==
    /\ handlers[ns] # NoHandler /\ chanOpen /\ ChannelMayClose
    /\ \E unbound \in BOOLEAN : bound' = IF unbound THEN bound \ {ns} ELSE bound
    /\ ChannelLost
    /\ UNCHANGED <<handlers, consuming, running, origin, info, fate, answered>>

(* handle gets as far as calling the handler. *)
HandlerRuns(m) == info[m].form = "valid" /\ handlers[info[m].ns] # NoHandler

(***************************************************************************)
(* dispatch and handle: how a delivery is settled.  A malformed message is *)
(* rejected without requeue; with no handler for the namespace it is       *)
(* rejected with requeue, whatever its exchange; one whose source revision *)
(* cannot be got is rejected without requeue; after the handler has run, a *)
(* closed response is acked with multiple = true, an open one requeued if  *)
(* balanced and rejected otherwise.                                        *)
(***************************************************************************)
Outcome(m, responded) ==
    IF info[m].form = "malformed" THEN "drop"
    ELSE IF handlers[info[m].ns] = NoHandler THEN "requeue"
    ELSE IF info[m].form = "nosource" THEN "drop"
    ELSE IF responded THEN "ack"
    ELSE IF info[m].ex = "balanced" THEN "requeue"
    ELSE "drop"

(* The position of m among the unacknowledged deliveries, 0 if none. *)
TagIndex(m) ==
    IF \E i \in DOMAIN outstanding : outstanding[i] = m
    THEN CHOOSE i \in DOMAIN outstanding : outstanding[i] = m
    ELSE 0

(***************************************************************************)
(* The broker's side of settling m.  Ack(true) acknowledges m and every    *)
(* delivery before it.  Settling a delivery the broker no longer holds is  *)
(* a channel error: the channel closes and its deliveries are requeued.    *)
(* On a closed channel the call fails and nothing changes.                 *)
(***************************************************************************)
Settle(m, how) ==
    LET i == TagIndex(m) IN
    IF ~chanOpen THEN UNCHANGED <<queue, outstanding, chanOpen, fate>>
    ELSE IF i = 0
    THEN /\ chanOpen' = FALSE
         /\ queue' = [q \in Queues |-> RequeueAll(q)]
         /\ outstanding' = <<>>
         /\ UNCHANGED fate
    ELSE /\ UNCHANGED chanOpen
         /\ CASE how = "ack" ->
                   /\ outstanding' = SubSeq(outstanding, i + 1, Len(outstanding))
                   /\ fate' = [x \in Msgs |->
                                 IF \E j \in 1..i : outstanding[j] = x THEN "acked"
                                 ELSE fate[x]]
                   /\ UNCHANGED queue
              [] how = "requeue" ->
                   /\ outstanding' = RemoveAt(outstanding, i)
                   /\ queue' = [queue EXCEPT ![origin[m]] = @ \cup {m}]
                   /\ UNCHANGED fate
              [] how = "drop" ->
                   /\ outstanding' = RemoveAt(outstanding, i)
                   /\ fate' = [fate EXCEPT ![m] = "dropped"]
                   /\ UNCHANGED queue

(* Mutant: a request whose response was left open is neither acked nor  *)
(* rejected; its delivery stays unacknowledged.                          *)
DispatchForgettingUnanswered(m, responded) ==
    LET how == Outcome(m, responded) IN
    /\ m \in running
    /\ running' = running \ {m}
    /\ answered' = IF HandlerRuns(m) /\ responded THEN answered \cup {m} ELSE answered
    /\ IF HandlerRuns(m) /\ ~responded
       THEN UNCHANGED <<queue, outstanding, chanOpen, fate>>
       ELSE Settle(m, how)
    /\ UNCHANGED <<handlers, bound, consuming, origin, info>>

(* The dispatch goroutine of m runs to its end; responded: whether the     *)
(* handler, if it runs, closes the response.                               *)
Dispatch(m, responded) ==
    LET how == Outcome(m, responded) IN
    /\ m \in running
    /\ running' = running \ {m}
    /\ answered' = IF HandlerRuns(m) /\ responded THEN answered \cup {m} ELSE answered
    /\ Settle(m, how)
    /\ UNCHANGED <<handlers, bound, consuming, origin, info>>

(* initialize: the private queue is declared, bound and consumed. *)
CmdInit ==
    /\ handlers = [ns \in Namespaces |-> NoHandler]
    /\ bound = {}
    /\ consuming = {}
    /\ queue = [q \in Queues |-> {}]
    /\ outstanding = <<>>
    /\ running = {}
    /\ chanOpen = TRUE
    /\ origin = [m \in Msgs |-> Private]
    /\ info = [m \in Msgs |-> NoInfo]
    /\ fate = [m \in Msgs |-> "unsent"]
    /\ answered = {}

CmdNext ==
    \/ \E ns \in Namespaces, h \in Handlers : Listen(ns, h)
    \/ \E ns \in Namespaces : Unlisten(ns)
    \/ \E m \in Msgs, i \in Info : Publish(m, i)
    \/ \E q \in Queues, m \in Msgs : Deliver(q, m)
    \/ \E ns \in Namespaces, m \in Msgs : OtherTake(ns, m)
    \/ ChannelClose
    \/ \E ns \in Namespaces : ListenFails(ns) \/ UnlistenFails(ns)
    \/ \E m \in Msgs, responded \in Responses : Dispatch(m, responded)

(* The broker keeps delivering while the server consumes, and the server's *)
(* dispatch goroutines run to completion; another peer that consumes a     *)
(* balanced queue gets messages from it whenever it is repeatedly offered  *)
(* them (the broker round-robins among consumers).                         *)
CmdFairness ==
    /\ \A q \in Queues, m \in Msgs : WF_cmdVars(Deliver(q, m))
    /\ \A m \in Msgs : WF_cmdVars(\E responded \in Responses : Dispatch(m, responded))
    /\ \A ns \in Namespaces, m \in Msgs : SF_cmdVars(OtherTake(ns, m))

CmdSpec == CmdInit /\ [][CmdNext]_cmdVars /\ CmdFairness

-----------------------------------------------------------------------------
CmdTypeOK ==
    /\ handlers \in [Namespaces -> Handlers \cup {NoHandler}]
    /\ bound \subseteq Namespaces /\ consuming \subseteq Namespaces
    /\ queue \in [Queues -> SUBSET Msgs]
    /\ outstanding \in Seq(Msgs) /\ Len(outstanding) <= PreFetch
    /\ running \subseteq Msgs /\ chanOpen \in BOOLEAN
    /\ origin \in [Msgs -> Queues]
    /\ info \in [Msgs -> Info]
    /\ fate \in [Msgs -> {"unsent", "pending", "acked", "dropped", "elsewhere"}]
    /\ answered \subseteq Msgs

(***************************************************************************)
(* A request is acknowledged to the broker only once its handler has       *)
(* closed the response (handle's msg.Ack): the broker forgets an acked     *)
(* request, so acking one still being handled loses it if that handler     *)
(* does not respond.                                                       *)
(***************************************************************************)
AckedOnlyIfAnswered ==
    \A m \in Msgs : fate[m] = "acked" => m \in answered

(***************************************************************************)
(* Every balanced request is eventually acked, rejected for good or taken  *)
(* by another peer, unless the server's channel closes first (handle,      *)
(* Settle): one left unanswered, or delivered after an Unlisten, is        *)
(* requeued to the shared balanced queue, never lost in the channel's      *)
(* unacknowledged deliveries, and the broker then offers it to the other   *)
(* listening peers too.                                                    *)
(***************************************************************************)
BalancedSettled ==
    \A m \in Msgs :
        fate[m] = "pending" /\ info[m].ex = "balanced"
            ~> fate[m] # "pending" \/ ~chanOpen

(***************************************************************************)
(* Every message routed to this peer is eventually settled: acked,         *)
(* rejected for good, or taken by another peer.  A requeued request must   *)
(* not circulate forever.                                                  *)
(***************************************************************************)
EverySettled ==
    \A m \in Msgs : fate[m] = "pending" ~> fate[m] # "pending"
=============================================================================
