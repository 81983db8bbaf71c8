------------------------------ MODULE EventBus ------------------------------
(***************************************************************************)
(* The event bus of every worker (src/src/core/events/manager.py) and the  *)
(* Valkey channel between the workers (src/src/api/websocket/__init__.py). *)
(*                                                                         *)
(* dispatch() calls the critical subscriber, the WebSocket gateway, at     *)
(* once, hands the event to the ordinary subscribers, through a bounded    *)
(* queue on the event loop or directly on any other thread, and then       *)
(* publishes it to the sibling workers.  A coroutine without an await is   *)
(* one step; a dispatch on another thread takes one step per critical      *)
(* section and per call out.  An event is dispatched once, so the queue    *)
(* and the channel are sets: no property here is about their order.        *)
(***************************************************************************)
EXTENDS Integers, FiniteSets

CONSTANTS
    Worker,   \* the processes of the deployment
    Event,    \* the events dispatched (bound)
    Emitter,  \* the workers whose own code runs: they dispatch, subscribe, start
              \* and shut down; the others only listen (bound)
    Sub,      \* the callbacks of ordinary subscribers
    Nobody,   \* no worker
    QueueMax, \* _DISPATCH_QUEUE_MAX
    SubsMax,  \* _MAX_SUBSCRIBERS
    Unnamed,  \* workers whose SessionManager was built without a worker id,
              \* because the ping that precedes set_worker_id failed
    Faults    \* which of "publish" (Valkey refuses a publish), "listener" (the
              \* channel breaks) and "quiet" (no event for 5 minutes) happen

ASSUME BusAssumption ==
    /\ IsFiniteSet(Event) /\ IsFiniteSet(Sub)
    /\ Nobody \notin Worker
    /\ QueueMax \in Nat \ {0} /\ SubsMax \in Nat /\ SubsMax >= 2
    /\ Unnamed \subseteq Worker /\ Emitter \subseteq Worker
    /\ Faults \subseteq {"publish", "listener", "quiet"}

VARIABLES
    subs,      \* _subscribers; the gateway is the only critical one
    idle,      \* ... not used for _SUBSCRIBER_IDLE_TTL_SEC
    pruneDue,  \* the last sweep is long enough ago
    queue,     \* _queue; an entry's subscribers are snapshot[e]
    consumer,  \* the task of _consume_loop: "none", "running" or "done"
    stop,      \* _consumer_stop
    phase,     \* the app lifespan: "starting", "serving", "stopping", "stopped"
    listening, \* the pub/sub connection is subscribed
    inbox,     \* published events it has yet to be asked for
    stage,     \* where the dispatch of an event is
    home,      \* the worker that dispatches it
    snapshot,  \* the ordinary subscribers it found
    dropped,   \* events counted in _dropped_events
    gateway,   \* how often each worker's gateway was handed each event
    calls      \* how often each subscriber was called with each event

subVars == <<subs, idle, pruneDue>>
queueVars == <<queue, consumer, stop, phase>>
channelVars == <<listening, inbox>>
dispatchVars == <<stage, home, snapshot, dropped>>
vars == <<subVars, queueVars, channelVars, dispatchVars, gateway, calls>>

Init ==
    /\ subs = [w \in Worker |-> {}]
    /\ idle = [w \in Worker |-> {}]
    /\ pruneDue = [w \in Worker |-> FALSE]
    /\ queue = [w \in Worker |-> {}]
    /\ consumer = [w \in Worker |-> "none"]
    /\ stop = [w \in Worker |-> FALSE]
    /\ phase = [w \in Worker |-> "starting"]
    /\ listening = [w \in Worker |-> FALSE]
    /\ inbox = [w \in Worker |-> {}]
    /\ stage = [e \in Event |-> "new"]
    /\ home = [e \in Event |-> Nobody]
    /\ snapshot = [e \in Event |-> {}]
    /\ dropped = {}
    /\ gateway = [w \in Worker |-> [e \in Event |-> 0]]
    /\ calls = [e \in Event |-> [s \in Sub |-> 0]]

-----------------------------------------------------------------------------
(* Subscribers.                                                            *)

\* _maybe_prune_locked(): what is left, and how far idleness is known.
Kept(w) == IF pruneDue[w] THEN subs[w] \ idle[w] ELSE subs[w]

\* The victims subscribe() may choose from at the cap: the longest unused.
Oldest(w) == IF Kept(w) \cap idle[w] # {} THEN Kept(w) \cap idle[w] ELSE Kept(w)

\* subscribe(): prune, return if known, evict one at the cap, add.
Subscribe(w, s) ==
    /\ w \in Emitter
    /\ LET kept == Kept(w)
           full == Cardinality(kept) + 1 >= SubsMax
       IN IF s \in kept
          THEN subs' = [subs EXCEPT ![w] = kept]
          ELSE \E v \in IF full THEN Oldest(w) ELSE {s} :
                  subs' = [subs EXCEPT ![w] = (kept \ {v}) \cup {s}]
    /\ idle' = [idle EXCEPT ![w] = (@ \cap subs'[w]) \ ({s} \ Kept(w))]
    /\ pruneDue' = [pruneDue EXCEPT ![w] = FALSE]
    /\ UNCHANGED <<queueVars, channelVars, dispatchVars, gateway, calls>>

\* unsubscribe().
Unsubscribe(w, s) ==
    /\ s \in subs[w]
    /\ subs' = [subs EXCEPT ![w] = @ \ {s}]
    /\ idle' = [idle EXCEPT ![w] = @ \ {s}]
    /\ UNCHANGED <<pruneDue, queueVars, channelVars, dispatchVars, gateway, calls>>

\* Five minutes without a use of the subscribers in S.
QuietTime(w, S) ==
    /\ "quiet" \in Faults
    /\ S # {} /\ S \subseteq subs[w]
    /\ ~(pruneDue[w] /\ S \subseteq idle[w])
    /\ idle' = [idle EXCEPT ![w] = @ \cup S]
    /\ pruneDue' = [pruneDue EXCEPT ![w] = TRUE]
    /\ UNCHANGED <<subs, queueVars, channelVars, dispatchVars, gateway, calls>>

-----------------------------------------------------------------------------
(* dispatch().                                                             *)

\* The critical section that prunes, takes the snapshot and refreshes
\* _last_used of everyone in it.
TakeSnapshot(w, e) ==
    /\ w \in Emitter /\ stage[e] = "new"
    /\ subs' = [subs EXCEPT ![w] = Kept(w)]
    /\ idle' = [idle EXCEPT ![w] = {}]
    /\ pruneDue' = [pruneDue EXCEPT ![w] = FALSE]
    /\ home' = [home EXCEPT ![e] = w]
    /\ snapshot' = [snapshot EXCEPT ![e] = Kept(w)]

\* The critical subscriber, GatewayDispatcher.on_event.
CallGateway(w, e) == gateway' = [gateway EXCEPT ![w][e] = @ + 1]

\* _fan_out() of the events in S to the subscribers each was queued for.
FanOut(S) ==
    calls' = [e \in Event |-> [s \in Sub |->
                IF e \in S /\ s \in snapshot[e] THEN calls[e][s] + 1
                                                ELSE calls[e][s]]]

\* _publish_cross_worker(): every subscribed listener gets it, the sender's
\* own included; or Valkey is away or the publish raises, which is counted.
PublishCrossWorker(e) ==
    \/ inbox' = [w \in Worker |-> IF listening[w] THEN inbox[w] \cup {e}
                                                  ELSE inbox[w]]
    \/ "publish" \in Faults /\ UNCHANGED inbox

MutEnqueue(w, e) ==
    IF Cardinality(queue[w]) <= QueueMax
    THEN queue' = [queue EXCEPT ![w] = @ \cup {e}] /\ UNCHANGED dropped
    ELSE dropped' = dropped \cup {e} /\ UNCHANGED queue

MutForget(w, e) ==
    IF Cardinality(queue[w]) < QueueMax
    THEN queue' = [queue EXCEPT ![w] = @ \cup {e}] /\ UNCHANGED dropped
    ELSE UNCHANGED <<queue, dropped>>

\* put_nowait(), or QueueFull and the loss is counted.
Enqueue(w, e) ==
    IF Cardinality(queue[w]) < QueueMax
    THEN queue' = [queue EXCEPT ![w] = @ \cup {e}] /\ UNCHANGED dropped
    ELSE dropped' = dropped \cup {e} /\ UNCHANGED queue

\* dispatch() in a coroutine of the event loop: one step.
DispatchOnLoop(w, e) ==
    /\ TakeSnapshot(w, e)
    /\ CallGateway(w, e)
    /\ Enqueue(w, e)
    /\ PublishCrossWorker(e)
    /\ stage' = [stage EXCEPT ![e] = "done"]
    /\ UNCHANGED <<consumer, stop, phase, listening, calls>>

\* dispatch() on a thread without a loop: the snapshot, ...
DispatchOnThread(w, e) ==
    /\ TakeSnapshot(w, e)
    /\ stage' = [stage EXCEPT ![e] = "critical"]
    /\ UNCHANGED <<queueVars, channelVars, dropped, gateway, calls>>

\* ... the critical subscriber, ...
ThreadCallsGateway(e) ==
    /\ stage[e] = "critical"
    /\ CallGateway(home[e], e)
    /\ stage' = [stage EXCEPT ![e] = "fanout"]
    /\ UNCHANGED <<subVars, queueVars, channelVars, home, snapshot, dropped,
                   calls>>

\* ... the ordinary ones, eagerly, ...
ThreadFansOut(e) ==
    /\ stage[e] = "fanout"
    /\ FanOut({e})
    /\ stage' = [stage EXCEPT ![e] = "publish"]
    /\ UNCHANGED <<subVars, queueVars, channelVars, home, snapshot, dropped,
                   gateway>>

\* ... and the siblings.
ThreadPublishes(e) ==
    /\ stage[e] = "publish"
    /\ PublishCrossWorker(e)
    /\ stage' = [stage EXCEPT ![e] = "done"]
    /\ UNCHANGED <<subVars, queueVars, listening, home, snapshot, dropped,
                   gateway, calls>>

-----------------------------------------------------------------------------
(* The queue's consumer and the app lifespan.                              *)

\* start_consumer().
StartConsumer(w) ==
    /\ w \in Emitter /\ phase[w] = "starting"
    /\ stop' = [stop EXCEPT ![w] = FALSE]
    /\ consumer' = [consumer EXCEPT ![w] = "running"]
    /\ phase' = [phase EXCEPT ![w] = "serving"]
    /\ UNCHANGED <<subVars, queue, channelVars, dispatchVars, gateway, calls>>

\* A round of _consume_loop: end if asked to, or fan out all that is queued.
ConsumeRound(w) ==
    /\ consumer[w] = "running"
    /\ IF stop[w]
       THEN /\ consumer' = [consumer EXCEPT ![w] = "done"]
            /\ UNCHANGED <<queue, calls>>
       ELSE /\ queue[w] # {}
            /\ FanOut(queue[w])
            /\ queue' = [queue EXCEPT ![w] = {}]
            /\ UNCHANGED consumer
    /\ UNCHANGED <<subVars, stop, phase, channelVars, dispatchVars, gateway>>

\* stop_consumer() up to the await of the task.
StopConsumer(w) ==
    /\ phase[w] = "serving"
    /\ stop' = [stop EXCEPT ![w] = TRUE]
    /\ phase' = [phase EXCEPT ![w] = "stopping"]
    /\ UNCHANGED <<subVars, queue, consumer, channelVars, dispatchVars, gateway,
                   calls>>

MutDrain(w) ==
    /\ phase[w] = "stopping" /\ consumer[w] = "done"
    /\ phase' = [phase EXCEPT ![w] = "stopped"]
    /\ UNCHANGED <<subVars, queue, calls, consumer, stop, channelVars, dispatchVars,
                   gateway>>

\* The rest of stop_consumer(): drain() once the task has ended.
Drain(w) ==
    /\ phase[w] = "stopping" /\ consumer[w] = "done"
    /\ FanOut(queue[w])
    /\ queue' = [queue EXCEPT ![w] = {}]
    /\ phase' = [phase EXCEPT ![w] = "stopped"]
    /\ UNCHANGED <<subVars, consumer, stop, channelVars, dispatchVars, gateway>>

-----------------------------------------------------------------------------
(* The cross-worker listener.                                              *)

\* _cross_worker_poll_loop() subscribes; after stop_cross_worker_listener(),
\* which follows stop_consumer(), it does so no more.
Listen(w) ==
    /\ ~listening[w] /\ phase[w] # "stopped"
    /\ listening' = [listening EXCEPT ![w] = TRUE]
    /\ UNCHANGED <<subVars, queueVars, inbox, dispatchVars, gateway, calls>>

\* The connection breaks or the listener is stopped: what Valkey had pushed to
\* it is gone.
StopListening(w) ==
    /\ listening[w] /\ ("listener" \in Faults \/ phase[w] = "stopped")
    /\ listening' = [listening EXCEPT ![w] = FALSE]
    /\ inbox' = [inbox EXCEPT ![w] = {}]
    /\ UNCHANGED <<subVars, queueVars, dispatchVars, gateway, calls>>

MutIsEcho(w, e) == FALSE

MutUnknownIsEcho(w, e) == w \in Unnamed \/ home[e] = w

\* The sender's id in the message is the worker's own.
IsEcho(w, e) == home[e] = w /\ w \notin Unnamed

\* _handle_cross_worker_message().
HandleMessage(w, e) ==
    /\ e \in inbox[w]
    /\ inbox' = [inbox EXCEPT ![w] = @ \ {e}]
    /\ IF IsEcho(w, e) THEN UNCHANGED gateway ELSE CallGateway(w, e)
    /\ UNCHANGED <<subVars, queueVars, listening, dispatchVars, calls>>

ThreadStep(e) == ThreadCallsGateway(e) \/ ThreadFansOut(e) \/ ThreadPublishes(e)

Next ==
    \/ \E w \in Worker :
          \/ \E s \in Sub : Subscribe(w, s) \/ Unsubscribe(w, s)
          \/ \E S \in SUBSET Sub : QuietTime(w, S)
          \/ \E e \in Event : \/ DispatchOnLoop(w, e) \/ DispatchOnThread(w, e)
                              \/ HandleMessage(w, e)
          \/ StartConsumer(w) \/ ConsumeRound(w) \/ StopConsumer(w) \/ Drain(w)
          \/ Listen(w) \/ StopListening(w)
    \/ \E e \in Event : ThreadStep(e)

Spec == Init /\ [][Next]_vars

\* Threads run on; the event loop runs the lifespan, the consumer and the
\* listener.
Fairness ==
    /\ \A e \in Event : WF_vars(ThreadStep(e))
    /\ \A w \in Worker :
          /\ WF_vars(StartConsumer(w)) /\ WF_vars(ConsumeRound(w)) /\ WF_vars(Drain(w))
          /\ WF_vars(\E e \in Event : HandleMessage(w, e))

FairSpec == Spec /\ Fairness
=============================================================================
