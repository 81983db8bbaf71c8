------------------------- MODULE EventBusProperties -------------------------
(***************************************************************************)
(* What the event bus promises (EventBus.tla).                             *)
(***************************************************************************)
EXTENDS EventBus

\* The type invariant, with the caps of the queue and of the subscriber list.
TypeOK ==
    /\ subs \in [Worker -> SUBSET Sub] /\ idle \in [Worker -> SUBSET Sub]
    /\ pruneDue \in [Worker -> BOOLEAN]
    /\ queue \in [Worker -> SUBSET Event]
    /\ consumer \in [Worker -> {"none", "running", "done"}]
    /\ stop \in [Worker -> BOOLEAN]
    /\ phase \in [Worker -> {"starting", "serving", "stopping", "stopped"}]
    /\ listening \in [Worker -> BOOLEAN] /\ inbox \in [Worker -> SUBSET Event]
    /\ stage \in [Event -> {"new", "critical", "fanout", "publish", "done"}]
    /\ home \in [Event -> Worker \cup {Nobody}]
    /\ snapshot \in [Event -> SUBSET Sub]
    /\ dropped \in SUBSET Event
    /\ gateway \in [Worker -> [Event -> Nat]]
    /\ calls \in [Event -> [Sub -> Nat]]
    /\ \A w \in Worker : /\ Cardinality(queue[w]) <= QueueMax
                         /\ Cardinality(subs[w]) < SubsMax

\* Echo protection: no worker hands an event to its clients twice, although
\* Valkey sends every worker its own events back.  A worker that does not know
\* its own id is exempt for the events it dispatches itself.
GatewayOnce ==
    \A w \in Worker, e \in Event :
        w \notin Unnamed \/ home[e] # w => gateway[w][e] <= 1

\* How often subscriber s was called with e, will be called from the queue, or
\* was given up in public.
Accounted(e, s) ==
    calls[e][s] + (IF e \in queue[home[e]] THEN 1 ELSE 0)
                + (IF e \in dropped THEN 1 ELSE 0)

\* No silent loss and no second call: once dispatch() has dealt with the
\* ordinary subscribers, each one it found has been called once, is queued, or
\* the event is counted as dropped; whoever it did not find is never called.
\* The gateway, which is critical, has always been called.
NothingSilentlyLost ==
    \A e \in Event : stage[e] \in {"publish", "done"} =>
        /\ gateway[home[e]][e] >= 1
        /\ \A s \in Sub : IF s \in snapshot[e] THEN Accounted(e, s) = 1
                                               ELSE calls[e][s] = 0

\* What is queued before the drain of a shutdown is fanned out, also when it
\* was queued while stop_consumer() waited for the consumer to end.
QueuedIsDelivered ==
    \A w \in Worker, e \in Event :
        e \in queue[w] /\ phase[w] # "stopped" ~> e \notin queue[w]

\* A published event reaches the clients of every sibling that listens, unless
\* its connection to Valkey breaks first.
SiblingsGetIt ==
    \A w \in Worker, e \in Event :
        e \in inbox[w] /\ w # home[e] ~> gateway[w][e] >= 1 \/ ~listening[w]
=============================================================================
