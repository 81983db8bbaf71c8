--------------------------- MODULE EventBusProofs ---------------------------
(***************************************************************************)
(* The event bus delivers once and loses nothing silently, for every       *)
(* number of workers, events and subscribers, every queue length and cap,  *)
(* and all failures of the channel.                                        *)
(***************************************************************************)
EXTENDS EventBusProperties, FiniteSetTheorems, TLAPS

-----------------------------------------------------------------------------
(* Types and caps.                                                         *)

\* Adding a member where there is room stays within the bound.
LEMMA RoomForOne ==
    ASSUME NEW S, IsFiniteSet(S), NEW x, NEW n \in Nat, Cardinality(S) < n
    PROVE  Cardinality(S \cup {x}) <= n
<1>1. Cardinality(S) \in Nat
  BY FS_CardinalityType
<1>2. Cardinality(S \cup {x}) = IF x \in S THEN Cardinality(S) ELSE Cardinality(S) + 1
  BY FS_AddElement
<1>3. QED BY <1>1, <1>2

\* Replacing a member does not make a set larger.
LEMMA Replaced ==
    ASSUME NEW S, IsFiniteSet(S), NEW v \in S, NEW x
    PROVE  Cardinality((S \ {v}) \cup {x}) <= Cardinality(S)
<1>1. /\ IsFiniteSet(S \ {v}) /\ Cardinality(S \ {v}) = Cardinality(S) - 1
      /\ Cardinality(S) \in Nat
  BY FS_RemoveElement, FS_CardinalityType
<1>2. Cardinality(S \ {v}) < Cardinality(S)
  BY <1>1
<1>3. QED BY <1>1, <1>2, RoomForOne

\* A part of a finite set is no larger.
LEMMA PartIsSmaller ==
    ASSUME NEW S, IsFiniteSet(S), NEW T \in SUBSET S
    PROVE  IsFiniteSet(T) /\ Cardinality(T) <= Cardinality(S)
                          /\ Cardinality(T) \in Nat
  BY FS_Subset, FS_CardinalityType

\* The initial state.
LEMMA InitType == Init => TypeOK
<1> SUFFICES ASSUME Init PROVE TypeOK
  OBVIOUS
<1>1. Cardinality({}) = 0
  BY FS_EmptySet
<1>2. \A w \in Worker : Cardinality(queue[w]) <= QueueMax /\ Cardinality(subs[w]) < SubsMax
  BY <1>1, BusAssumption DEF Init
<1>3. QED
  BY <1>2 DEF Init, TypeOK

\* What the idle sweep leaves of the subscribers.
LEMMA KeptIsSmaller ==
    ASSUME TypeOK, NEW w \in Worker
    PROVE  /\ Kept(w) \in SUBSET Sub /\ IsFiniteSet(Kept(w))
           /\ Cardinality(Kept(w)) < SubsMax
<1>1. subs[w] \in SUBSET Sub /\ Cardinality(subs[w]) < SubsMax
  BY DEF TypeOK
<1>2. Kept(w) \in SUBSET subs[w]
  BY DEF Kept
<1>3. IsFiniteSet(subs[w]) /\ Cardinality(subs[w]) \in Nat
  BY <1>1, BusAssumption, FS_Subset, FS_CardinalityType
<1>4. IsFiniteSet(Kept(w)) /\ Cardinality(Kept(w)) <= Cardinality(subs[w]) /\ Cardinality(Kept(w)) \in Nat
  BY <1>2, <1>3, PartIsSmaller
<1>5. QED
  BY <1>1, <1>2, <1>3, <1>4, BusAssumption

\* The subscriber list grows by one at most, and not beyond its cap.
LEMMA SubscribeType ==
    ASSUME TypeOK, NEW w \in Worker, NEW s \in Sub, Subscribe(w, s)
    PROVE  TypeOK'
<1> DEFINE kept == Kept(w)
           full == Cardinality(kept) + 1 >= SubsMax
<1>1. /\ kept \in SUBSET Sub /\ IsFiniteSet(kept) /\ Cardinality(kept) < SubsMax
      /\ Cardinality(kept) \in Nat
  BY KeptIsSmaller, FS_CardinalityType
<1>2. PICK v : /\ s \in kept \/ (IF full THEN v \in Oldest(w) ELSE v = s)
               /\ subs' = [subs EXCEPT ![w] = IF s \in kept THEN kept
                                              ELSE (kept \ {v}) \cup {s}]
  BY DEF Subscribe
<1> DEFINE new == IF s \in kept THEN kept ELSE (kept \ {v}) \cup {s}
<1>3. new \in SUBSET Sub
  BY <1>1
<1>4. Cardinality(new) < SubsMax
  <2>1. CASE s \in kept
    BY <1>1, <2>1
  <2>2. CASE s \notin kept /\ full
    <3>1. v \in kept
      BY <1>2, <2>2 DEF Oldest
    <3>2. IsFiniteSet(new) /\ new = (kept \ {v}) \cup {s}
      BY <1>1, <2>2, FS_AddElement, FS_RemoveElement, <3>1
    <3>3. Cardinality(new) <= Cardinality(kept) /\ Cardinality(new) \in Nat
      BY <1>1, <3>1, <3>2, Replaced, FS_CardinalityType
    <3>4. QED
      BY <1>1, <3>3, BusAssumption
  <2>3. CASE s \notin kept /\ ~full
    <3>1. new = kept \cup {s}
      BY <1>2, <2>3
    <3>2. Cardinality(new) = Cardinality(kept) + 1
      BY <1>1, <2>3, <3>1, FS_AddElement
    <3>3. QED
      BY <1>1, <2>3, <3>2, BusAssumption
  <2>4. QED
    BY <2>1, <2>2, <2>3
<1> HIDE DEF new, kept, full
<1>5. subs' = [subs EXCEPT ![w] = new]
  BY <1>2 DEF new
<1>6. subs' \in [Worker -> SUBSET Sub] /\ \A x \in Worker : Cardinality(subs'[x]) < SubsMax
  BY <1>3, <1>4, <1>5 DEF TypeOK
<1>7. idle' \in [Worker -> SUBSET Sub] /\ pruneDue' \in [Worker -> BOOLEAN]
  BY <1>6 DEF TypeOK, Subscribe
<1>8. QED
  BY <1>6, <1>7 DEF TypeOK, Subscribe, queueVars, channelVars, dispatchVars

\* Unsubscribing and quiet time.
LEMMA UnsubscribeType ==
    ASSUME TypeOK, NEW w \in Worker, NEW s \in Sub, Unsubscribe(w, s)
    PROVE  TypeOK'
<1>1. subs[w] \in SUBSET Sub /\ Cardinality(subs[w]) < SubsMax
  BY DEF TypeOK
<1>2. IsFiniteSet(subs[w]) /\ Cardinality(subs[w]) \in Nat
  BY <1>1, BusAssumption, FS_Subset, FS_CardinalityType
<1>3. Cardinality(subs[w] \ {s}) <= Cardinality(subs[w]) /\ Cardinality(subs[w] \ {s}) \in Nat
  BY <1>2, PartIsSmaller
<1>4. Cardinality(subs[w] \ {s}) < SubsMax
  BY <1>1, <1>2, <1>3, BusAssumption
<1>5. subs' \in [Worker -> SUBSET Sub] /\ \A x \in Worker : Cardinality(subs'[x]) < SubsMax
  BY <1>4 DEF TypeOK, Unsubscribe
<1>6. QED
  BY <1>5 DEF TypeOK, Unsubscribe, queueVars, channelVars, dispatchVars

LEMMA QuietType ==
    ASSUME TypeOK, NEW w \in Worker, NEW S \in SUBSET Sub, QuietTime(w, S)
    PROVE  TypeOK'
  BY DEF TypeOK, QuietTime, queueVars, channelVars, dispatchVars

\* The snapshot, for a dispatch on the loop and on a thread.
LEMMA SnapshotType ==
    ASSUME TypeOK, NEW w \in Worker, NEW e \in Event, TakeSnapshot(w, e)
    PROVE  /\ subs' \in [Worker -> SUBSET Sub] /\ idle' \in [Worker -> SUBSET Sub]
           /\ pruneDue' \in [Worker -> BOOLEAN]
           /\ home' \in [Event -> Worker \cup {Nobody}]
           /\ snapshot' \in [Event -> SUBSET Sub]
           /\ \A x \in Worker : Cardinality(subs'[x]) < SubsMax
<1>1. Kept(w) \in SUBSET Sub /\ Cardinality(Kept(w)) < SubsMax
  BY KeptIsSmaller
<1>2. QED
  BY <1>1 DEF TypeOK, TakeSnapshot

\* Publishing and fanning out keep their variables' types.
LEMMA PublishType ==
    ASSUME TypeOK, NEW e \in Event, PublishCrossWorker(e)
    PROVE  inbox' \in [Worker -> SUBSET Event]
  BY DEF TypeOK, PublishCrossWorker

LEMMA FanOutType ==
    ASSUME TypeOK, NEW S, FanOut(S)
    PROVE  calls' \in [Event -> [Sub -> Nat]]
  BY DEF TypeOK, FanOut

\* A call of a worker's gateway.
LEMMA CallType ==
    ASSUME TypeOK, NEW w \in Worker \cup {Nobody}, NEW e \in Event, CallGateway(w, e)
    PROVE  gateway' \in [Worker -> [Event -> Nat]]
<1>1. CASE w \in Worker
  BY <1>1 DEF TypeOK, CallGateway
<1>2. CASE w \notin Worker
  BY <1>2 DEF TypeOK, CallGateway
<1>3. QED BY <1>1, <1>2

\* The queue stays within its length.
LEMMA EnqueueType ==
    ASSUME TypeOK, NEW w \in Worker, NEW e \in Event, Enqueue(w, e)
    PROVE  /\ queue' \in [Worker -> SUBSET Event] /\ dropped' \in SUBSET Event
           /\ \A x \in Worker : Cardinality(queue'[x]) <= QueueMax
<1>1. queue[w] \in SUBSET Event /\ IsFiniteSet(queue[w])
  BY BusAssumption, FS_Subset DEF TypeOK
<1>2. CASE Cardinality(queue[w]) < QueueMax
  <2>1. Cardinality(queue[w] \cup {e}) <= QueueMax
    BY <1>1, <1>2, RoomForOne, BusAssumption
  <2>2. QED
    <3>1. queue' = [queue EXCEPT ![w] = queue[w] \cup {e}] /\ dropped' = dropped
      BY <1>2 DEF Enqueue
    <3>2. queue \in [Worker -> SUBSET Event] /\ dropped \in SUBSET Event
      BY DEF TypeOK
    <3>3. \A x \in Worker : queue'[x] = IF x = w THEN queue[w] \cup {e} ELSE queue[x]
      BY <3>1, <3>2
    <3>4. queue' \in [Worker -> SUBSET Event]
      BY <1>1, <3>1, <3>2
    <3>5. \A x \in Worker : Cardinality(queue[x]) <= QueueMax
      BY DEF TypeOK
    <3>6. QED
      BY <2>1, <3>1, <3>2, <3>3, <3>4, <3>5
<1>3. CASE ~(Cardinality(queue[w]) < QueueMax)
  BY <1>3 DEF TypeOK, Enqueue
<1>4. QED BY <1>2, <1>3

\* dispatch() on the event loop.
LEMMA LoopType ==
    ASSUME TypeOK, NEW w \in Worker, NEW e \in Event, DispatchOnLoop(w, e)
    PROVE  TypeOK'
<1>1. TakeSnapshot(w, e) /\ Enqueue(w, e) /\ PublishCrossWorker(e) /\ CallGateway(w, e)
  BY DEF DispatchOnLoop
<1>2. gateway' \in [Worker -> [Event -> Nat]]
  BY <1>1, CallType
<1>3. stage' \in [Event -> {"new", "critical", "fanout", "publish", "done"}]
  BY DEF TypeOK, DispatchOnLoop
<1>4. UNCHANGED <<consumer, stop, phase, listening, calls>>
  BY DEF DispatchOnLoop
<1>5. QED
  BY <1>1, <1>2, <1>3, <1>4, SnapshotType, EnqueueType, PublishType DEF TypeOK

\* dispatch() on a thread, step by step.
LEMMA ThreadType ==
    ASSUME TypeOK, NEW e \in Event,
           ThreadStep(e) \/ \E w \in Worker : DispatchOnThread(w, e)
    PROVE  TypeOK'
<1>1. ASSUME NEW w \in Worker, DispatchOnThread(w, e) PROVE TypeOK'
  <2>1. TakeSnapshot(w, e)
    BY <1>1 DEF DispatchOnThread
  <2>2. stage' \in [Event -> {"new", "critical", "fanout", "publish", "done"}]
    BY <1>1 DEF TypeOK, DispatchOnThread
  <2>3. UNCHANGED <<queueVars, channelVars, dropped, gateway, calls>>
    BY <1>1 DEF DispatchOnThread
  <2>4. QED
    BY <2>1, <2>2, <2>3, SnapshotType DEF TypeOK, queueVars, channelVars
<1>2. CASE ThreadCallsGateway(e)
  <2>1. CallGateway(home[e], e) /\ home[e] \in Worker \cup {Nobody}
    BY <1>2 DEF TypeOK, ThreadCallsGateway
  <2>2. gateway' \in [Worker -> [Event -> Nat]]
    BY <2>1, CallType
  <2>3. QED
    BY <1>2, <2>2 DEF TypeOK, ThreadCallsGateway, subVars, queueVars, channelVars
<1>3. CASE ThreadFansOut(e)
  <2>1. calls' \in [Event -> [Sub -> Nat]]
    BY <1>3, FanOutType DEF ThreadFansOut
  <2>2. QED
    BY <1>3, <2>1 DEF TypeOK, ThreadFansOut, subVars, queueVars, channelVars
<1>4. CASE ThreadPublishes(e)
  <2>1. inbox' \in [Worker -> SUBSET Event]
    BY <1>4, PublishType DEF ThreadPublishes
  <2>2. QED
    BY <1>4, <2>1 DEF TypeOK, ThreadPublishes, subVars, queueVars
<1>5. QED
  BY <1>1, <1>2, <1>3, <1>4 DEF ThreadStep

\* Emptying a queue, by the consumer or at shutdown.
LEMMA EmptiedType ==
    ASSUME TypeOK, NEW w \in Worker, queue' = [queue EXCEPT ![w] = {}]
    PROVE  /\ queue' \in [Worker -> SUBSET Event]
           /\ \A x \in Worker : Cardinality(queue'[x]) <= QueueMax
<1>1. Cardinality({}) = 0
  BY FS_EmptySet
<1>2. QED
  BY <1>1, BusAssumption DEF TypeOK

\* The consumer and the lifespan.
LEMMA ConsumerType ==
    ASSUME TypeOK, NEW w \in Worker,
           StartConsumer(w) \/ ConsumeRound(w) \/ StopConsumer(w) \/ Drain(w)
    PROVE  TypeOK'
<1>1. CASE StartConsumer(w)
  BY <1>1 DEF TypeOK, StartConsumer, subVars, channelVars, dispatchVars
<1>2. CASE StopConsumer(w)
  BY <1>2 DEF TypeOK, StopConsumer, subVars, channelVars, dispatchVars
<1>3. CASE ConsumeRound(w) /\ stop[w]
  BY <1>3 DEF TypeOK, ConsumeRound, subVars, channelVars, dispatchVars
<1>4. CASE ConsumeRound(w) /\ ~stop[w]
  <2>1. /\ queue' \in [Worker -> SUBSET Event]
        /\ \A x \in Worker : Cardinality(queue'[x]) <= QueueMax
    BY <1>4, EmptiedType DEF ConsumeRound
  <2>2. calls' \in [Event -> [Sub -> Nat]]
    BY <1>4, FanOutType DEF ConsumeRound
  <2>3. QED
    BY <1>4, <2>1, <2>2 DEF TypeOK, ConsumeRound, subVars, channelVars, dispatchVars
<1>5. CASE Drain(w)
  <2>1. /\ queue' \in [Worker -> SUBSET Event]
        /\ \A x \in Worker : Cardinality(queue'[x]) <= QueueMax
    BY <1>5, EmptiedType DEF Drain
  <2>2. calls' \in [Event -> [Sub -> Nat]]
    BY <1>5, FanOutType DEF Drain
  <2>3. QED
    BY <1>5, <2>1, <2>2 DEF TypeOK, Drain, subVars, channelVars, dispatchVars
<1>6. QED
  BY <1>1, <1>2, <1>3, <1>4, <1>5

\* The listener.
LEMMA ListenerType ==
    ASSUME TypeOK, NEW w \in Worker,
           Listen(w) \/ StopListening(w) \/ \E e \in Event : HandleMessage(w, e)
    PROVE  TypeOK'
<1>1. CASE Listen(w)
  BY <1>1 DEF TypeOK, Listen, subVars, queueVars, dispatchVars
<1>2. CASE StopListening(w)
  BY <1>2 DEF TypeOK, StopListening, subVars, queueVars, dispatchVars
<1>3. ASSUME NEW e \in Event, HandleMessage(w, e) PROVE TypeOK'
  <2>1. gateway' \in [Worker -> [Event -> Nat]]
    <3>1. CASE IsEcho(w, e)
      BY <1>3, <3>1 DEF TypeOK, HandleMessage
    <3>2. CASE ~IsEcho(w, e)
      BY <1>3, <3>2, CallType DEF HandleMessage
    <3>3. QED BY <3>1, <3>2
  <2>2. QED
    BY <1>3, <2>1 DEF TypeOK, HandleMessage, subVars, queueVars, dispatchVars
<1>4. QED
  BY <1>1, <1>2, <1>3

\* Every step keeps the types and caps.
LEMMA StepType == ASSUME TypeOK, [Next]_vars PROVE TypeOK'
<1>1. CASE UNCHANGED vars
  BY <1>1 DEF TypeOK, vars, subVars, queueVars, channelVars, dispatchVars
<1>2. ASSUME NEW w \in Worker,
             \/ \E s \in Sub : Subscribe(w, s) \/ Unsubscribe(w, s)
             \/ \E S \in SUBSET Sub : QuietTime(w, S)
             \/ \E e \in Event : \/ DispatchOnLoop(w, e) \/ DispatchOnThread(w, e)
                                 \/ HandleMessage(w, e)
             \/ StartConsumer(w) \/ ConsumeRound(w) \/ StopConsumer(w) \/ Drain(w)
             \/ Listen(w) \/ StopListening(w)
      PROVE  TypeOK'
  BY <1>2, SubscribeType, UnsubscribeType, QuietType, LoopType, ThreadType,
     ConsumerType, ListenerType
<1>3. ASSUME NEW e \in Event, ThreadStep(e) PROVE TypeOK'
  BY <1>3, ThreadType
<1>4. QED
  BY <1>1, <1>2, <1>3 DEF Next

\* The queue and the subscriber list keep to their caps, and every variable to
\* its type, whatever is dispatched, subscribed, swept and refused.
THEOREM BusTypes == Spec => []TypeOK
<1>1. QED
  BY InitType, StepType, PTL DEF Spec

-----------------------------------------------------------------------------
(* One delivery per worker.                                                *)

\* An event that was not dispatched has no worker, no entry and no call.
Homed ==
    \A e \in Event : stage[e] = "new" => home[e] = Nobody

\* Nothing of an event is in the channel before its dispatch is over, and no
\* other worker has handed it out.
Unsent ==
    \A w \in Worker, e \in Event : stage[e] # "done" =>
        /\ e \notin inbox[w]
        /\ home[e] # w => gateway[w][e] = 0

\* What is still in a worker's channel it has not handed out.
Pending ==
    \A w \in Worker, e \in Event :
        e \in inbox[w] /\ home[e] # w => gateway[w][e] = 0

\* The worker that dispatches an event hands it out once, before it publishes.
OwnCall ==
    \A w \in Worker, e \in Event : home[e] = w =>
        IF stage[e] = "critical" THEN gateway[w][e] = 0
        ELSE /\ gateway[w][e] >= 1
             /\ w \notin Unnamed => gateway[w][e] = 1

OnceInv == Homed /\ Unsent /\ Pending /\ OwnCall /\ GatewayOnce

\* The initial state.
LEMMA InitOnce == Init => OnceInv
  BY BusAssumption DEF Init, OnceInv, Homed, Unsent, Pending, OwnCall, GatewayOnce

\* Steps that leave the channel, the dispatches and the gateways alone.
LEMMA QuietOnce ==
    ASSUME OnceInv, UNCHANGED <<inbox, stage, home, gateway>>
    PROVE  OnceInv'
  BY DEF OnceInv, Homed, Unsent, Pending, OwnCall, GatewayOnce

\* dispatch() on the event loop: the gateway, and the channel.
LEMMA LoopOnce ==
    ASSUME TypeOK, OnceInv, NEW w \in Worker, NEW e \in Event, DispatchOnLoop(w, e)
    PROVE  OnceInv'
<1>0. /\ gateway \in [Worker -> [Event -> Nat]] /\ home \in [Event -> Worker \cup {Nobody}]
      /\ inbox \in [Worker -> SUBSET Event] /\ Nobody \notin Worker
      /\ stage \in [Event -> {"new", "critical", "fanout", "publish", "done"}]
  BY BusAssumption DEF TypeOK
<1>1. /\ stage[e] = "new" /\ home' = [home EXCEPT ![e] = w]
      /\ stage' = [stage EXCEPT ![e] = "done"]
      /\ gateway' = [gateway EXCEPT ![w] = [gateway[w] EXCEPT ![e] = gateway[w][e] + 1]]
  BY <1>0 DEF DispatchOnLoop, TakeSnapshot, CallGateway
<1>2. \A x \in Worker, d \in Event :
        /\ gateway'[x][d] = IF x = w /\ d = e THEN gateway[w][e] + 1 ELSE gateway[x][d]
        /\ d \in inbox'[x] => d \in inbox[x] \/ d = e
  BY <1>0, <1>1 DEF DispatchOnLoop, PublishCrossWorker
<1>3. \A d \in Event : /\ home'[d] = IF d = e THEN w ELSE home[d]
                       /\ stage'[d] = IF d = e THEN "done" ELSE stage[d]
  BY <1>0, <1>1
<1>4. \A x \in Worker : gateway[x][e] = 0
  BY <1>0, <1>1 DEF OnceInv, Homed, Unsent
<1>5. Homed'
  BY <1>3 DEF OnceInv, Homed
<1>6. Unsent'
  BY <1>2, <1>3 DEF OnceInv, Unsent
<1>7. Pending'
  BY <1>2, <1>3, <1>4 DEF OnceInv, Pending
<1>8. OwnCall'
  BY <1>2, <1>3, <1>4 DEF OnceInv, OwnCall
<1>9. GatewayOnce'
  BY <1>2, <1>3, <1>4 DEF OnceInv, GatewayOnce
<1>10. QED
  BY <1>5, <1>6, <1>7, <1>8, <1>9 DEF OnceInv

\* dispatch() on a thread.
LEMMA ThreadOnce ==
    ASSUME TypeOK, OnceInv, NEW e \in Event,
           ThreadStep(e) \/ \E w \in Worker : DispatchOnThread(w, e)
    PROVE  OnceInv'
<1>0. /\ gateway \in [Worker -> [Event -> Nat]] /\ home \in [Event -> Worker \cup {Nobody}]
      /\ inbox \in [Worker -> SUBSET Event] /\ Nobody \notin Worker
      /\ stage \in [Event -> {"new", "critical", "fanout", "publish", "done"}]
  BY BusAssumption DEF TypeOK
<1>1. ASSUME NEW w \in Worker, DispatchOnThread(w, e) PROVE OnceInv'
  <2>1. /\ stage[e] = "new" /\ home' = [home EXCEPT ![e] = w]
        /\ stage' = [stage EXCEPT ![e] = "critical"] /\ UNCHANGED <<inbox, gateway>>
    BY <1>1 DEF DispatchOnThread, TakeSnapshot, channelVars
  <2>2. \A d \in Event : /\ home'[d] = IF d = e THEN w ELSE home[d]
                         /\ stage'[d] = IF d = e THEN "critical" ELSE stage[d]
    BY <1>0, <2>1
  <2>3. \A x \in Worker : gateway[x][e] = 0 /\ e \notin inbox[x]
    BY <1>0, <2>1 DEF OnceInv, Homed, Unsent
  <2>4. Homed' /\ Unsent' /\ Pending'
    BY <2>1, <2>2, <2>3 DEF OnceInv, Homed, Unsent, Pending
  <2>5. OwnCall'
    BY <2>1, <2>2, <2>3 DEF OnceInv, OwnCall
  <2>6. GatewayOnce'
    BY <2>1, <2>2, <2>3 DEF OnceInv, GatewayOnce
  <2>7. QED
    BY <2>4, <2>5, <2>6 DEF OnceInv
<1>2. CASE ThreadCallsGateway(e)
  <2> DEFINE w == home[e]
  <2>1. /\ stage[e] = "critical" /\ stage' = [stage EXCEPT ![e] = "fanout"]
        /\ gateway' = [gateway EXCEPT ![w][e] = @ + 1] /\ UNCHANGED <<inbox, home>>
    BY <1>2 DEF ThreadCallsGateway, CallGateway, channelVars
  <2>2. \A d \in Event : stage'[d] = IF d = e THEN "fanout" ELSE stage[d]
    BY <1>0, <2>1
  <2>3. \A x \in Worker, d \in Event :
          gateway'[x][d] = IF x = w /\ d = e THEN gateway[x][d] + 1 ELSE gateway[x][d]
    BY <1>0, <2>1
  <2>4. w \in Worker => gateway[w][e] = 0
    BY <2>1 DEF OnceInv, OwnCall
  <2>5. Homed'
    BY <2>1, <2>2 DEF OnceInv, Homed
  <2>6. Unsent' /\ Pending'
    BY <2>1, <2>2, <2>3 DEF OnceInv, Unsent, Pending
  <2>7. OwnCall'
    BY <2>1, <2>2, <2>3, <2>4 DEF OnceInv, OwnCall
  <2>8. GatewayOnce'
    BY <2>1, <2>3, <2>4 DEF OnceInv, GatewayOnce
  <2>9. QED
    BY <2>5, <2>6, <2>7, <2>8 DEF OnceInv
<1>3. CASE ThreadFansOut(e)
  <2>1. /\ stage[e] = "fanout" /\ stage' = [stage EXCEPT ![e] = "publish"]
        /\ UNCHANGED <<inbox, home, gateway>>
    BY <1>3 DEF ThreadFansOut, channelVars
  <2>2. \A d \in Event : stage'[d] = IF d = e THEN "publish" ELSE stage[d]
    BY <1>0, <2>1
  <2>3. QED
    BY <2>1, <2>2 DEF OnceInv, Homed, Unsent, Pending, OwnCall, GatewayOnce
<1>4. CASE ThreadPublishes(e)
  <2>1. /\ stage[e] = "publish" /\ stage' = [stage EXCEPT ![e] = "done"]
        /\ UNCHANGED <<home, gateway>>
    BY <1>4 DEF ThreadPublishes
  <2>2. \A d \in Event : stage'[d] = IF d = e THEN "done" ELSE stage[d]
    BY <1>0, <2>1
  <2>3. \A x \in Worker, d \in Event : d \in inbox'[x] => d \in inbox[x] \/ d = e
    BY <1>0, <1>4 DEF ThreadPublishes, PublishCrossWorker
  <2>4. \A x \in Worker : home[e] # x => gateway[x][e] = 0
    BY <2>1 DEF OnceInv, Unsent
  <2>5. Homed' /\ Unsent' /\ Pending'
    BY <2>1, <2>2, <2>3, <2>4 DEF OnceInv, Homed, Unsent, Pending
  <2>6. OwnCall' /\ GatewayOnce'
    BY <2>1, <2>2 DEF OnceInv, OwnCall, GatewayOnce
  <2>7. QED
    BY <2>5, <2>6 DEF OnceInv
<1>5. QED
  BY <1>1, <1>2, <1>3, <1>4 DEF ThreadStep

\* The listener: an echo is not handed out, anything else for the first time.
LEMMA ListenerOnce ==
    ASSUME TypeOK, OnceInv, NEW w \in Worker,
           StopListening(w) \/ \E e \in Event : HandleMessage(w, e)
    PROVE  OnceInv'
<1>0. /\ gateway \in [Worker -> [Event -> Nat]] /\ home \in [Event -> Worker \cup {Nobody}]
      /\ inbox \in [Worker -> SUBSET Event] /\ Nobody \notin Worker
      /\ stage \in [Event -> {"new", "critical", "fanout", "publish", "done"}]
  BY BusAssumption DEF TypeOK
<1>1. CASE StopListening(w)
  <2>1. UNCHANGED <<stage, home, gateway>> /\ inbox' = [inbox EXCEPT ![w] = {}]
    BY <1>1 DEF StopListening, dispatchVars
  <2>2. \A x \in Worker : inbox'[x] \subseteq inbox[x]
    BY <1>0, <2>1
  <2>3. QED
    BY <2>1, <2>2 DEF OnceInv, Homed, Unsent, Pending, OwnCall, GatewayOnce
<1>2. ASSUME NEW e \in Event, HandleMessage(w, e) PROVE OnceInv'
  <2>1. /\ UNCHANGED <<stage, home>> /\ e \in inbox[w]
        /\ inbox' = [inbox EXCEPT ![w] = inbox[w] \ {e}]
    BY <1>2 DEF HandleMessage, dispatchVars
  <2>2. \A x \in Worker : inbox'[x] = IF x = w THEN inbox[w] \ {e} ELSE inbox[x]
    BY <1>0, <2>1
  <2>3. stage[e] = "done"
    BY <2>1 DEF OnceInv, Unsent
  <2>4. CASE IsEcho(w, e)
    <3>1. UNCHANGED gateway
      BY <1>2, <2>4 DEF HandleMessage
    <3>2. QED
      BY <2>1, <2>2, <3>1 DEF OnceInv, Homed, Unsent, Pending, OwnCall, GatewayOnce
  <2>5. CASE ~IsEcho(w, e)
    <3>1. gateway' = [gateway EXCEPT ![w][e] = @ + 1]
      BY <1>2, <2>5 DEF HandleMessage, CallGateway
    <3>2. \A x \in Worker, d \in Event :
            gateway'[x][d] = IF x = w /\ d = e THEN gateway[x][d] + 1 ELSE gateway[x][d]
      BY <1>0, <3>1
    <3>3. home[e] = w => w \in Unnamed
      BY <2>5 DEF IsEcho
    <3>4. home[e] # w => gateway[w][e] = 0
      BY <2>1 DEF OnceInv, Pending
    <3>5. Homed' /\ Unsent'
      BY <2>1, <2>2, <2>3, <3>2 DEF OnceInv, Homed, Unsent
    <3>6. Pending'
      BY <2>1, <2>2, <3>2 DEF OnceInv, Pending
    <3>7. OwnCall'
      BY <1>0, <2>1, <2>3, <3>2, <3>3 DEF OnceInv, OwnCall
    <3>8. GatewayOnce'
      BY <2>1, <3>2, <3>3, <3>4 DEF OnceInv, GatewayOnce
    <3>9. QED
      BY <3>5, <3>6, <3>7, <3>8 DEF OnceInv
  <2>6. QED
    BY <2>4, <2>5
<1>3. QED
  BY <1>1, <1>2

\* Every step keeps the invariant.
LEMMA StepOnce == ASSUME TypeOK, OnceInv, [Next]_vars PROVE OnceInv'
<1>1. CASE UNCHANGED vars
  BY <1>1, QuietOnce DEF vars, channelVars, dispatchVars
<1>2. ASSUME NEW w \in Worker,
             \/ \E s \in Sub : Subscribe(w, s) \/ Unsubscribe(w, s)
             \/ \E S \in SUBSET Sub : QuietTime(w, S)
             \/ StartConsumer(w) \/ ConsumeRound(w) \/ StopConsumer(w) \/ Drain(w)
             \/ Listen(w)
      PROVE  OnceInv'
  <2>1. UNCHANGED <<inbox, stage, home, gateway>>
    BY <1>2 DEF Subscribe, Unsubscribe, QuietTime, StartConsumer, ConsumeRound,
                StopConsumer, Drain, Listen, channelVars, dispatchVars
  <2>2. QED
    BY <2>1, QuietOnce
<1>3. ASSUME NEW w \in Worker, NEW e \in Event, DispatchOnLoop(w, e) PROVE OnceInv'
  BY <1>3, LoopOnce
<1>4. ASSUME NEW e \in Event, ThreadStep(e) \/ \E w \in Worker : DispatchOnThread(w, e)
      PROVE  OnceInv'
  BY <1>4, ThreadOnce
<1>5. ASSUME NEW w \in Worker, StopListening(w) \/ \E e \in Event : HandleMessage(w, e)
      PROVE  OnceInv'
  BY <1>5, ListenerOnce
<1>6. QED
  BY <1>1, <1>2, <1>3, <1>4, <1>5 DEF Next

\* The inductive invariant: who has handed an event out, and what is still in
\* the channel (dispatch, _publish_cross_worker, _handle_cross_worker_message).
THEOREM OnceInvariant == Spec => [](TypeOK /\ OnceInv)
<1>1. Init => TypeOK /\ OnceInv
  BY InitType, InitOnce
<1>2. TypeOK /\ OnceInv /\ [Next]_vars => (TypeOK /\ OnceInv)'
  BY StepType, StepOnce
<1>3. QED
  BY <1>1, <1>2, PTL DEF Spec

\* Echo protection: no worker that knows its id hands an event to its clients
\* twice, and none hands out another worker's event twice.
THEOREM DeliveredOnce == Spec => []GatewayOnce
<1>1. TypeOK /\ OnceInv => GatewayOnce
  BY DEF OnceInv
<1>2. QED
  BY <1>1, OnceInvariant, PTL

-----------------------------------------------------------------------------
(* No silent loss.                                                         *)

\* A dispatched event has a worker.
Placed == \A e \in Event : stage[e] # "new" => home[e] \in Worker

\* Only the worker that dispatched an event queues it.
Queued ==
    \A w \in Worker, e \in Event : e \in queue[w] => home[e] = w /\ stage[e] = "done"

\* Before dispatch() comes to the ordinary subscribers none was called.
Uncalled ==
    \A e \in Event : stage[e] \in {"new", "critical", "fanout"} =>
        e \notin dropped /\ \A s \in Sub : calls[e][s] = 0

\* Afterwards every subscriber of the snapshot is accounted for.
Settled ==
    \A e \in Event : stage[e] \in {"publish", "done"} =>
        \A s \in Sub : IF s \in snapshot[e] THEN Accounted(e, s) = 1
                                            ELSE calls[e][s] = 0

LedgerInv == Placed /\ Queued /\ Uncalled /\ Settled

\* The initial state.
LEMMA InitLedger == Init => LedgerInv
<1> SUFFICES ASSUME Init PROVE LedgerInv
  OBVIOUS
<1>1. Placed /\ Queued
  BY DEF Init, Placed, Queued
<1>2. Uncalled /\ Settled
  BY DEF Init, Uncalled, Settled
<1>3. QED
  BY <1>1, <1>2 DEF LedgerInv

\* Steps that leave the queues, the dispatches and the calls alone.
LEMMA QuietLedger ==
    ASSUME LedgerInv, UNCHANGED <<queue, stage, home, snapshot, dropped, calls>>
    PROVE  LedgerInv'
<1>1. Placed' /\ Queued' /\ Uncalled'
  BY DEF LedgerInv, Placed, Queued, Uncalled
<1>2. Settled'
  BY DEF LedgerInv, Settled, Accounted
<1>3. QED
  BY <1>1, <1>2 DEF LedgerInv

\* dispatch() on the event loop: queued, or counted as dropped.
LEMMA LoopLedger ==
    ASSUME TypeOK, LedgerInv, NEW w \in Worker, NEW e \in Event, DispatchOnLoop(w, e)
    PROVE  LedgerInv'
<1>0. /\ home \in [Event -> Worker \cup {Nobody}] /\ queue \in [Worker -> SUBSET Event]
      /\ stage \in [Event -> {"new", "critical", "fanout", "publish", "done"}]
      /\ snapshot \in [Event -> SUBSET Sub] /\ calls \in [Event -> [Sub -> Nat]]
  BY DEF TypeOK
<1>1. /\ stage[e] = "new" /\ home' = [home EXCEPT ![e] = w]
      /\ stage' = [stage EXCEPT ![e] = "done"] /\ calls' = calls
      /\ snapshot' = [snapshot EXCEPT ![e] = Kept(w)]
  BY DEF DispatchOnLoop, TakeSnapshot
<1>2. \A d \in Event : /\ home'[d] = IF d = e THEN w ELSE home[d]
                       /\ stage'[d] = IF d = e THEN "done" ELSE stage[d]
                       /\ d # e => snapshot'[d] = snapshot[d]
  BY <1>0, <1>1
<1>3. /\ e \notin dropped /\ \A s \in Sub : calls[e][s] = 0
      /\ \A x \in Worker : e \notin queue[x]
  BY <1>1 DEF LedgerInv, Uncalled, Queued
<1>4. /\ \A x \in Worker, d \in Event : d # e => (d \in queue'[x] <=> d \in queue[x])
      /\ \A d \in Event : d # e => (d \in dropped' <=> d \in dropped)
      /\ \A x \in Worker : e \in queue'[x] => x = w
      /\ e \in queue'[w] <=> e \notin dropped'
  <2>1. Enqueue(w, e)
    BY DEF DispatchOnLoop
  <2>2. CASE Cardinality(queue[w]) < QueueMax
    <3>1. dropped' = dropped /\ queue' = [queue EXCEPT ![w] = queue[w] \cup {e}]
      BY <2>1, <2>2 DEF Enqueue
    <3>2. \A x \in Worker : queue'[x] = IF x = w THEN queue[w] \cup {e} ELSE queue[x]
      BY <1>0, <3>1
    <3>3. QED
      BY <1>3, <3>1, <3>2
  <2>3. CASE ~(Cardinality(queue[w]) < QueueMax)
    <3>1. dropped' = dropped \cup {e} /\ queue' = queue
      BY <2>1, <2>3 DEF Enqueue
    <3>2. QED
      BY <1>3, <3>1
  <2>4. QED
    BY <2>2, <2>3
<1>5. Placed'
  BY <1>2 DEF LedgerInv, Placed
<1>6. Queued'
  BY <1>2, <1>4 DEF LedgerInv, Queued
<1>7. Uncalled'
  BY <1>1, <1>2, <1>4 DEF LedgerInv, Uncalled
<1>8. Settled'
  <2>1. SUFFICES ASSUME NEW d \in Event, stage'[d] \in {"publish", "done"}, NEW s \in Sub
                 PROVE  IF s \in snapshot'[d] THEN Accounted(d, s)' = 1
                                              ELSE calls'[d][s] = 0
    BY DEF Settled
  <2>2. CASE d = e
    BY <1>1, <1>2, <1>3, <1>4, <2>2 DEF Accounted
  <2>3. CASE d # e
    <3>1. stage[d] \in {"publish", "done"} /\ snapshot'[d] = snapshot[d] /\ home'[d] = home[d]
      BY <1>2, <2>1, <2>3
    <3>2. home[d] \in Worker
      BY <3>1 DEF LedgerInv, Placed
    <3>3. Accounted(d, s)' = Accounted(d, s)
      BY <1>1, <1>4, <2>3, <3>1, <3>2 DEF Accounted
    <3>4. QED
      BY <1>1, <3>1, <3>3 DEF LedgerInv, Settled
  <2>4. QED
    BY <2>2, <2>3
<1>9. QED
  BY <1>5, <1>6, <1>7, <1>8 DEF LedgerInv

\* dispatch() on a thread: the snapshot, the gateway and the channel leave the
\* account alone, the fan-out settles it.
LEMMA ThreadLedger ==
    ASSUME TypeOK, LedgerInv, NEW e \in Event,
           ThreadStep(e) \/ \E w \in Worker : DispatchOnThread(w, e)
    PROVE  LedgerInv'
<1>0. /\ home \in [Event -> Worker \cup {Nobody}] /\ queue \in [Worker -> SUBSET Event]
      /\ stage \in [Event -> {"new", "critical", "fanout", "publish", "done"}]
      /\ snapshot \in [Event -> SUBSET Sub] /\ calls \in [Event -> [Sub -> Nat]]
  BY DEF TypeOK
<1>1. ASSUME NEW w \in Worker, DispatchOnThread(w, e) PROVE LedgerInv'
  <2>1. /\ stage[e] = "new" /\ home' = [home EXCEPT ![e] = w]
        /\ stage' = [stage EXCEPT ![e] = "critical"]
        /\ snapshot' = [snapshot EXCEPT ![e] = Kept(w)]
        /\ UNCHANGED <<queue, dropped, calls>>
    BY <1>1 DEF DispatchOnThread, TakeSnapshot, queueVars
  <2>2. \A d \in Event : /\ home'[d] = IF d = e THEN w ELSE home[d]
                         /\ stage'[d] = IF d = e THEN "critical" ELSE stage[d]
                         /\ d # e => snapshot'[d] = snapshot[d]
    BY <1>0, <2>1
  <2>3. Placed' /\ Uncalled'
    BY <2>1, <2>2 DEF LedgerInv, Placed, Uncalled
  <2>4. Queued'
    BY <2>1, <2>2 DEF LedgerInv, Queued
  <2>5. Settled'
    BY <2>1, <2>2 DEF LedgerInv, Settled, Accounted
  <2>6. QED
    BY <2>3, <2>4, <2>5 DEF LedgerInv
<1>2. CASE ThreadCallsGateway(e)
  <2>1. /\ stage[e] = "critical" /\ stage' = [stage EXCEPT ![e] = "fanout"]
        /\ UNCHANGED <<home, snapshot, queue, dropped, calls>>
    BY <1>2 DEF ThreadCallsGateway, queueVars
  <2>2. \A d \in Event : stage'[d] = IF d = e THEN "fanout" ELSE stage[d]
    BY <1>0, <2>1
  <2>3. Placed' /\ Queued' /\ Uncalled'
    BY <2>1, <2>2 DEF LedgerInv, Placed, Queued, Uncalled
  <2>4. Settled'
    BY <2>1, <2>2 DEF LedgerInv, Settled, Accounted
  <2>5. QED
    BY <2>3, <2>4 DEF LedgerInv
<1>3. CASE ThreadFansOut(e)
  <2>1. /\ stage[e] = "fanout" /\ stage' = [stage EXCEPT ![e] = "publish"]
        /\ UNCHANGED <<home, snapshot, queue, dropped>> /\ FanOut({e})
    BY <1>3 DEF ThreadFansOut, queueVars
  <2>2. \A d \in Event : stage'[d] = IF d = e THEN "publish" ELSE stage[d]
    BY <1>0, <2>1
  <2>3. \A d \in Event, s \in Sub :
          calls'[d][s] = IF d = e /\ s \in snapshot[e] THEN calls[d][s] + 1 ELSE calls[d][s]
    BY <2>1 DEF FanOut
  <2>4. /\ e \notin dropped /\ \A s \in Sub : calls[e][s] = 0
        /\ e \notin queue[home[e]]
    BY <2>1 DEF LedgerInv, Uncalled, Queued, Placed
  <2>5. Placed' /\ Queued'
    BY <2>1, <2>2 DEF LedgerInv, Placed, Queued
  <2>6. Uncalled'
    BY <2>1, <2>2, <2>3 DEF LedgerInv, Uncalled
  <2>7. Settled'
    BY <2>1, <2>2, <2>3, <2>4 DEF LedgerInv, Settled, Accounted
  <2>8. QED
    BY <2>5, <2>6, <2>7 DEF LedgerInv
<1>4. CASE ThreadPublishes(e)
  <2>1. /\ stage[e] = "publish" /\ stage' = [stage EXCEPT ![e] = "done"]
        /\ UNCHANGED <<home, snapshot, queue, dropped, calls>>
    BY <1>4 DEF ThreadPublishes, queueVars
  <2>2. \A d \in Event : stage'[d] = IF d = e THEN "done" ELSE stage[d]
    BY <1>0, <2>1
  <2>3. Placed' /\ Queued' /\ Uncalled'
    BY <2>1, <2>2 DEF LedgerInv, Placed, Queued, Uncalled
  <2>4. Settled'
    BY <2>1, <2>2 DEF LedgerInv, Settled, Accounted
  <2>5. QED
    BY <2>3, <2>4 DEF LedgerInv
<1>5. QED
  BY <1>1, <1>2, <1>3, <1>4 DEF ThreadStep

\* The consumer and the drain of a shutdown call everyone an entry was queued
\* for, once, and take the entry away.
LEMMA FanOutLedger ==
    ASSUME TypeOK, LedgerInv, NEW w \in Worker, FanOut(queue[w]),
           queue' = [queue EXCEPT ![w] = {}],
           UNCHANGED <<stage, home, snapshot, dropped>>
    PROVE  LedgerInv'
<1>0. /\ queue \in [Worker -> SUBSET Event] /\ calls \in [Event -> [Sub -> Nat]]
      /\ snapshot \in [Event -> SUBSET Sub]
  BY DEF TypeOK
<1>1. \A x \in Worker : queue'[x] = IF x = w THEN {} ELSE queue[x]
  BY <1>0
<1>2. \A d \in Event, s \in Sub :
        calls'[d][s] = IF d \in queue[w] /\ s \in snapshot[d] THEN calls[d][s] + 1
                                                             ELSE calls[d][s]
  BY DEF FanOut
<1>3. Placed' /\ Queued'
  BY <1>1 DEF LedgerInv, Placed, Queued
<1>4. Uncalled'
  BY <1>2 DEF LedgerInv, Uncalled, Queued
<1>5. Settled'
  <2>1. SUFFICES ASSUME NEW d \in Event, stage[d] \in {"publish", "done"}, NEW s \in Sub
                 PROVE  IF s \in snapshot[d] THEN Accounted(d, s)' = 1
                                             ELSE calls'[d][s] = 0
    BY DEF Settled
  <2>2. home[d] \in Worker /\ (d \in queue[w] => home[d] = w)
    BY <2>1 DEF LedgerInv, Placed, Queued
  <2>3. /\ s \in snapshot[d] => Accounted(d, s) = 1
        /\ s \notin snapshot[d] => calls[d][s] = 0
        /\ calls[d][s] \in Nat
    BY <1>0, <2>1 DEF LedgerInv, Settled
  <2>4. CASE s \notin snapshot[d]
    BY <1>2, <2>3, <2>4
  <2>5. CASE s \in snapshot[d] /\ d \in queue[w]
    BY <1>1, <1>2, <2>2, <2>3, <2>5 DEF Accounted
  <2>6. CASE s \in snapshot[d] /\ d \notin queue[w]
    <3>1. d \in queue'[home[d]] <=> d \in queue[home[d]]
      BY <1>1, <2>2, <2>6
    <3>2. QED
      BY <1>2, <2>3, <2>6, <3>1 DEF Accounted
  <2>7. QED
    BY <2>4, <2>5, <2>6
<1>6. QED
  BY <1>3, <1>4, <1>5 DEF LedgerInv

\* Every step keeps the account.
LEMMA StepLedger == ASSUME TypeOK, LedgerInv, [Next]_vars PROVE LedgerInv'
<1>1. CASE UNCHANGED vars
  BY <1>1, QuietLedger DEF vars, queueVars, dispatchVars
<1>2. ASSUME NEW w \in Worker,
             \/ \E s \in Sub : Subscribe(w, s) \/ Unsubscribe(w, s)
             \/ \E S \in SUBSET Sub : QuietTime(w, S)
             \/ \E e \in Event : HandleMessage(w, e)
             \/ StartConsumer(w) \/ StopConsumer(w) \/ Listen(w) \/ StopListening(w)
      PROVE  LedgerInv'
  <2>1. UNCHANGED <<queue, stage, home, snapshot, dropped, calls>>
    BY <1>2 DEF Subscribe, Unsubscribe, QuietTime, StartConsumer, StopConsumer,
                Listen, StopListening, HandleMessage, queueVars, dispatchVars
  <2>2. QED
    BY <2>1, QuietLedger
<1>3. ASSUME NEW w \in Worker, NEW e \in Event, DispatchOnLoop(w, e) PROVE LedgerInv'
  BY <1>3, LoopLedger
<1>4. ASSUME NEW e \in Event, ThreadStep(e) \/ \E w \in Worker : DispatchOnThread(w, e)
      PROVE  LedgerInv'
  BY <1>4, ThreadLedger
<1>5. ASSUME NEW w \in Worker, ConsumeRound(w) \/ Drain(w) PROVE LedgerInv'
  <2>1. CASE ConsumeRound(w) /\ stop[w]
    BY <2>1, QuietLedger DEF ConsumeRound, dispatchVars
  <2>2. CASE ConsumeRound(w) /\ ~stop[w]
    BY <2>2, FanOutLedger DEF ConsumeRound, dispatchVars
  <2>3. CASE Drain(w)
    BY <2>3, FanOutLedger DEF Drain, dispatchVars
  <2>4. QED
    BY <1>5, <2>1, <2>2, <2>3
<1>6. QED
  BY <1>1, <1>2, <1>3, <1>4, <1>5 DEF Next

\* dispatch() calls, queues or counts as dropped, for each subscriber it found
\* and for no other; the gateway was called before that.
THEOREM NothingLost == Spec => []NothingSilentlyLost
<1>1. Init => LedgerInv
  BY InitLedger
<1>2. TypeOK /\ OnceInv /\ LedgerInv /\ [Next]_vars => LedgerInv'
  BY StepLedger
<1>3. TypeOK /\ OnceInv /\ LedgerInv => NothingSilentlyLost
  BY DEF OnceInv, OwnCall, LedgerInv, Placed, Settled, NothingSilentlyLost
<1>4. QED
  BY <1>1, <1>2, <1>3, OnceInvariant, PTL DEF Spec
=============================================================================
