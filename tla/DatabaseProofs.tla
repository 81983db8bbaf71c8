--------------------------- MODULE DatabaseProofs ---------------------------
(***************************************************************************)
(* Database.tla for any number of threads and connections and any pool     *)
(* sizes: the pool's books, who holds a connection, waiting for one, and   *)
(* the flags the reaper decides by.                                        *)
(***************************************************************************)
EXTENDS DatabaseProperties, FiniteSetTheorems, TLAPS

\* Database._lock is held through the whole of get_connection(), so at most
\* one thread is in it, asleep or about to go on.
Waiters ==
    /\ \A t \in Thread : pc[t] \in {"pool", "wait"} => dbLock = t
    /\ \A t \in asleep \cup woken : pc[t] = "wait"
    /\ asleep \cap woken = {}

\* A driver transaction is in a connection that is checked out.
BegunInUse == begun \subseteq inUse

\* Between the SQL of a transaction's begin or end and the _touch_pool() that
\* tells the pool, the thread's own state is the new one.
Halfway ==
    \A t \in Thread : /\ pc[t] = "begun" => inTxn[t]
                      /\ pc[t] = "ended" => ~inTxn[t]

\* The inductive invariant.
DatabaseInv ==
    /\ TypeOK /\ PoolExact /\ OneHolder /\ SleepsOnlyWhenFull
    /\ Waiters /\ BegunInUse /\ Halfway /\ FlagsAgree

\* The pool's part of the type invariant.
PoolTypes ==
    /\ available \in SUBSET Conn /\ inUse \in SUBSET Conn /\ open \in SUBSET Conn
    /\ usage \in [Conn -> Usage]
    /\ total \in 0 .. MaxSize
    /\ asleep \in SUBSET Thread /\ woken \in SUBSET Thread

Books == PoolTypes /\ PoolExact

-----------------------------------------------------------------------------
(* The operations of the pool.                                             *)

\* The sets of the pool are finite.
LEMMA BooksFinite ==
    ASSUME Books
    PROVE  /\ IsFiniteSet(available) /\ IsFiniteSet(inUse)
           /\ Cardinality(available) \in Nat /\ Cardinality(inUse) \in Nat
           /\ \A R \in SUBSET inUse : IsFiniteSet(R) /\ Cardinality(R) \in Nat
BY PoolAssumption, FS_Subset, FS_CardinalityType DEF Books, PoolTypes

\* Forgetting entries keeps the type of the bookkeeping.
LEMMA ForgottenType ==
    ASSUME usage \in [Conn -> Usage], NEW R
    PROVE  /\ Forgotten(R) \in [Conn -> Usage]
           /\ \A c \in Conn \ R : Forgotten(R)[c] = usage[c]
<1>1. NoUsage \in Usage
  BY DEF NoUsage, Usage, Active
<1>2. QED
  BY <1>1 DEF Forgotten

\* Removing a set of checked-out connections takes its size off the count.
LEMMA RemovedCount ==
    ASSUME NEW S, IsFiniteSet(S), NEW R \in SUBSET S
    PROVE  /\ IsFiniteSet(S \ R) /\ Cardinality(S \ R) \in Nat
           /\ Cardinality(S \ R) = Cardinality(S) - Cardinality(R)
           /\ Cardinality(R) \in Nat /\ Cardinality(R) <= Cardinality(S)
           /\ R # {} => Cardinality(R) >= 1
<1>1. IsFiniteSet(R) /\ IsFiniteSet(S \ R)
  BY FS_Subset
<1>2. /\ Cardinality(R) \in Nat /\ Cardinality(S \ R) \in Nat
      /\ Cardinality(S) \in Nat
  BY <1>1, FS_CardinalityType
<1>3. Cardinality((S \ R) \cup R)
        = Cardinality(S \ R) + Cardinality(R) - Cardinality((S \ R) \cap R)
  BY <1>1, FS_Union
<1>4. (S \ R) \cup R = S /\ (S \ R) \cap R = {}
  OBVIOUS
<1>5. Cardinality(S) = Cardinality(S \ R) + Cardinality(R)
  BY <1>2, <1>3, <1>4, FS_EmptySet
<1>6. R # {} => Cardinality(R) # 0
  BY <1>1, FS_EmptySet
<1>7. QED
  BY <1>1, <1>2, <1>5, <1>6

\* return_connection() with exact books never meets a full idle list, so every
\* return of a checked-out connection wakes a waiter.
LEMMA ReturnCases ==
    ASSUME Books, NEW c, NEW force \in BOOLEAN, ReturnConnection(c, force)
    PROVE  /\ inUse' = inUse \ {c} /\ usage' = Forgotten({c}) /\ Notify
           /\ \/ c \notin inUse /\ UNCHANGED <<available, open, total>>
              \/ /\ c \in inUse /\ force
                 /\ open' = open \ {c} /\ total' = total - 1 /\ available' = available
              \/ /\ c \in inUse /\ ~force
                 /\ available' = available \cup {c} /\ UNCHANGED <<open, total>>
<1>1. c \in inUse => Cardinality(available) < MaxSize
  <2> SUFFICES ASSUME c \in inUse PROVE Cardinality(available) < MaxSize
    OBVIOUS
  <2>1. Cardinality(inUse) # 0
    BY BooksFinite, FS_EmptySet
  <2>2. total \in 0 .. MaxSize /\ total = Cardinality(available) + Cardinality(inUse)
    BY DEF Books, PoolTypes, PoolExact
  <2>3. QED
    BY <2>1, <2>2, BooksFinite, PoolAssumption
<1>2. CASE c \notin inUse
  BY <1>2 DEF ReturnConnection
<1>3. CASE c \in inUse /\ force
  BY <1>3 DEF ReturnConnection
<1>4. CASE c \in inUse /\ ~force
  BY <1>1, <1>4 DEF ReturnConnection
<1>5. QED
  BY <1>2, <1>3, <1>4

\* Waking one sleeper keeps the types.
LEMMA NotifyTypes ==
    ASSUME asleep \in SUBSET Thread, woken \in SUBSET Thread, Notify \/ NotifyAll
    PROVE  asleep' \in SUBSET Thread /\ woken' \in SUBSET Thread
BY DEF Notify, NotifyAll

\* A return keeps the books.
LEMMA ReturnBooks ==
    ASSUME Books, NEW c, NEW force \in BOOLEAN, ReturnConnection(c, force)
    PROVE  Books'
<1>1. usage' \in [Conn -> Usage]
  BY ReturnCases, ForgottenType DEF Books, PoolTypes
<1>2. asleep' \in SUBSET Thread /\ woken' \in SUBSET Thread
  BY ReturnCases, NotifyTypes DEF Books, PoolTypes
<1>3. Cardinality(inUse') \in Nat
      /\ Cardinality(inUse') = IF c \in inUse THEN Cardinality(inUse) - 1
                               ELSE Cardinality(inUse)
  <2>1. inUse' = inUse \ {c} /\ IsFiniteSet(inUse) /\ Cardinality(inUse) \in Nat
    BY ReturnCases, BooksFinite
  <2>2. IsFiniteSet(inUse \ {c})
        /\ Cardinality(inUse \ {c}) = IF c \in inUse THEN Cardinality(inUse) - 1
                                      ELSE Cardinality(inUse)
    BY <2>1, FS_RemoveElement
  <2>3. Cardinality(inUse \ {c}) \in Nat
    BY <2>2, FS_CardinalityType
  <2>4. QED
    BY <2>1, <2>2, <2>3
<1>4. CASE c \notin inUse
  <2>1. UNCHANGED <<available, inUse, open, total>>
    BY <1>4, ReturnCases
  <2>2. QED
    BY <1>1, <1>2, <2>1 DEF Books, PoolTypes, PoolExact
<1>5. CASE c \in inUse /\ force
  <2>1. /\ open' = open \ {c} /\ total' = total - 1 /\ available' = available
        /\ inUse' = inUse \ {c}
    BY <1>5, ReturnCases
  <2>2. PoolExact'
    BY <1>3, <1>5, <2>1, BooksFinite DEF Books, PoolTypes, PoolExact
  <2>3. total' \in 0 .. MaxSize
    <3>1. total' = Cardinality(available) + Cardinality(inUse')
      BY <2>1, <2>2 DEF PoolExact
    <3>2. total \in 0 .. MaxSize /\ MaxSize \in Nat
      BY PoolAssumption DEF Books, PoolTypes
    <3>3. QED
      BY <1>3, <2>1, <3>1, <3>2, BooksFinite
  <2>4. QED
    BY <1>1, <1>2, <2>1, <2>2, <2>3 DEF Books, PoolTypes
<1>6. CASE c \in inUse /\ ~force
  <2>1. /\ available' = available \cup {c} /\ inUse' = inUse \ {c}
        /\ UNCHANGED <<open, total>>
    BY <1>6, ReturnCases
  <2>2. Cardinality(available') = Cardinality(available) + 1
    BY <1>6, <2>1, BooksFinite, FS_AddElement DEF Books, PoolExact
  <2>3. PoolExact'
    BY <1>3, <1>6, <2>1, <2>2, BooksFinite DEF Books, PoolTypes, PoolExact
  <2>4. QED
    BY <1>1, <1>2, <1>6, <2>1, <2>3 DEF Books, PoolTypes
<1>7. QED
  BY <1>4, <1>5, <1>6

\* Reaping keeps the books.
LEMMA ReapBooks ==
    ASSUME Books, NEW R \in SUBSET inUse, Reap(R)
    PROVE  Books'
<1>1. /\ inUse' = inUse \ R /\ usage' = Forgotten(R) /\ open' = open \ R
      /\ total' = total - Cardinality(R) /\ available' = available
      /\ NotifyAll \/ UNCHANGED <<asleep, woken>>
  BY DEF Reap
<1>2. usage' \in [Conn -> Usage]
  BY <1>1, ForgottenType DEF Books, PoolTypes
<1>3. asleep' \in SUBSET Thread /\ woken' \in SUBSET Thread
  BY <1>1, NotifyTypes DEF Books, PoolTypes
<1>4. /\ Cardinality(inUse') \in Nat /\ Cardinality(R) \in Nat
      /\ Cardinality(inUse') = Cardinality(inUse) - Cardinality(R)
  BY <1>1, BooksFinite, RemovedCount
<1>5. PoolExact'
  BY <1>1, <1>4, BooksFinite DEF Books, PoolTypes, PoolExact
<1>6. total' \in 0 .. MaxSize
  BY <1>1, <1>4, <1>5, BooksFinite, PoolAssumption DEF Books, PoolTypes, PoolExact
<1>7. QED
  BY <1>1, <1>2, <1>3, <1>5, <1>6 DEF Books, PoolTypes

\* What get_connection() may check out is no checked-out connection, nobody's
\* local connection unless that is closed, and of the right kind.
LEMMA ObtainableFree ==
    ASSUME Books, NEW c \in Obtainable(Fresh)
    PROVE  /\ c \in Conn /\ c \notin inUse
           /\ available # {} => c \in available
           /\ available = {} => c \notin open /\ \A t \in Thread : local[t] # c
BY DEF Books, PoolTypes, PoolExact, Obtainable, Fresh

\* Checking a connection out, with or without reaping first, keeps the books:
\* one is created only in capacity that is free or that the reaping freed.
LEMMA ObtainBooks ==
    ASSUME Books, NEW t \in Thread, NEW c \in Obtainable(Fresh), NEW R \in SUBSET inUse,
           Free \/ R # {}, Free => R = {}, Obtain(t, c, R)
    PROVE  Books'
<1>1. /\ inUse' = (inUse \ R) \cup {c} /\ available' = available \ {c}
      /\ open' = (open \ R) \cup {c}
      /\ total' = total - Cardinality(R) + (IF available # {} THEN 0 ELSE 1)
  BY DEF Obtain
<1>2. c \in Conn /\ c \notin inUse
  BY ObtainableFree
<1>3. usage' \in [Conn -> Usage]
  <2>1. Forgotten(R) \in [Conn -> Usage]
    BY ForgottenType DEF Books, PoolTypes
  <2>2. [owner |-> t, idle |-> Active, txn |-> FALSE, flight |-> FALSE] \in Usage
    BY DEF Usage, Active
  <2>3. usage' = [Forgotten(R) EXCEPT ![c] =
                    [owner |-> t, idle |-> Active, txn |-> FALSE, flight |-> FALSE]]
    BY DEF Obtain
  <2>4. QED
    BY <2>1, <2>2, <2>3
<1>4. asleep' \in SUBSET Thread /\ woken' \in SUBSET Thread
  BY DEF Obtain, Books, PoolTypes
<1>5. /\ Cardinality(inUse') = Cardinality(inUse) - Cardinality(R) + 1
      /\ Cardinality(inUse') \in Nat /\ Cardinality(R) \in Nat
      /\ R # {} => Cardinality(R) >= 1
  <2>1. /\ IsFiniteSet(inUse \ R) /\ Cardinality(inUse \ R) \in Nat
        /\ Cardinality(inUse \ R) = Cardinality(inUse) - Cardinality(R)
        /\ Cardinality(R) \in Nat
        /\ R # {} => Cardinality(R) >= 1
    BY BooksFinite, RemovedCount
  <2>2. Cardinality((inUse \ R) \cup {c}) = Cardinality(inUse \ R) + 1
    BY <1>2, <2>1, FS_AddElement
  <2>3. QED
    BY <1>1, <2>1, <2>2, BooksFinite
<1>6. /\ Cardinality(available') \in Nat
      /\ Cardinality(available') =
            IF available # {} THEN Cardinality(available) - 1 ELSE Cardinality(available)
  <2>1. IsFiniteSet(available \ {c})
        /\ Cardinality(available \ {c}) =
              IF c \in available THEN Cardinality(available) - 1 ELSE Cardinality(available)
    BY BooksFinite, FS_RemoveElement
  <2>2. Cardinality(available \ {c}) \in Nat
    BY <2>1, FS_CardinalityType
  <2>3. c \in available <=> available # {}
    BY ObtainableFree
  <2>4. QED
    BY <1>1, <2>1, <2>2, <2>3
<1>7. /\ total = Cardinality(available) + Cardinality(inUse)
      /\ total \in 0 .. MaxSize /\ MaxSize \in Nat
      /\ Cardinality(available) \in Nat /\ Cardinality(inUse) \in Nat
  BY PoolAssumption, BooksFinite DEF Books, PoolTypes, PoolExact
<1>8. total' = Cardinality(available') + Cardinality(inUse')
  BY <1>1, <1>5, <1>6, <1>7
<1>9. total' \in 0 .. MaxSize
  <2>1. CASE available # {}
    BY <1>1, <1>5, <1>6, <1>7, <1>8, <2>1
  <2>2. CASE available = {} /\ total < MaxSize
    <3>1. R = {}
      BY <2>2 DEF Free
    <3>2. Cardinality(R) = 0
      BY <3>1, FS_EmptySet
    <3>3. QED
      BY <1>1, <1>7, <2>2, <3>2
  <2>3. CASE available = {} /\ ~ total < MaxSize
    <3>1. Cardinality(R) >= 1
      BY <1>5, <2>3 DEF Free
    <3>2. QED
      BY <1>1, <1>5, <1>6, <1>7, <1>8, <2>3, <3>1
  <2>4. QED
    BY <2>1, <2>2, <2>3
<1>10. open' = available' \cup inUse' /\ available' \cap inUse' = {}
  <2>1. open = available \cup inUse /\ available \cap inUse = {}
    BY DEF Books, PoolExact
  <2>2. QED
    BY <1>1, <1>2, <2>1
<1>11. QED
  BY <1>1, <1>2, <1>3, <1>4, <1>8, <1>9, <1>10 DEF Books, PoolTypes, PoolExact

-----------------------------------------------------------------------------
(* The steps of the facade as the pool sees them.                          *)

\* The initial state satisfies the invariant.
LEMMA InitInv == Init => DatabaseInv
<1> SUFFICES ASSUME Init PROVE DatabaseInv
  OBVIOUS
<1>1. /\ available \in SUBSET Conn /\ Cardinality(available) = MinSize
      /\ inUse = {} /\ usage = [c \in Conn |-> NoUsage] /\ total = MinSize
      /\ open = available /\ asleep = {} /\ woken = {} /\ alive = Thread
  BY DEF Init, PoolInit
<1>2. NoUsage \in Usage
  BY DEF NoUsage, Usage, Active
<1>3. TypeOK
  BY <1>1, <1>2, PoolAssumption DEF Init, TypeOK, MaxAttempts
<1>4. PoolExact
  BY <1>1, FS_EmptySet, PoolAssumption DEF PoolExact
<1>5. OneHolder /\ FlagsAgree
  BY <1>1, DatabaseAssumption DEF Init, OneHolder, FlagsAgree
<1>6. SleepsOnlyWhenFull /\ Waiters /\ BegunInUse /\ Halfway
  BY <1>1 DEF Init, SleepsOnlyWhenFull, Waiters, BegunInUse, Halfway
<1>7. QED
  BY <1>3, <1>4, <1>5, <1>6 DEF DatabaseInv

\* TypeOK has the pool's part in it.
LEMMA InvBooks == ASSUME DatabaseInv PROVE Books
BY DEF DatabaseInv, TypeOK, Books, PoolTypes

\* What reaping takes is checked out.
LEMMA ReclaimableInUse ==
    \A t, n : Reclaimable(t, n) \in SUBSET inUse
BY DEF Reclaimable

\* What any step does to the pool: it sleeps, wakes or marks usage, returns a
\* connection, reaps some, or checks one out.
PoolStep ==
    \/ /\ UNCHANGED <<available, inUse, total, open>>
       /\ usage' \in [Conn -> Usage]
       /\ asleep' \in SUBSET Thread /\ woken' \in SUBSET Thread
    \/ \E c : \E force \in BOOLEAN : ReturnConnection(c, force)
    \/ \E R \in SUBSET inUse : Reap(R)
    \/ \E t \in Thread, c \in Obtainable(Fresh), R \in SUBSET inUse :
          (Free \/ R # {}) /\ (Free => R = {}) /\ Obtain(t, c, R)

\* Marking usage keeps its type.
LEMMA MarksType ==
    ASSUME usage \in [Conn -> Usage], inUse \in SUBSET Conn,
           NEW c, NEW b \in BOOLEAN
    PROVE  /\ Touched(c, b) \in [Conn -> Usage]
           /\ MarkedInFlight(c, b) \in [Conn -> Usage]
<1>1. Touched(c, b) \in [Conn -> Usage]
  BY DEF Touched, Usage, Active
<1>2. MarkedInFlight(c, b) \in [Conn -> Usage]
  BY DEF MarkedInFlight, Usage
<1>3. QED
  BY <1>1, <1>2

\* Every step does one of these to the pool.
LEMMA StepsOfThePool == ASSUME DatabaseInv, [Next]_vars PROVE PoolStep
<1>1. /\ usage \in [Conn -> Usage] /\ inUse \in SUBSET Conn
      /\ asleep \in SUBSET Thread /\ woken \in SUBSET Thread
      /\ inTxn \in [Thread -> BOOLEAN]
  BY DEF DatabaseInv, TypeOK
<1>2. TRUE \in BOOLEAN /\ FALSE \in BOOLEAN
  OBVIOUS
<1>3. CASE UNCHANGED vars
  BY <1>1, <1>3 DEF vars, poolVars, PoolStep
<1>4. ASSUME NEW t \in Thread,
             \/ \E o \in {"execute", "begin", "commit", "rollback"} : Call(t, o)
             \/ Exit(t) \/ Spawn(t)
      PROVE  PoolStep
  BY <1>1, <1>4 DEF Call, Exit, Spawn, poolVars, PoolStep
<1>5. ASSUME NEW t \in Thread, CloseLocal(t) PROVE PoolStep
  BY <1>2, <1>5 DEF CloseLocal, PoolStep
<1>6. ASSUME NEW t \in Thread, WaitEnds(t) PROVE PoolStep
  BY <1>1, <1>6 DEF WaitEnds, PoolStep
<1>7. ASSUME NEW t \in Thread, ThreadStep(t) PROVE PoolStep
  <2>1. CASE \/ Healthy(t) \/ NotConnected(t) \/ Lock(t) \/ AutoCommit(t)
             \/ Begin(t) \/ EndTransaction(t) \/ EndNothing(t)
    BY <1>1, <2>1 DEF Healthy, NotConnected, Lock, AutoCommit, Begin, EndTransaction,
                      EndNothing, poolVars, PoolStep
  <2>2. CASE Touch(t)
    <3>1. Touched(local[t], inTxn[t]) \in [Conn -> Usage]
      BY <1>1, MarksType
    <3>2. QED
      BY <1>1, <2>2, <3>1 DEF Touch, PoolStep
  <2>3. CASE Evict(t)
    BY <1>2, <2>3 DEF Evict, ForceClose, PoolStep
  <2>4. CASE Sleep(t)
    BY <1>1, <2>4 DEF Sleep, GoToSleep, PoolStep
  <2>5. CASE Connect(t)
    <3>1. PICK c \in Obtainable(Fresh) : Obtain(t, c, ReapedOnEntry(t))
      BY <2>5 DEF Connect
    <3>2. ReapedOnEntry(t) \in SUBSET inUse /\ (Free => ReapedOnEntry(t) = {})
      BY ReclaimableInUse DEF ReapedOnEntry
    <3>3. Free \/ ReapedOnEntry(t) # {}
      BY <2>5 DEF Connect
    <3>4. QED
      BY <3>1, <3>2, <3>3 DEF PoolStep
  <2>6. CASE ConnectWoken(t)
    <3>1. PICK c \in Obtainable(Fresh) : Obtain(t, c, {})
      BY <2>6 DEF ConnectWoken
    <3>2. Free
      BY <2>6 DEF ConnectWoken
    <3>3. QED
      BY <3>1, <3>2 DEF PoolStep
  <2>7. CASE Timeout(t)
    BY <1>1, <2>7 DEF Timeout, PoolStep
  <2>8. CASE CreateFails(t)
    <3>1. ReapedOnEntry(t) \in SUBSET inUse
      BY ReclaimableInUse DEF ReapedOnEntry
    <3>2. CASE Reap(ReapedOnEntry(t))
      BY <3>1, <3>2 DEF PoolStep
    <3>3. CASE /\ woken' = woken \ {t}
               /\ UNCHANGED <<available, inUse, usage, total, open, asleep>>
      BY <1>1, <3>3 DEF PoolStep
    <3>4. QED
      BY <2>8, <3>2, <3>3 DEF CreateFails
  <2>9. CASE StartStatement(t)
    <3>1. MarkedInFlight(local[t], TRUE) \in [Conn -> Usage]
      BY <1>1, MarksType
    <3>2. QED
      BY <1>1, <2>9, <3>1 DEF StartStatement, PoolStep
  <2>10. CASE RunStatement(t)
    <3>1. MarkedInFlight(local[t], FALSE) \in [Conn -> Usage]
      BY <1>1, MarksType
    <3>2. QED
      BY <1>1, <2>10, <3>1 DEF RunStatement, PoolStep
  <2>11. CASE StatementFails(t)
    <3>1. CASE CanRetry(t)
      BY <1>2, <2>11, <3>1 DEF StatementFails, ConnectionError, ForceClose, PoolStep
    <3>2. CASE ~CanRetry(t)
      BY <1>1, <2>11, <3>2 DEF StatementFails, ConnectionError, poolVars, PoolStep
    <3>3. QED
      BY <3>1, <3>2
  <2>12. CASE BeginTouch(t)
    <3>1. Touched(local[t], TRUE) \in [Conn -> Usage]
      BY <1>1, MarksType
    <3>2. QED
      BY <1>1, <2>12, <3>1 DEF BeginTouch, PoolStep
  <2>13. CASE EndTouch(t)
    <3>1. Touched(local[t], FALSE) \in [Conn -> Usage]
      BY <1>1, MarksType
    <3>2. QED
      BY <1>1, <2>13, <3>1 DEF EndTouch, PoolStep
  <2>14. CASE ReleaseConn(t)
    <3>1. CASE UNCHANGED <<poolVars, local>>
      BY <1>1, <3>1 DEF poolVars, PoolStep
    <3>2. CASE ReturnConnection(local[t], FALSE)
      BY <1>2, <3>2 DEF PoolStep
    <3>3. QED
      BY <2>14, <3>1, <3>2 DEF ReleaseConn
  <2>15. QED
    BY <1>7, <2>1, <2>2, <2>3, <2>4, <2>5, <2>6, <2>7, <2>8, <2>9, <2>10, <2>11, <2>12,
       <2>13, <2>14 DEF ThreadStep
<1>8. ASSUME NEW c \in Conn, Pick(c) \/ MetadataAges(c) PROVE PoolStep
  BY <1>1, <1>8 DEF Pick, MetadataAges, poolVars, PoolStep
<1>9. ASSUME NEW c \in Conn, TimePasses(c) PROVE PoolStep
  <2>1. Age(c)
    BY <1>9 DEF TimePasses
  <2>2. usage[c].idle \in {Active, Idle} /\ usage[c].idle + 1 \in {Active, Idle, Abandoned}
    BY <1>1, <2>1 DEF Age, Usage, Active, Idle, Abandoned
  <2>3. usage' = [usage EXCEPT ![c].idle = usage[c].idle + 1]
    BY <2>1 DEF Age
  <2>4. usage' \in [Conn -> Usage]
    BY <1>1, <2>2, <2>3 DEF Usage
  <2>5. QED
    BY <1>1, <2>1, <2>4 DEF Age, PoolStep
<1>10. CASE ClosePicked
  BY <1>2, <1>10 DEF ClosePicked, PoolStep
<1>11. CASE ReapIdle
  BY <1>11, ReclaimableInUse DEF ReapIdle, PoolStep
<1>12. QED
  BY <1>3, <1>4, <1>5, <1>6, <1>7, <1>8, <1>9, <1>10, <1>11 DEF Next

\* The books are exact after every step.
LEMMA NextBooks == ASSUME DatabaseInv, [Next]_vars PROVE Books'
<1>1. Books /\ PoolStep
  BY InvBooks, StepsOfThePool
<1>2. CASE /\ UNCHANGED <<available, inUse, total, open>>
           /\ usage' \in [Conn -> Usage]
           /\ asleep' \in SUBSET Thread /\ woken' \in SUBSET Thread
  BY <1>1, <1>2 DEF Books, PoolTypes, PoolExact
<1>3. CASE \E c : \E force \in BOOLEAN : ReturnConnection(c, force)
  BY <1>1, <1>3, ReturnBooks
<1>4. CASE \E R \in SUBSET inUse : Reap(R)
  BY <1>1, <1>4, ReapBooks
<1>5. CASE \E t \in Thread, c \in Obtainable(Fresh), R \in SUBSET inUse :
              (Free \/ R # {}) /\ (Free => R = {}) /\ Obtain(t, c, R)
  BY <1>1, <1>5, ObtainBooks
<1>6. QED
  BY <1>1, <1>2, <1>3, <1>4, <1>5 DEF PoolStep

-----------------------------------------------------------------------------
(* Type correctness.                                                       *)

Places == {"idle", "getconn", "touch", "lock", "pool", "wait",
           "ready", "exec", "commit", "begun", "ended", "release"}

\* Where the threads are in their calls.
CallTypes ==
    /\ pc \in [Thread -> Places]
    /\ op \in [Thread -> {"none", "execute", "begin", "commit", "rollback"}]
    /\ attempt \in [Thread -> 0 .. MaxAttempts - 1]

\* What the threads and the monitor keep.
ThreadTypes ==
    /\ alive \in SUBSET Thread
    /\ local \in [Thread -> Conn \cup {NoConn}]
    /\ inTxn \in [Thread -> BOOLEAN]
    /\ dbLock \in Thread \cup {NoThread}
    /\ begun \in SUBSET Conn /\ meta \in SUBSET Conn /\ stale \in SUBSET Conn
    /\ picked \in Conn \cup {NoConn}

\* What the callers know.
CallerTypes ==
    /\ caller \in [Thread -> {"none", "open", "failed"}]
    /\ fate \in [Thread -> SUBSET {"pending", "committed", "lost"}]

\* TypeOK is these parts.
LEMMA TypeParts == TypeOK <=> PoolTypes /\ CallTypes /\ ThreadTypes /\ CallerTypes
BY DEF TypeOK, PoolTypes, CallTypes, ThreadTypes, CallerTypes, Places

\* The same in the next state.
LEMMA TypePartsNext ==
    TypeOK' <=> PoolTypes' /\ CallTypes' /\ ThreadTypes' /\ CallerTypes'
BY DEF TypeOK, PoolTypes, CallTypes, ThreadTypes, CallerTypes, Places

\* A call that ends or goes on stays in a known place.
LEMMA MoveTypes ==
    ASSUME CallTypes, NEW t \in Thread, NEW w \in Places, Return(t) \/ GoTo(t, w)
    PROVE  CallTypes'
BY DEF Return, GoTo, CallTypes, Places, MaxAttempts

\* A call that raises leaves its caller without a transaction, or to roll back.
LEMMA RaiseTypes ==
    ASSUME CallTypes, caller \in [Thread -> {"none", "open", "failed"}],
           NEW t \in Thread, Raise(t)
    PROVE  CallTypes' /\ caller' \in [Thread -> {"none", "open", "failed"}]
<1>1. CallTypes'
  BY MoveTypes DEF Raise, Places
<1>2. QED
  BY <1>1 DEF Raise

\* What is lost with a closed connection is known of every transaction.
LEMMA LostType ==
    ASSUME fate \in [Thread -> SUBSET {"pending", "committed", "lost"}], NEW S
    PROVE  Lost(S) \in [Thread -> SUBSET {"pending", "committed", "lost"}]
BY DEF Lost

\* The places a call goes through.
LEMMA NextCallTypes == ASSUME DatabaseInv, [Next]_vars PROVE CallTypes'
<1>1. CallTypes /\ CallerTypes
  BY TypeParts DEF DatabaseInv
<1>2. CASE UNCHANGED vars
  BY <1>1, <1>2 DEF vars, callVars, CallTypes
<1>3. ASSUME NEW t \in Thread,
             NEW o \in {"execute", "begin", "commit", "rollback"}, Call(t, o)
      PROVE  CallTypes'
  BY <1>1, <1>3 DEF Call, CallTypes, Places
<1>4. ASSUME NEW t \in Thread, Exit(t) \/ Spawn(t) \/ CloseLocal(t) \/ WaitEnds(t)
      PROVE  CallTypes'
  BY <1>1, <1>4 DEF Exit, Spawn, CloseLocal, WaitEnds, callVars, CallTypes
<1>5. ASSUME NEW t \in Thread, ThreadStep(t) PROVE CallTypes'
  <2>1. CASE \E w \in Places : GoTo(t, w)
    BY <1>1, <2>1, MoveTypes
  <2>2. CASE Return(t)
    BY <1>1, <2>2, MoveTypes DEF Places
  <2>3. CASE Healthy(t) \/ Touch(t) \/ Evict(t) \/ NotConnected(t) \/ Lock(t) \/ Sleep(t)
    BY <2>1, <2>3 DEF Healthy, Touch, Evict, NotConnected, Lock, Sleep, Places
  <2>4. CASE Connect(t) \/ ConnectWoken(t)
    BY <2>1, <2>4 DEF Connect, ConnectWoken, Connected, Places
  <2>5. CASE Timeout(t) \/ CreateFails(t) \/ EndNothing(t) \/ ReleaseConn(t)
    BY <2>2, <2>5 DEF Timeout, CreateFails, EndNothing, ReleaseConn, Ended, Raise
  <2>6. CASE StartStatement(t) \/ RunStatement(t)
    BY <2>1, <2>6 DEF StartStatement, RunStatement, Places
  <2>7. CASE StatementFails(t)
    <3>1. CASE CanRetry(t)
      <4>1. /\ attempt' = [attempt EXCEPT ![t] = attempt[t] + 1]
            /\ pc' = [pc EXCEPT ![t] = "getconn"] /\ op' = op
        BY <2>7, <3>1 DEF StatementFails, ConnectionError
      <4>2. attempt[t] + 1 \in 0 .. MaxAttempts - 1
        BY <1>1, <3>1 DEF CanRetry, CallTypes, MaxAttempts
      <4>3. QED
        BY <1>1, <4>1, <4>2 DEF CallTypes, Places
    <3>2. CASE ~CanRetry(t)
      BY <2>2, <2>7, <3>2 DEF StatementFails, ConnectionError, Raise
    <3>3. QED
      BY <3>1, <3>2
  <2>8. CASE AutoCommit(t) \/ Begin(t) \/ BeginTouch(t) \/ EndTransaction(t) \/ EndTouch(t)
    BY <2>1, <2>2, <2>8 DEF AutoCommit, Begin, BeginTouch, EndTransaction, EndTouch,
                            Raise, Places
  <2>9. QED
    BY <1>5, <2>3, <2>4, <2>5, <2>6, <2>7, <2>8 DEF ThreadStep
<1>6. ASSUME NEW c \in Conn, Pick(c) \/ TimePasses(c) \/ MetadataAges(c)
      PROVE  CallTypes'
  BY <1>1, <1>6 DEF Pick, TimePasses, MetadataAges, callVars, CallTypes
<1>7. CASE ClosePicked \/ ReapIdle
  BY <1>1, <1>7 DEF ClosePicked, ReapIdle, callVars, CallTypes
<1>8. QED
  BY <1>2, <1>3, <1>4, <1>5, <1>6, <1>7 DEF Next

\* What the threads and the monitor keep stays of its kind.
LEMMA NextThreadTypes == ASSUME DatabaseInv, [Next]_vars PROVE ThreadTypes'
<1>1. ThreadTypes /\ open \in SUBSET Conn /\ inUse \in SUBSET Conn
      /\ Books
  BY TypeParts, InvBooks DEF DatabaseInv, PoolTypes
<1>2. CASE UNCHANGED vars
  BY <1>1, <1>2 DEF vars, monitorVars, ThreadTypes
<1>3. ASSUME NEW t \in Thread,
             \/ \E o \in {"execute", "begin", "commit", "rollback"} : Call(t, o)
             \/ Exit(t) \/ Spawn(t) \/ CloseLocal(t) \/ WaitEnds(t)
      PROVE  ThreadTypes'
  BY <1>1, <1>3 DEF Call, Exit, Spawn, CloseLocal, WaitEnds, monitorVars, ThreadTypes
<1>4. ASSUME NEW t \in Thread, ThreadStep(t) PROVE ThreadTypes'
  <2>1. CASE \/ Healthy(t) \/ Touch(t) \/ NotConnected(t) \/ Lock(t) \/ Sleep(t)
             \/ Timeout(t) \/ StartStatement(t) \/ RunStatement(t) \/ AutoCommit(t)
             \/ BeginTouch(t) \/ EndTouch(t) \/ EndNothing(t)
    BY <1>1, <2>1 DEF Healthy, Touch, NotConnected, Lock, Sleep, Timeout, StartStatement,
                      RunStatement, AutoCommit, BeginTouch, EndTouch, EndNothing,
                      monitorVars, ThreadTypes
  <2>2. CASE Evict(t)
    BY <1>1, <2>2 DEF Evict, ForceClose, Closing, ThreadTypes
  <2>3. CASE Connect(t) \/ ConnectWoken(t)
    <3>1. PICK c \in Obtainable(Fresh), R \in SUBSET inUse :
             /\ Connected(t, c) /\ begun' = begun \ R
             /\ meta' = (meta \ R) \cup {c} /\ stale' = stale \ (R \cup {c})
             /\ UNCHANGED <<alive, picked>>
      <4>1. CASE Connect(t)
        BY <4>1, ReclaimableInUse DEF Connect, ReapedOnEntry
      <4>2. CASE ConnectWoken(t)
        <5>1. PICK c \in Obtainable(Fresh) :
                 /\ Connected(t, c) /\ meta' = meta \cup {c} /\ stale' = stale \ {c}
                 /\ UNCHANGED <<alive, begun, picked>>
          BY <4>2 DEF ConnectWoken
        <5>2. /\ begun' = begun \ {} /\ meta' = (meta \ {}) \cup {c}
              /\ stale' = stale \ ({} \cup {c}) /\ {} \in SUBSET inUse
          BY <5>1
        <5>3. QED
          BY <5>1, <5>2
      <4>3. QED
        BY <2>3, <4>1, <4>2
    <3>2. c \in Conn
      BY <1>1, ObtainableFree
    <3>3. QED
      BY <1>1, <3>1, <3>2 DEF Connected, ThreadTypes
  <2>4. CASE CreateFails(t)
    BY <1>1, <2>4 DEF CreateFails, Closing, ThreadTypes
  <2>5. CASE StatementFails(t)
    BY <1>1, <2>5 DEF StatementFails, ConnectionError, ForceClose, Closing, ThreadTypes
  <2>6. CASE Begin(t)
    BY <1>1, <2>6 DEF Begin, monitorVars, ThreadTypes
  <2>7. CASE EndTransaction(t)
    BY <1>1, <2>7 DEF EndTransaction, monitorVars, ThreadTypes
  <2>8. CASE ReleaseConn(t)
    BY <1>1, <2>8 DEF ReleaseConn, monitorVars, ThreadTypes
  <2>9. QED
    BY <1>4, <2>1, <2>2, <2>3, <2>4, <2>5, <2>6, <2>7, <2>8 DEF ThreadStep
<1>5. ASSUME NEW c \in Conn, Pick(c) \/ TimePasses(c) \/ MetadataAges(c)
      PROVE  ThreadTypes'
  BY <1>1, <1>5 DEF Pick, TimePasses, MetadataAges, monitorVars, ThreadTypes
<1>6. CASE ClosePicked \/ ReapIdle
  BY <1>1, <1>6 DEF ClosePicked, ReapIdle, Closing, ThreadTypes
<1>7. QED
  BY <1>2, <1>3, <1>4, <1>5, <1>6 DEF Next

\* What the callers know stays of its kind.
LEMMA NextCallerTypes == ASSUME DatabaseInv, [Next]_vars PROVE CallerTypes'
<1>1. CallTypes /\ CallerTypes
  BY TypeParts DEF DatabaseInv
<1>2. \A S : Lost(S) \in [Thread -> SUBSET {"pending", "committed", "lost"}]
  BY <1>1, LostType DEF CallerTypes
<1>3. CASE UNCHANGED vars
  BY <1>1, <1>3 DEF vars, CallerTypes
<1>4. ASSUME NEW t \in Thread,
             \/ \E o \in {"execute", "begin", "commit", "rollback"} : Call(t, o)
             \/ Exit(t) \/ Spawn(t) \/ CloseLocal(t) \/ WaitEnds(t)
      PROVE  CallerTypes'
  BY <1>1, <1>4 DEF Call, Exit, Spawn, CloseLocal, WaitEnds, CallerTypes
<1>5. ASSUME NEW t \in Thread, ThreadStep(t) PROVE CallerTypes'
  <2>1. Raise(t) => caller' \in [Thread -> {"none", "open", "failed"}]
    BY <1>1 DEF Raise, CallerTypes
  <2>2. CASE \/ Healthy(t) \/ Touch(t) \/ NotConnected(t) \/ Lock(t) \/ Sleep(t)
             \/ ConnectWoken(t) \/ StartStatement(t) \/ BeginTouch(t) \/ EndTouch(t)
    BY <1>1, <2>2 DEF Healthy, Touch, NotConnected, Lock, Sleep, ConnectWoken,
                      StartStatement, BeginTouch, EndTouch, CallerTypes
  <2>3. CASE Evict(t) \/ Connect(t)
    BY <1>1, <1>2, <2>3 DEF Evict, ForceClose, Closing, Connect, CallerTypes
  <2>4. CASE Timeout(t) \/ AutoCommit(t)
    BY <1>1, <2>1, <2>4 DEF Timeout, AutoCommit, CallerTypes
  <2>5. CASE CreateFails(t)
    BY <1>1, <1>2, <2>1, <2>5 DEF CreateFails, Closing, CallerTypes
  <2>6. CASE RunStatement(t)
    BY <1>1, <2>6 DEF RunStatement, CallerTypes
  <2>7. CASE StatementFails(t)
    <3>1. CASE CanRetry(t)
      BY <1>1, <1>2, <2>7, <3>1 DEF StatementFails, ConnectionError, ForceClose, Closing,
                                    CallerTypes
    <3>2. CASE ~CanRetry(t)
      BY <1>1, <2>1, <2>7, <3>2 DEF StatementFails, ConnectionError, CallerTypes
    <3>3. QED
      BY <3>1, <3>2
  <2>8. CASE Begin(t) \/ EndTransaction(t) \/ EndNothing(t)
    BY <1>1, <2>1, <2>8 DEF Begin, EndTransaction, EndNothing, CallerTypes
  <2>9. CASE ReleaseConn(t)
    <3>1. Ended(t) => caller' \in [Thread -> {"none", "open", "failed"}]
      BY <1>1 DEF Ended, CallerTypes
    <3>2. fate' = fate /\ (Ended(t) \/ Raise(t))
      BY <2>9 DEF ReleaseConn
    <3>3. QED
      BY <1>1, <2>1, <3>1, <3>2 DEF CallerTypes
  <2>10. QED
    BY <1>5, <2>2, <2>3, <2>4, <2>5, <2>6, <2>7, <2>8, <2>9 DEF ThreadStep
<1>6. ASSUME NEW c \in Conn, Pick(c) \/ TimePasses(c) \/ MetadataAges(c)
      PROVE  CallerTypes'
  BY <1>1, <1>6 DEF Pick, TimePasses, MetadataAges, CallerTypes
<1>7. CASE ClosePicked \/ ReapIdle
  BY <1>1, <1>2, <1>7 DEF ClosePicked, ReapIdle, Closing, CallerTypes
<1>8. QED
  BY <1>3, <1>4, <1>5, <1>6, <1>7 DEF Next

-----------------------------------------------------------------------------
(* Waiting for the pool.                                                   *)

\* Every value the invariant types, as the steps below use it.
LEMMA InvTypes ==
    ASSUME DatabaseInv
    PROVE  /\ pc \in [Thread -> Places] /\ local \in [Thread -> Conn \cup {NoConn}]
           /\ inTxn \in [Thread -> BOOLEAN] /\ usage \in [Conn -> Usage]
           /\ available \in SUBSET Conn /\ inUse \in SUBSET Conn /\ open \in SUBSET Conn
           /\ begun \in SUBSET Conn /\ asleep \in SUBSET Thread /\ woken \in SUBSET Thread
           /\ alive \in SUBSET Thread
BY DEF DatabaseInv, TypeOK, Places

\* One thread at most is in get_connection(): whoever is asleep or woken is it.
LEMMA OneWaiter ==
    ASSUME DatabaseInv, NEW t \in Thread, pc[t] \in {"pool", "wait"}
    PROVE  /\ dbLock = t /\ asleep \cup woken \in SUBSET {t}
           /\ \A u \in Thread \ {t} : pc[u] \notin {"pool", "wait"}
           /\ pc[t] = "pool" => asleep \cup woken = {}
BY InvTypes DEF DatabaseInv, Waiters

\* notify() therefore wakes everybody who sleeps.
LEMMA NotifyWakesAll ==
    ASSUME DatabaseInv, Notify
    PROVE  asleep' = {} /\ woken' = woken \cup asleep
<1>1. CASE asleep = {}
  BY <1>1 DEF Notify
<1>2. CASE asleep # {}
  <2>1. PICK t \in asleep : asleep' = asleep \ {t} /\ woken' = woken \cup {t}
    BY <1>2 DEF Notify
  <2>2. t \in Thread /\ pc[t] = "wait"
    BY <2>1, InvTypes DEF DatabaseInv, Waiters
  <2>3. asleep = {t}
    BY <2>1, <2>2, OneWaiter
  <2>4. QED
    BY <2>1, <2>3
<1>3. QED
  BY <1>1, <1>2

\* A return leaves nobody asleep.
LEMMA ReturnWakesAll ==
    ASSUME DatabaseInv, NEW c, NEW force \in BOOLEAN, ReturnConnection(c, force)
    PROVE  asleep' = {} /\ woken' = woken \cup asleep
BY InvBooks, ReturnCases, NotifyWakesAll

\* A step that lets nobody into get_connection(), and nobody out of it, keeps
\* the waiters as they are but may wake them.
LEMMA WaitersStay ==
    ASSUME DatabaseInv, NEW t \in Thread, dbLock' = dbLock,
           pc' = pc \/ /\ pc[t] \notin {"pool", "wait"}
                       /\ \E w \in Places \ {"pool", "wait"} : pc' = [pc EXCEPT ![t] = w],
           \/ UNCHANGED <<asleep, woken>>
           \/ asleep' = {} /\ woken' = woken \cup asleep
    PROVE  Waiters'
<1>1. pc \in [Thread -> Places] /\ asleep \in SUBSET Thread /\ woken \in SUBSET Thread
  BY InvTypes
<1>2. \A u \in Thread : \/ pc'[u] = pc[u]
                        \/ pc[u] \notin {"pool", "wait"} /\ pc'[u] \notin {"pool", "wait"}
  BY <1>1
<1>3. \A u \in Thread : pc'[u] \in {"pool", "wait"} => dbLock' = u
  BY <1>2 DEF DatabaseInv, Waiters
<1>4. asleep' \cup woken' = asleep \cup woken /\ asleep' \cap woken' = {}
  BY DEF DatabaseInv, Waiters
<1>5. \A u \in asleep' \cup woken' : pc'[u] = "wait"
  BY <1>1, <1>2, <1>4 DEF DatabaseInv, Waiters
<1>6. QED
  BY <1>3, <1>4, <1>5 DEF Waiters

\* A thread that leaves get_connection() leaves nobody in it.
LEMMA WaitersLeave ==
    ASSUME DatabaseInv, NEW t \in Thread, pc[t] \in {"pool", "wait"}, dbLock' = NoThread,
           \E w \in Places \ {"pool", "wait"} : pc' = [pc EXCEPT ![t] = w],
           asleep' = {}, woken' = {}
    PROVE  Waiters'
BY OneWaiter, InvTypes DEF Waiters

\* Nobody sleeps next to a thread that is awake in get_connection().
LEMMA AwakeAlone ==
    ASSUME DatabaseInv, NEW t \in Thread,
           pc[t] = "pool" \/ (pc[t] = "wait" /\ t \in woken)
    PROVE  asleep = {} /\ woken \in SUBSET {t}
BY OneWaiter DEF DatabaseInv, Waiters

\* Waiting is right after every step.
LEMMA NextWaiting == ASSUME DatabaseInv, [Next]_vars PROVE Waiters' /\ SleepsOnlyWhenFull'
<1>1. /\ pc \in [Thread -> Places] /\ asleep \in SUBSET Thread /\ woken \in SUBSET Thread
      /\ Waiters /\ SleepsOnlyWhenFull
  BY InvTypes DEF DatabaseInv
<1>2. asleep' = {} => SleepsOnlyWhenFull'
  BY DEF SleepsOnlyWhenFull
<1>3. UNCHANGED <<available, total, asleep>> => SleepsOnlyWhenFull'
  BY <1>1 DEF SleepsOnlyWhenFull, Free
<1>4. CASE UNCHANGED vars
  BY <1>1, <1>3, <1>4 DEF vars, poolVars, callVars, Waiters
<1>5. ASSUME NEW t \in Thread, Call(t, "execute") \/ Call(t, "begin") \/ Call(t, "commit")
                               \/ Call(t, "rollback")
      PROVE  Waiters' /\ SleepsOnlyWhenFull'
  BY <1>1, <1>3, <1>5, WaitersStay DEF Call, poolVars, Places
<1>6. ASSUME NEW t \in Thread, Exit(t) \/ Spawn(t)
      PROVE  Waiters' /\ SleepsOnlyWhenFull'
  BY <1>1, <1>3, <1>6, WaitersStay DEF Exit, Spawn, poolVars, callVars
<1>7. ASSUME NEW t \in Thread, CloseLocal(t)
      PROVE  Waiters' /\ SleepsOnlyWhenFull'
  BY <1>2, <1>7, ReturnWakesAll, WaitersStay DEF CloseLocal, callVars
<1>8. ASSUME NEW t \in Thread, WaitEnds(t)
      PROVE  Waiters' /\ SleepsOnlyWhenFull'
  <2>1. pc[t] = "wait" /\ t \in asleep
    BY <1>1, <1>8 DEF WaitEnds, Waiters
  <2>2. asleep = {t}
    BY <2>1, OneWaiter
  <2>3. asleep' = {} /\ woken' = woken \cup asleep
    BY <1>8, <2>2 DEF WaitEnds
  <2>4. QED
    BY <1>2, <1>8, <2>3, WaitersStay DEF WaitEnds, callVars
<1>9. ASSUME NEW t \in Thread, ThreadStep(t)
      PROVE  Waiters' /\ SleepsOnlyWhenFull'
  <2>1. CASE \/ Healthy(t) \/ Touch(t) \/ NotConnected(t) \/ StartStatement(t)
             \/ RunStatement(t)
    <3>1. /\ UNCHANGED <<available, total, asleep, woken, dbLock>>
          /\ pc[t] \notin {"pool", "wait"}
          /\ \E w \in Places \ {"pool", "wait"} : pc' = [pc EXCEPT ![t] = w]
      BY <2>1 DEF Healthy, Touch, NotConnected, StartStatement, RunStatement, GoTo,
                  poolVars, Places
    <3>2. QED
      BY <1>3, <3>1, WaitersStay
  <2>2. CASE \/ AutoCommit(t) \/ Begin(t) \/ BeginTouch(t) \/ EndTransaction(t)
             \/ EndTouch(t) \/ EndNothing(t)
    <3>1. /\ UNCHANGED <<available, total, asleep, woken, dbLock>>
          /\ pc[t] \notin {"pool", "wait"}
          /\ \E w \in Places \ {"pool", "wait"} : pc' = [pc EXCEPT ![t] = w]
      BY <2>2 DEF AutoCommit, Begin, BeginTouch, EndTransaction, EndTouch, EndNothing,
                  GoTo, Return, Raise, poolVars, Places
    <3>2. QED
      BY <1>3, <3>1, WaitersStay
  <2>3. CASE Evict(t)
    <3>1. ReturnConnection(local[t], TRUE)
      BY <2>3 DEF Evict, ForceClose
    <3>2. dbLock' = dbLock /\ pc[t] = "getconn" /\ pc' = [pc EXCEPT ![t] = "lock"]
      BY <2>3 DEF Evict, GoTo
    <3>3. QED
      BY <1>2, <3>1, <3>2, ReturnWakesAll, WaitersStay DEF Places
  <2>4. CASE Lock(t)
    <3>1. /\ dbLock = NoThread /\ dbLock' = t /\ pc' = [pc EXCEPT ![t] = "pool"]
          /\ UNCHANGED <<available, total, asleep, woken>>
      BY <2>4 DEF Lock, GoTo, poolVars
    <3>2. \A u \in Thread : pc[u] \notin {"pool", "wait"}
      BY <1>1, <3>1, PoolAssumption DEF Waiters
    <3>3. asleep = {} /\ woken = {}
      BY <1>1, <3>2 DEF Waiters
    <3>4. QED
      BY <1>1, <1>3, <3>1, <3>2, <3>3 DEF Waiters
  <2>5. CASE Sleep(t)
    <3>1. /\ pc[t] = "pool" \/ (pc[t] = "wait" /\ t \in woken)
          /\ ~Free /\ asleep' = asleep \cup {t} /\ woken' = woken \ {t}
          /\ UNCHANGED <<available, total, dbLock>> /\ pc' = [pc EXCEPT ![t] = "wait"]
      BY <2>5 DEF Sleep, GoToSleep, GoTo
    <3>2. SleepsOnlyWhenFull'
      BY <3>1 DEF SleepsOnlyWhenFull, Free
    <3>3. asleep' = {t} /\ woken' = {}
      BY <3>1, AwakeAlone
    <3>4. Waiters'
      BY <1>1, <3>1, <3>3, OneWaiter DEF Waiters
    <3>5. QED
      BY <3>2, <3>4
  <2>6. CASE Connect(t) \/ ConnectWoken(t)
    <3>1. PICK c, R : Obtain(t, c, R) /\ Connected(t, c)
      BY <2>6 DEF Connect, ConnectWoken
    <3>2. pc[t] = "pool" \/ (pc[t] = "wait" /\ t \in woken)
      BY <2>6 DEF Connect, ConnectWoken
    <3>3. asleep' = {} /\ woken' = {}
      BY <3>1, <3>2, AwakeAlone DEF Obtain
    <3>4. dbLock' = NoThread /\ pc' = [pc EXCEPT ![t] = "ready"]
      BY <3>1 DEF Connected, GoTo
    <3>5. QED
      BY <1>2, <3>2, <3>3, <3>4, WaitersLeave DEF Places
  <2>7. CASE Timeout(t)
    <3>1. /\ pc[t] = "wait" /\ t \in woken /\ asleep' = asleep /\ woken' = woken \ {t}
          /\ dbLock' = NoThread /\ pc' = [pc EXCEPT ![t] = "idle"]
      BY <2>7 DEF Timeout, Raise, Return
    <3>2. asleep' = {} /\ woken' = {}
      BY <3>1, AwakeAlone
    <3>3. QED
      BY <1>2, <3>1, <3>2, WaitersLeave DEF Places
  <2>8. CASE CreateFails(t)
    <3>1. dbLock' = NoThread /\ pc' = [pc EXCEPT ![t] = "idle"]
      BY <2>8 DEF CreateFails, Raise, Return
    <3>2. CASE /\ pc[t] = "wait" /\ t \in woken /\ woken' = woken \ {t}
               /\ asleep' = asleep
      <4>1. asleep' = {} /\ woken' = {}
        BY <3>2, AwakeAlone
      <4>2. QED
        BY <1>2, <3>1, <3>2, <4>1, WaitersLeave DEF Places
    <3>3. CASE pc[t] = "pool" /\ Reap(ReapedOnEntry(t))
      <4>1. asleep = {} /\ woken = {}
        BY <3>3, OneWaiter
      <4>2. asleep' = {} /\ woken' = {}
        BY <3>3, <4>1 DEF Reap, NotifyAll
      <4>3. QED
        BY <1>2, <3>1, <3>3, <4>2, WaitersLeave DEF Places
    <3>4. QED
      BY <2>8, <3>2, <3>3 DEF CreateFails
  <2>9. CASE StatementFails(t)
    <3>1. pc[t] \in {"ready", "exec"} /\ dbLock' = dbLock
      BY <2>9 DEF StatementFails
    <3>2. CASE CanRetry(t)
      <4>1. ReturnConnection(local[t], TRUE) /\ pc' = [pc EXCEPT ![t] = "getconn"]
        BY <2>9, <3>2 DEF StatementFails, ConnectionError, ForceClose
      <4>2. QED
        BY <1>2, <3>1, <4>1, ReturnWakesAll, WaitersStay DEF Places
    <3>3. CASE ~CanRetry(t)
      <4>1. UNCHANGED <<available, total, asleep, woken>> /\ pc' = [pc EXCEPT ![t] = "idle"]
        BY <2>9, <3>3 DEF StatementFails, ConnectionError, Raise, Return, poolVars
      <4>2. QED
        BY <1>3, <3>1, <4>1, WaitersStay DEF Places
    <3>4. QED
      BY <3>2, <3>3
  <2>10. CASE ReleaseConn(t)
    <3>1. /\ pc[t] = "release" /\ dbLock' = dbLock /\ pc' = [pc EXCEPT ![t] = "idle"]
          /\ \/ UNCHANGED <<available, total, asleep, woken>>
             \/ ReturnConnection(local[t], FALSE)
      BY <2>10 DEF ReleaseConn, Ended, Raise, Return, poolVars
    <3>2. QED
      BY <1>2, <1>3, <3>1, ReturnWakesAll, WaitersStay DEF Places
  <2>11. QED
    BY <1>9, <2>1, <2>2, <2>3, <2>4, <2>5, <2>6, <2>7, <2>8, <2>9, <2>10 DEF ThreadStep
<1>10. ASSUME NEW c \in Conn, Pick(c) \/ TimePasses(c) \/ MetadataAges(c)
       PROVE  Waiters' /\ SleepsOnlyWhenFull'
  BY <1>1, <1>3, <1>10 DEF Pick, TimePasses, MetadataAges, Age, poolVars, callVars, Waiters
<1>11. CASE ClosePicked
  <2>1. asleep' = {} /\ woken' = woken \cup asleep
    BY <1>11, ReturnWakesAll DEF ClosePicked
  <2>2. dbLock' = dbLock /\ pc' = pc
    BY <1>11 DEF ClosePicked, callVars
  <2>3. QED
    BY <1>1, <1>2, <2>1, <2>2 DEF Waiters
<1>12. CASE ReapIdle
  <2>1. asleep' = {} /\ woken' = woken \cup asleep
    BY <1>12 DEF ReapIdle, Reap, NotifyAll
  <2>2. dbLock' = dbLock /\ pc' = pc
    BY <1>12 DEF ReapIdle, callVars
  <2>3. QED
    BY <1>1, <1>2, <2>1, <2>2 DEF Waiters
<1>13. QED
  BY <1>4, <1>5, <1>6, <1>7, <1>8, <1>9, <1>10, <1>11, <1>12 DEF Next

-----------------------------------------------------------------------------
(* Who holds a connection, and the flags about it.                         *)

\* OneHolder and FlagsAgree for one thread.
Held(t) ==
    local[t] \in open =>
        /\ local[t] \in inUse /\ usage[local[t]].owner = t
        /\ inTxn[t] <=> local[t] \in begun
        /\ usage[local[t]].txn <=> (inTxn[t] /\ pc[t] # "begun") \/ pc[t] = "ended"
        /\ usage[local[t]].flight <=> pc[t] = "exec"

\* The two invariants are that predicate of every thread.
LEMMA HeldByAll ==
    /\ OneHolder /\ FlagsAgree <=> \A t \in Thread : Held(t)
    /\ OneHolder' /\ FlagsAgree' <=> \A t \in Thread : Held(t)'
BY DEF OneHolder, FlagsAgree, Held

\* Two threads never hold the same open connection.
LEMMA HoldersDiffer ==
    ASSUME DatabaseInv, NEW t \in Thread, NEW u \in Thread, t # u, local[u] \in open
    PROVE  local[t] # local[u]
BY DEF DatabaseInv, OneHolder

\* A thread's connection, if it is open, is checked out and not idle.
LEMMA HeldInUse ==
    ASSUME DatabaseInv, NEW t \in Thread, local[t] \in open
    PROVE  /\ local[t] \in inUse /\ local[t] \notin available /\ local[t] \in Conn
           /\ Held(t)
BY HeldByAll, InvTypes DEF DatabaseInv, OneHolder, PoolExact

\* The places where the flags of a thread's connection tell something else.
Flagged == {"exec", "begun", "ended"}

\* Nothing that concerns thread u changed but the idle time of its connection.
Untouched(u) ==
    /\ local'[u] = local[u] /\ inTxn'[u] = inTxn[u]
    /\ \A w \in Flagged : pc'[u] = w <=> pc[u] = w

\* A step that leaves a thread and its connection's entry alone, and opens no
\* connection that the thread refers to, keeps the thread's view right.
LEMMA HeldSame ==
    ASSUME DatabaseInv, NEW u \in Thread, Untouched(u),
           local[u] \in open' => local[u] \in open,
           local[u] \in open' /\ local[u] \in open =>
              /\ local[u] \in inUse'
              /\ usage'[local[u]].owner = usage[local[u]].owner
              /\ usage'[local[u]].txn = usage[local[u]].txn
              /\ usage'[local[u]].flight = usage[local[u]].flight
              /\ local[u] \in begun' <=> local[u] \in begun
    PROVE  Held(u)'
<1>1. Held(u)
  BY HeldByAll DEF DatabaseInv
<1>2. QED
  BY <1>1 DEF Held, Untouched, Flagged

\* A return of another connection, or a forced one, keeps it right.
LEMMA HeldReturn ==
    ASSUME DatabaseInv, NEW c, NEW force \in BOOLEAN, ReturnConnection(c, force),
           \/ begun' = begun \/ begun' = begun \ {c} \/ begun' = begun \ ({c} \cap inUse),
           NEW u \in Thread, Untouched(u), force \/ local[u] # c
    PROVE  Held(u)'
<1>1. /\ inUse' = inUse \ {c} /\ usage' = Forgotten({c}) /\ open' \in SUBSET open
      /\ c \in inUse /\ force => c \notin open'
  BY InvBooks, ReturnCases DEF Books, PoolTypes
<1>2. ASSUME local[u] \in open', local[u] \in open
      PROVE  local[u] # c /\ local[u] \in Conn /\ local[u] \in inUse
  BY <1>1, <1>2, HeldInUse
<1>3. \A d \in Conn \ {c} : usage'[d] = usage[d]
  BY <1>1, ForgottenType, InvTypes
<1>4. QED
  BY <1>1, <1>2, <1>3, HeldSame

\* Reaping keeps it right.
LEMMA HeldReap ==
    ASSUME DatabaseInv, NEW R, inUse' = inUse \ R, usage' = Forgotten(R), open' = open \ R,
           begun' = begun \ R, NEW u \in Thread, Untouched(u)
    PROVE  Held(u)'
<1>1. \A d \in Conn \ R : usage'[d] = usage[d]
  BY ForgottenType, InvTypes
<1>2. ASSUME local[u] \in open', local[u] \in open
      PROVE  local[u] \in Conn \ R /\ local[u] \in inUse
  BY <1>2, HeldInUse
<1>3. QED
  BY <1>1, <1>2, HeldSame

\* A connection is checked out to t: t's view is right, and the others' stay so.
LEMMA HeldObtain ==
    ASSUME DatabaseInv, NEW t \in Thread, NEW c \in Obtainable(Fresh),
           NEW R \in SUBSET inUse, Obtain(t, c, R), begun' = begun \ R,
           local' = [local EXCEPT ![t] = c], inTxn' = [inTxn EXCEPT ![t] = FALSE],
           pc' = [pc EXCEPT ![t] = "ready"], NEW u \in Thread
    PROVE  Held(u)'
<1>1. /\ c \in Conn /\ c \notin inUse /\ \A v \in Thread : local[v] \in open => local[v] # c
  BY InvBooks, ObtainableFree, HeldInUse
<1>2. \A v \in Thread : local[v] # c
  <2>1. CASE available = {}
    BY <2>1, InvBooks, ObtainableFree
  <2>2. CASE available # {}
    <3>1. c \in available /\ c \in open
      BY <2>2, InvBooks, ObtainableFree DEF Books, PoolExact
    <3>2. QED
      BY <1>1, <3>1
  <2>3. QED
    BY <2>1, <2>2
<1>3. /\ inUse' = (inUse \ R) \cup {c} /\ open' = (open \ R) \cup {c}
      /\ usage' = [Forgotten(R) EXCEPT ![c] =
                      [owner |-> t, idle |-> Active, txn |-> FALSE, flight |-> FALSE]]
  BY DEF Obtain
<1>4. Forgotten(R) \in [Conn -> Usage] /\ \A d \in Conn \ R : Forgotten(R)[d] = usage[d]
  BY ForgottenType, InvTypes
<1>5. c \notin begun
  BY <1>1 DEF DatabaseInv, BegunInUse
<1>6. CASE u = t
  <2>1. local'[t] = c /\ ~inTxn'[t] /\ pc'[t] = "ready"
    BY InvTypes
  <2>2. /\ usage'[c].owner = t /\ usage'[c].txn = FALSE /\ usage'[c].flight = FALSE
    BY <1>1, <1>3, <1>4
  <2>3. c \in inUse' /\ c \notin begun'
    BY <1>3, <1>5
  <2>4. QED
    BY <1>6, <2>1, <2>2, <2>3 DEF Held
<1>7. CASE u # t
  <2>1. Untouched(u)
    BY <1>7, InvTypes DEF Untouched
  <2>2. local[u] \in open' => local[u] \in open /\ local[u] \notin R
    BY <1>2, <1>3
  <2>3. ASSUME local[u] \in open, local[u] \notin R
        PROVE  usage'[local[u]] = usage[local[u]] /\ local[u] \in inUse
    BY <1>2, <1>3, <1>4, <2>3, HeldInUse
  <2>4. QED
    BY <1>3, <2>1, <2>2, <2>3, HeldSame
<1>8. QED
  BY <1>6, <1>7

\* A thread without a connection has nothing to be wrong about.
LEMMA HeldNothing ==
    ASSUME DatabaseInv, [Next]_vars, NEW t \in Thread, local'[t] = NoConn
    PROVE  Held(t)'
BY NextBooks, DatabaseAssumption DEF Books, PoolTypes, Held

\* Steps that move only thread t, and neither the pool nor any connection.
LEMMA OthersUntouched ==
    ASSUME DatabaseInv, NEW t \in Thread, NEW u \in Thread \ {t},
           UNCHANGED local \/ \E c : local' = [local EXCEPT ![t] = c],
           UNCHANGED inTxn \/ \E b : inTxn' = [inTxn EXCEPT ![t] = b],
           UNCHANGED pc \/ \E w : pc' = [pc EXCEPT ![t] = w]
    PROVE  Untouched(u)
BY InvTypes DEF Untouched

\* Where touch() leaves the entries of a checked-out connection.
LEMMA TouchedEntries ==
    ASSUME DatabaseInv, NEW c, NEW b \in BOOLEAN
    PROVE  /\ \A d \in Conn :
                 /\ Touched(c, b)[d].owner = usage[d].owner
                 /\ Touched(c, b)[d].flight = usage[d].flight
                 /\ d # c => Touched(c, b)[d] = usage[d]
           /\ c \in inUse => Touched(c, b)[c].txn = b
           /\ \A d \in Conn :
                 /\ MarkedInFlight(c, b)[d].owner = usage[d].owner
                 /\ MarkedInFlight(c, b)[d].txn = usage[d].txn
                 /\ d # c => MarkedInFlight(c, b)[d] = usage[d]
           /\ c \in inUse => MarkedInFlight(c, b)[c].flight = b
<1>1. inUse \in SUBSET Conn /\ usage \in [Conn -> Usage]
  BY InvTypes
<1>2. \A d \in Conn : DOMAIN usage[d] = {"owner", "idle", "txn", "flight"}
  BY <1>1 DEF Usage
<1>3. QED
  BY <1>1, <1>2 DEF Touched, MarkedInFlight, Usage

\* Every thread's view is right after a step of thread t.
LEMMA ThreadHeld ==
    ASSUME DatabaseInv, [Next]_vars, NEW t \in Thread, ThreadStep(t), NEW u \in Thread
    PROVE  Held(u)'
<1>0. /\ pc \in [Thread -> Places] /\ local \in [Thread -> Conn \cup {NoConn}]
      /\ inTxn \in [Thread -> BOOLEAN] /\ usage \in [Conn -> Usage]
  BY InvTypes
<1>1. CASE Healthy(t) \/ NotConnected(t) \/ Lock(t) \/ Sleep(t) \/ Timeout(t)
  <2>1. /\ UNCHANGED <<inUse, usage, open, begun, local, inTxn>>
        /\ pc[t] \notin Flagged
        /\ \E w \in Places \ Flagged : pc' = [pc EXCEPT ![t] = w]
    BY <1>1 DEF Healthy, NotConnected, Lock, Sleep, GoToSleep, Timeout, Raise, Return, GoTo,
                poolVars, Places, Flagged
  <2>2. Untouched(u)
    BY <1>0, <2>1 DEF Untouched
  <2>3. QED
    BY <2>1, <2>2, HeldSame, HeldInUse
<1>2. CASE AutoCommit(t) \/ EndNothing(t)
  <2>1. /\ UNCHANGED <<inUse, usage, open, begun, local, inTxn>>
        /\ pc[t] \notin Flagged
        /\ \E w \in Places \ Flagged : pc' = [pc EXCEPT ![t] = w]
    BY <1>2 DEF AutoCommit, EndNothing, Raise, Return, GoTo, poolVars, Places, Flagged
  <2>2. Untouched(u)
    BY <1>0, <2>1 DEF Untouched
  <2>3. QED
    BY <2>1, <2>2, HeldSame, HeldInUse
<1>3. CASE Touch(t)
  <2>1. /\ usage' = Touched(local[t], inTxn[t]) /\ pc[t] = "touch"
        /\ pc' = [pc EXCEPT ![t] = "ready"]
        /\ UNCHANGED <<inUse, open, begun, local, inTxn>>
    BY <1>3 DEF Touch, GoTo
  <2>2. Untouched(u)
    BY <1>0, <2>1 DEF Untouched, Flagged
  <2>3. CASE u # t \/ local[u] \notin open
    <3>1. local[u] \in open => usage'[local[u]] = usage[local[u]]
      BY <1>0, <2>1, <2>3, HoldersDiffer, HeldInUse, TouchedEntries
    <3>2. QED
      BY <2>1, <2>2, <3>1, HeldSame, HeldInUse
  <2>4. CASE u = t /\ local[u] \in open
    <3>1. /\ usage'[local[t]].owner = usage[local[t]].owner
          /\ usage'[local[t]].flight = usage[local[t]].flight
          /\ usage'[local[t]].txn = inTxn[t]
      BY <1>0, <2>1, <2>4, HeldInUse, TouchedEntries
    <3>2. Held(t) /\ local[t] \in inUse
      BY <2>4, HeldInUse
    <3>3. QED
      BY <2>1, <2>2, <2>4, <3>1, <3>2 DEF Held, Untouched, Flagged
  <2>5. QED
    BY <2>3, <2>4
<1>4. CASE Evict(t)
  <2>1. /\ ReturnConnection(local[t], TRUE) /\ begun' = begun \ ({local[t]} \cap inUse)
        /\ local' = [local EXCEPT ![t] = NoConn] /\ inTxn' = inTxn
        /\ pc' = [pc EXCEPT ![t] = "lock"]
    BY <1>4 DEF Evict, ForceClose, Closing, GoTo
  <2>2. CASE u = t
    BY <1>0, <2>1, <2>2, HeldNothing
  <2>3. CASE u # t
    <3>1. Untouched(u)
      BY <2>1, <2>3, OthersUntouched
    <3>2. QED
      BY <2>1, <3>1, HeldReturn
  <2>4. QED
    BY <2>2, <2>3
<1>5. CASE Connect(t) \/ ConnectWoken(t)
  <2>1. PICK c \in Obtainable(Fresh), R \in SUBSET inUse :
           Obtain(t, c, R) /\ Connected(t, c) /\ begun' = begun \ R
    <3>1. CASE Connect(t)
      BY <3>1, ReclaimableInUse DEF Connect, ReapedOnEntry
    <3>2. CASE ConnectWoken(t)
      <4>1. PICK c \in Obtainable(Fresh) : Obtain(t, c, {}) /\ Connected(t, c)
        BY <3>2 DEF ConnectWoken
      <4>2. begun' = begun \ {} /\ {} \in SUBSET inUse
        BY <3>2 DEF ConnectWoken
      <4>3. QED
        BY <4>1, <4>2
    <3>3. QED
      BY <1>5, <3>1, <3>2
  <2>2. /\ local' = [local EXCEPT ![t] = c] /\ inTxn' = [inTxn EXCEPT ![t] = FALSE]
        /\ pc' = [pc EXCEPT ![t] = "ready"]
    BY <2>1 DEF Connected, GoTo
  <2>3. QED
    BY <2>1, <2>2, HeldObtain
<1>6. CASE CreateFails(t)
  <2>1. /\ UNCHANGED <<local, inTxn>> /\ pc[t] \in {"pool", "wait"}
        /\ pc' = [pc EXCEPT ![t] = "idle"]
    BY <1>6 DEF CreateFails, Raise, Return
  <2>2. Untouched(u)
    BY <1>0, <2>1 DEF Untouched, Flagged
  <2>3. CASE UNCHANGED <<inUse, usage, open, begun>>
    BY <2>2, <2>3, HeldSame, HeldInUse
  <2>4. CASE Reap(ReapedOnEntry(t)) /\ Closing(ReapedOnEntry(t))
    BY <2>2, <2>4, HeldReap DEF Reap, Closing
  <2>5. QED
    BY <1>6, <2>3, <2>4 DEF CreateFails
<1>7. CASE StartStatement(t) \/ RunStatement(t)
  <2>1. PICK b \in BOOLEAN :
           /\ usage' = MarkedInFlight(local[t], b)
           /\ b <=> pc'[t] = "exec"
           /\ pc[t] \notin {"begun", "ended"}
           /\ \E w \in Places \ {"begun", "ended"} : pc' = [pc EXCEPT ![t] = w]
    <3>1. CASE StartStatement(t)
      BY <1>0, <3>1 DEF StartStatement, GoTo, Places
    <3>2. CASE RunStatement(t)
      BY <1>0, <3>2 DEF RunStatement, GoTo, Places
    <3>3. QED
      BY <1>7, <3>1, <3>2
  <2>2. UNCHANGED <<inUse, open, begun, local, inTxn>>
    BY <1>7 DEF StartStatement, RunStatement
  <2>3. CASE u # t
    <3>1. Untouched(u)
      BY <2>1, <2>2, <2>3, OthersUntouched
    <3>2. local[u] \in open => usage'[local[u]] = usage[local[u]]
      BY <1>0, <2>1, <2>3, HoldersDiffer, HeldInUse, TouchedEntries
    <3>3. QED
      BY <2>2, <3>1, <3>2, HeldSame, HeldInUse
  <2>4. CASE u = t
    <3>1. ASSUME local[t] \in open
          PROVE  /\ usage'[local[t]].owner = usage[local[t]].owner
                 /\ usage'[local[t]].txn = usage[local[t]].txn
                 /\ usage'[local[t]].flight = b
      BY <1>0, <2>1, <3>1, HeldInUse, TouchedEntries
    <3>2. local[t] \in open => Held(t) /\ local[t] \in inUse
      BY HeldInUse
    <3>3. QED
      BY <1>0, <2>1, <2>2, <2>4, <3>1, <3>2 DEF Held
  <2>5. QED
    BY <2>3, <2>4
<1>8. CASE StatementFails(t)
  <2>1. inTxn' = inTxn /\ local[t] \notin open
    BY <1>8 DEF StatementFails
  <2>2. CASE CanRetry(t)
    <3>1. /\ ReturnConnection(local[t], TRUE) /\ begun' = begun \ ({local[t]} \cap inUse)
          /\ local' = [local EXCEPT ![t] = NoConn] /\ pc' = [pc EXCEPT ![t] = "getconn"]
      BY <1>8, <2>2 DEF StatementFails, ConnectionError, ForceClose, Closing
    <3>2. CASE u = t
      BY <1>0, <3>1, <3>2, HeldNothing
    <3>3. CASE u # t
      <4>1. Untouched(u)
        BY <2>1, <3>1, <3>3, OthersUntouched
      <4>2. QED
        BY <3>1, <4>1, HeldReturn
    <3>4. QED
      BY <3>2, <3>3
  <2>3. CASE ~CanRetry(t)
    <3>1. UNCHANGED <<inUse, usage, open, begun, local>> /\ pc' = [pc EXCEPT ![t] = "idle"]
      BY <1>8, <2>3 DEF StatementFails, ConnectionError, Raise, Return, poolVars
    <3>2. CASE u = t
      BY <2>1, <3>1, <3>2 DEF Held
    <3>3. CASE u # t
      <4>1. Untouched(u)
        BY <2>1, <3>1, <3>3, OthersUntouched
      <4>2. QED
        BY <3>1, <4>1, HeldSame, HeldInUse
    <3>4. QED
      BY <3>2, <3>3
  <2>4. QED
    BY <2>2, <2>3
<1>9. CASE Begin(t) \/ EndTransaction(t)
  <2>1. UNCHANGED <<inUse, usage, open, local>> /\ pc[t] = "ready"
    BY <1>9 DEF Begin, EndTransaction, poolVars
  <2>2. CASE UNCHANGED <<begun, inTxn>> /\ pc' = [pc EXCEPT ![t] = "idle"]
    <3>1. Untouched(u)
      BY <1>0, <2>1, <2>2 DEF Untouched, Flagged
    <3>2. QED
      BY <2>1, <2>2, <3>1, HeldSame, HeldInUse
  <2>3. CASE \E b \in BOOLEAN :
               /\ local[t] \in open
               /\ begun' = IF b THEN begun \cup {local[t]} ELSE begun \ {local[t]}
               /\ inTxn[t] <=> ~b
               /\ inTxn' = [inTxn EXCEPT ![t] = b]
               /\ pc' = [pc EXCEPT ![t] = IF b THEN "begun" ELSE "ended"]
    <3>1. PICK b \in BOOLEAN :
             /\ local[t] \in open
             /\ begun' = IF b THEN begun \cup {local[t]} ELSE begun \ {local[t]}
             /\ inTxn[t] <=> ~b
             /\ inTxn' = [inTxn EXCEPT ![t] = b]
             /\ pc' = [pc EXCEPT ![t] = IF b THEN "begun" ELSE "ended"]
      BY <2>3
    <3>2. local[t] \in inUse /\ local[t] \in Conn /\ Held(t)
      BY <3>1, HeldInUse
    <3>3. CASE u = t
      <4>1. /\ inTxn'[t] = b /\ (local[t] \in begun' <=> b)
            /\ pc'[t] = IF b THEN "begun" ELSE "ended"
        BY <1>0, <3>1
      <4>2. usage[local[t]].txn <=> ~b
        BY <2>1, <3>1, <3>2 DEF Held
      <4>3. ~usage[local[t]].flight
        BY <2>1, <3>1, <3>2 DEF Held
      <4>4. QED
        BY <2>1, <3>1, <3>2, <3>3, <4>1, <4>2, <4>3 DEF Held
    <3>4. CASE u # t
      <4>1. Untouched(u)
        BY <2>1, <3>1, <3>4, OthersUntouched
      <4>2. local[u] \in open => local[u] # local[t] /\ local[u] \in inUse
        BY <3>4, HoldersDiffer, HeldInUse
      <4>3. local[u] \in open => (local[u] \in begun' <=> local[u] \in begun)
        BY <3>1, <4>2
      <4>4. QED
        BY <2>1, <4>1, <4>2, <4>3, HeldSame
    <3>5. QED
      BY <3>3, <3>4
  <2>4. QED
    <3>1. CASE Begin(t)
      <4>1. local[t] \in open => (inTxn[t] <=> local[t] \in begun)
        BY HeldInUse DEF Held
      <4>2. QED
        BY <1>0, <2>2, <2>3, <3>1, <4>1 DEF Begin, Raise, Return, GoTo
    <3>2. CASE EndTransaction(t)
      BY <1>0, <2>2, <2>3, <3>2 DEF EndTransaction, Raise, Return, GoTo
    <3>3. QED
      BY <1>9, <3>1, <3>2
<1>10. CASE BeginTouch(t) \/ EndTouch(t)
  <2>1. PICK b \in BOOLEAN :
           /\ usage' = Touched(local[t], b)
           /\ pc[t] = IF b THEN "begun" ELSE "ended"
           /\ \E w \in Places \ Flagged : pc' = [pc EXCEPT ![t] = w]
    <3>1. CASE BeginTouch(t)
      BY <3>1 DEF BeginTouch, Return, Places, Flagged
    <3>2. CASE EndTouch(t)
      BY <3>2 DEF EndTouch, GoTo, Places, Flagged
    <3>3. QED
      BY <1>10, <3>1, <3>2
  <2>2. UNCHANGED <<inUse, open, begun, local, inTxn>>
    BY <1>10 DEF BeginTouch, EndTouch
  <2>3. CASE u # t
    <3>1. Untouched(u)
      BY <2>1, <2>2, <2>3, OthersUntouched
    <3>2. local[u] \in open => usage'[local[u]] = usage[local[u]]
      BY <1>0, <2>1, <2>3, HoldersDiffer, HeldInUse, TouchedEntries
    <3>3. QED
      BY <2>2, <3>1, <3>2, HeldSame, HeldInUse
  <2>4. CASE u = t
    <3>1. pc'[t] \notin Flagged
      BY <1>0, <2>1
    <3>2. ASSUME local[t] \in open
          PROVE  /\ usage'[local[t]].owner = usage[local[t]].owner
                 /\ usage'[local[t]].flight = usage[local[t]].flight
                 /\ usage'[local[t]].txn = b
                 /\ Held(t) /\ local[t] \in inUse
      BY <2>1, <3>2, HeldInUse, TouchedEntries
    <3>3. inTxn[t] <=> b
      BY <2>1 DEF DatabaseInv, Halfway
    <3>4. QED
      BY <2>1, <2>2, <2>4, <3>1, <3>2, <3>3 DEF Held, Flagged
  <2>5. QED
    BY <2>3, <2>4
<1>11. CASE ReleaseConn(t)
  <2>1. UNCHANGED <<inTxn, begun>> /\ pc[t] = "release" /\ pc' = [pc EXCEPT ![t] = "idle"]
    BY <1>11 DEF ReleaseConn, Ended, Raise, Return
  <2>2. CASE UNCHANGED <<poolVars, local>>
    <3>1. Untouched(u)
      BY <1>0, <2>1, <2>2 DEF Untouched, Flagged
    <3>2. QED
      BY <2>1, <2>2, <3>1, HeldSame, HeldInUse DEF poolVars
  <2>3. CASE /\ ReturnConnection(local[t], FALSE) /\ local[t] \in open
             /\ local' = [local EXCEPT ![t] = NoConn]
    <3>1. CASE u = t
      BY <1>0, <2>3, <3>1, HeldNothing
    <3>2. CASE u # t
      <4>1. Untouched(u)
        BY <2>1, <2>3, <3>2, OthersUntouched
      <4>2. local[u] # local[t]
        BY <2>3, <3>2, HoldersDiffer
      <4>3. QED
        BY <2>1, <2>3, <4>1, <4>2, HeldReturn
    <3>3. QED
      BY <3>1, <3>2
  <2>4. QED
    BY <1>11, <2>2, <2>3 DEF ReleaseConn
<1>12. QED
  BY <1>1, <1>2, <1>3, <1>4, <1>5, <1>6, <1>7, <1>8, <1>9, <1>10, <1>11 DEF ThreadStep

\* Every thread's view is right after every step.
LEMMA NextHeld == ASSUME DatabaseInv, [Next]_vars PROVE OneHolder' /\ FlagsAgree'
<1> SUFFICES ASSUME NEW u \in Thread PROVE Held(u)'
  BY HeldByAll
<1>0. /\ pc \in [Thread -> Places] /\ local \in [Thread -> Conn \cup {NoConn}]
      /\ inTxn \in [Thread -> BOOLEAN] /\ usage \in [Conn -> Usage]
  BY InvTypes
<1>1. CASE UNCHANGED vars
  <2>1. Untouched(u) /\ UNCHANGED <<inUse, usage, open, begun, local>>
    BY <1>1 DEF vars, poolVars, callVars, Untouched
  <2>2. QED
    BY <2>1, HeldSame, HeldInUse
<1>2. ASSUME NEW t \in Thread, NEW o \in {"execute", "begin", "commit", "rollback"},
             Call(t, o)
      PROVE  Held(u)'
  <2>1. UNCHANGED <<inUse, usage, open, begun, local>>
    BY <1>2 DEF Call, poolVars
  <2>2. Untouched(u)
    BY <1>0, <1>2 DEF Call, Untouched, Flagged
  <2>3. QED
    BY <2>1, <2>2, HeldSame, HeldInUse
<1>3. ASSUME NEW t \in Thread, Exit(t) \/ CloseLocal(t) PROVE Held(u)'
  <2>1. /\ local' = [local EXCEPT ![t] = NoConn] /\ inTxn' = [inTxn EXCEPT ![t] = FALSE]
        /\ pc' = pc
    BY <1>3 DEF Exit, CloseLocal, callVars
  <2>2. CASE u = t
    BY <1>0, <2>1, <2>2, HeldNothing
  <2>3. CASE u # t
    <3>1. Untouched(u)
      BY <2>1, <2>3, OthersUntouched
    <3>2. CASE UNCHANGED <<inUse, usage, open, begun>>
      BY <3>1, <3>2, HeldSame, HeldInUse
    <3>3. CASE ReturnConnection(local[t], TRUE) /\ begun' = begun \ {local[t]}
      BY <3>1, <3>3, HeldReturn
    <3>4. QED
      BY <1>3, <3>2, <3>3 DEF Exit, CloseLocal, poolVars
  <2>4. QED
    BY <2>2, <2>3
<1>4. ASSUME NEW t \in Thread, Spawn(t) \/ WaitEnds(t) PROVE Held(u)'
  <2>1. Untouched(u) /\ UNCHANGED <<inUse, usage, open, begun, local>>
    BY <1>4 DEF Spawn, WaitEnds, poolVars, callVars, Untouched
  <2>2. QED
    BY <2>1, HeldSame, HeldInUse
<1>5. ASSUME NEW t \in Thread, ThreadStep(t) PROVE Held(u)'
  BY <1>5, ThreadHeld
<1>6. ASSUME NEW c \in Conn, Pick(c) \/ MetadataAges(c) PROVE Held(u)'
  <2>1. Untouched(u) /\ UNCHANGED <<inUse, usage, open, begun, local>>
    BY <1>6 DEF Pick, MetadataAges, poolVars, callVars, Untouched
  <2>2. QED
    BY <2>1, HeldSame, HeldInUse
<1>7. ASSUME NEW c \in Conn, TimePasses(c) PROVE Held(u)'
  <2>1. Untouched(u) /\ UNCHANGED <<inUse, open, begun, local>>
    BY <1>7 DEF TimePasses, Age, callVars, Untouched
  <2>2. usage' = [usage EXCEPT ![c].idle = @ + 1]
    BY <1>7 DEF TimePasses, Age
  <2>3. \A d \in Conn : /\ usage'[d].owner = usage[d].owner
                        /\ usage'[d].txn = usage[d].txn
                        /\ usage'[d].flight = usage[d].flight
    <3>1. \A d \in Conn : DOMAIN usage[d] = {"owner", "idle", "txn", "flight"}
      BY <1>0 DEF Usage
    <3>2. QED
      BY <1>0, <2>2, <3>1
  <2>4. QED
    BY <2>1, <2>3, HeldSame, HeldInUse
<1>8. CASE ClosePicked
  <2>1. Untouched(u) /\ ReturnConnection(picked, TRUE)
        /\ begun' = begun \ ({picked} \cap inUse)
    BY <1>8 DEF ClosePicked, callVars, Untouched
  <2>2. QED
    BY <2>1, HeldReturn
<1>9. CASE ReapIdle
  <2>1. PICK R : Reap(R) /\ Closing(R) /\ Untouched(u)
    BY <1>9 DEF ReapIdle, callVars, Untouched
  <2>2. QED
    BY <2>1, HeldReap DEF Reap, Closing
<1>10. QED
  BY <1>1, <1>2, <1>3, <1>4, <1>5, <1>6, <1>7, <1>8, <1>9 DEF Next

-----------------------------------------------------------------------------
(* Transactions of the driver.                                             *)

\* A driver transaction stays in a connection that is checked out.
LEMMA NextBegun == ASSUME DatabaseInv, [Next]_vars PROVE BegunInUse'
<1>1. BegunInUse /\ Books
  BY InvBooks DEF DatabaseInv
<1>2. UNCHANGED <<inUse, begun>> => BegunInUse'
  BY <1>1 DEF BegunInUse
<1>3. ASSUME NEW c, NEW force \in BOOLEAN, ReturnConnection(c, force),
             \/ begun' = begun \ {c} \/ begun' = begun \ ({c} \cap inUse)
             \/ begun' = begun /\ c \notin begun
      PROVE  BegunInUse'
  <2>1. inUse' = inUse \ {c}
    BY <1>1, <1>3, ReturnCases
  <2>2. QED
    BY <1>1, <1>3, <2>1 DEF BegunInUse
<1>4. ASSUME NEW R, inUse' = inUse \ R, begun' = begun \ R PROVE BegunInUse'
  BY <1>1, <1>4 DEF BegunInUse
<1>5. CASE UNCHANGED vars
  BY <1>2, <1>5 DEF vars, poolVars
<1>6. ASSUME NEW t \in Thread,
             \/ \E o \in {"execute", "begin", "commit", "rollback"} : Call(t, o)
             \/ Exit(t) \/ Spawn(t) \/ WaitEnds(t)
      PROVE  BegunInUse'
  BY <1>2, <1>6 DEF Call, Exit, Spawn, WaitEnds, poolVars
<1>7. ASSUME NEW t \in Thread, CloseLocal(t) PROVE BegunInUse'
  BY <1>3, <1>7 DEF CloseLocal
<1>8. ASSUME NEW t \in Thread, ThreadStep(t) PROVE BegunInUse'
  <2>1. CASE \/ Healthy(t) \/ Touch(t) \/ NotConnected(t) \/ Lock(t) \/ Sleep(t)
             \/ Timeout(t) \/ StartStatement(t) \/ RunStatement(t) \/ AutoCommit(t)
             \/ BeginTouch(t) \/ EndTouch(t) \/ EndNothing(t)
    BY <1>2, <2>1 DEF Healthy, Touch, NotConnected, Lock, Sleep, GoToSleep, Timeout,
                      StartStatement, RunStatement, AutoCommit, BeginTouch, EndTouch,
                      EndNothing, poolVars
  <2>2. CASE Evict(t)
    BY <1>3, <2>2 DEF Evict, ForceClose, Closing
  <2>3. CASE Connect(t)
    BY <1>1, <2>3 DEF Connect, Obtain, BegunInUse
  <2>4. CASE ConnectWoken(t)
    BY <1>1, <2>4 DEF ConnectWoken, Obtain, BegunInUse
  <2>5. CASE CreateFails(t)
    BY <1>2, <1>4, <2>5 DEF CreateFails, Reap, Closing
  <2>6. CASE StatementFails(t)
    <3>1. CASE CanRetry(t)
      BY <1>3, <2>6, <3>1 DEF StatementFails, ConnectionError, ForceClose, Closing
    <3>2. CASE ~CanRetry(t)
      BY <1>2, <2>6, <3>2 DEF StatementFails, ConnectionError, poolVars
    <3>3. QED
      BY <3>1, <3>2
  <2>7. CASE Begin(t)
    <3>1. local[t] \in open => local[t] \in inUse
      BY HeldInUse
    <3>2. QED
      BY <1>1, <2>7, <3>1 DEF Begin, BegunInUse, poolVars
  <2>8. CASE EndTransaction(t)
    BY <1>1, <2>8 DEF EndTransaction, BegunInUse, poolVars
  <2>9. CASE ReleaseConn(t)
    BY <1>2, <1>3, <2>9 DEF ReleaseConn, poolVars
  <2>10. QED
    BY <1>8, <2>1, <2>2, <2>3, <2>4, <2>5, <2>6, <2>7, <2>8, <2>9 DEF ThreadStep
<1>9. ASSUME NEW c \in Conn, Pick(c) \/ TimePasses(c) \/ MetadataAges(c)
      PROVE  BegunInUse'
  BY <1>2, <1>9 DEF Pick, TimePasses, MetadataAges, Age, poolVars
<1>10. CASE ClosePicked
  BY <1>3, <1>10 DEF ClosePicked
<1>11. CASE ReapIdle
  BY <1>4, <1>11 DEF ReapIdle, Reap, Closing
<1>12. QED
  BY <1>5, <1>6, <1>7, <1>8, <1>9, <1>10, <1>11 DEF Next

\* The thread's own state is the new one half-way through begin and end.
LEMMA NextHalfway == ASSUME DatabaseInv, [Next]_vars PROVE Halfway'
<1>1. /\ pc \in [Thread -> Places] /\ inTxn \in [Thread -> BOOLEAN] /\ Halfway
  BY InvTypes DEF DatabaseInv
<1>2. UNCHANGED <<pc, inTxn>> => Halfway'
  BY <1>1 DEF Halfway
<1>3. ASSUME NEW t \in Thread, NEW w \in Places \ {"begun", "ended"},
             pc' = [pc EXCEPT ![t] = w],
             inTxn' = inTxn \/ inTxn' = [inTxn EXCEPT ![t] = FALSE]
      PROVE  Halfway'
  BY <1>1, <1>3 DEF Halfway
<1>4. CASE UNCHANGED vars
  BY <1>2, <1>4 DEF vars, callVars
<1>5. ASSUME NEW t \in Thread,
             \/ \E o \in {"execute", "begin", "commit", "rollback"} : Call(t, o)
             \/ Spawn(t) \/ WaitEnds(t)
      PROVE  Halfway'
  BY <1>2, <1>3, <1>5 DEF Call, Spawn, WaitEnds, callVars, Places
<1>6. ASSUME NEW t \in Thread, Exit(t) \/ CloseLocal(t) PROVE Halfway'
  <2>1. pc[t] = "idle" /\ pc' = pc /\ inTxn' = [inTxn EXCEPT ![t] = FALSE]
    BY <1>6 DEF Exit, CloseLocal, callVars
  <2>2. QED
    BY <1>1, <2>1 DEF Halfway
<1>7. ASSUME NEW t \in Thread, ThreadStep(t) PROVE Halfway'
  <2>1. CASE \/ Healthy(t) \/ Touch(t) \/ Evict(t) \/ NotConnected(t) \/ Lock(t) \/ Sleep(t)
    BY <1>3, <2>1 DEF Healthy, Touch, Evict, NotConnected, Lock, Sleep, GoTo, Places
  <2>2. CASE Connect(t) \/ ConnectWoken(t) \/ Timeout(t) \/ CreateFails(t)
    BY <1>3, <2>2 DEF Connect, ConnectWoken, Connected, Timeout, CreateFails, Raise, Return,
                      GoTo, Places
  <2>3. CASE StartStatement(t) \/ RunStatement(t) \/ StatementFails(t) \/ AutoCommit(t)
    BY <1>3, <2>3 DEF StartStatement, RunStatement, StatementFails, ConnectionError,
                      AutoCommit, Raise, Return, GoTo, Places
  <2>4. CASE Begin(t)
    BY <1>1, <1>3, <2>4 DEF Begin, Raise, Return, GoTo, Halfway, Places
  <2>5. CASE EndTransaction(t)
    BY <1>1, <1>3, <2>5 DEF EndTransaction, Raise, Return, GoTo, Halfway, Places
  <2>6. CASE BeginTouch(t) \/ EndTouch(t) \/ EndNothing(t) \/ ReleaseConn(t)
    BY <1>3, <2>6 DEF BeginTouch, EndTouch, EndNothing, ReleaseConn, Ended, Raise, Return,
                      GoTo, Places
  <2>7. QED
    BY <1>7, <2>1, <2>2, <2>3, <2>4, <2>5, <2>6 DEF ThreadStep
<1>8. ASSUME NEW c \in Conn, Pick(c) \/ TimePasses(c) \/ MetadataAges(c)
      PROVE  Halfway'
  BY <1>2, <1>8 DEF Pick, TimePasses, MetadataAges, callVars
<1>9. CASE ClosePicked \/ ReapIdle
  BY <1>2, <1>9 DEF ClosePicked, ReapIdle, callVars
<1>10. QED
  BY <1>4, <1>5, <1>6, <1>7, <1>8, <1>9 DEF Next

-----------------------------------------------------------------------------
(* The theorems.                                                           *)

\* The invariant is inductive.
THEOREM DatabaseInvariant == Spec => []DatabaseInv
<1>1. DatabaseInv /\ [Next]_vars => DatabaseInv'
  <2> SUFFICES ASSUME DatabaseInv, [Next]_vars PROVE DatabaseInv'
    OBVIOUS
  <2>1. Books' /\ TypeOK'
    BY NextBooks, NextCallTypes, NextThreadTypes, NextCallerTypes, TypePartsNext DEF Books
  <2>2. QED
    BY <2>1, NextWaiting, NextHeld, NextBegun, NextHalfway DEF DatabaseInv, Books
<1>2. QED
  BY InitInv, <1>1, PTL DEF Spec

\* Type correctness: every value has its kind, retries are bounded, and the pool
\* never counts more than MaxSize connections.
THEOREM DatabaseTypes == Spec => []TypeOK
<1>1. DatabaseInv => TypeOK
  BY DEF DatabaseInv
<1>2. QED
  BY <1>1, DatabaseInvariant, PTL

\* The pool's books are exact: through reaping, late returns of reclaimed
\* connections, force-closes and reused identities.
THEOREM PoolIsExact == Spec => []PoolExact
<1>1. DatabaseInv => PoolExact
  BY DEF DatabaseInv
<1>2. QED
  BY <1>1, DatabaseInvariant, PTL

\* An open connection is only ever the one of the thread it is checked out to.
THEOREM ConnectionsHaveOneHolder == Spec => []OneHolder
<1>1. DatabaseInv => OneHolder
  BY DEF DatabaseInv
<1>2. QED
  BY <1>1, DatabaseInvariant, PTL

\* No wake-up is lost: nobody sleeps in get_connection() next to a free
\* connection or free capacity.
THEOREM NoLostWakeup == Spec => []SleepsOnlyWhenFull
<1>1. DatabaseInv => SleepsOnlyWhenFull
  BY DEF DatabaseInv
<1>2. QED
  BY <1>1, DatabaseInvariant, PTL

\* The pool never hands out a connection with a transaction open in it.
THEOREM PooledConnectionsAreClean == Spec => []PooledIsClean
<1>1. DatabaseInv => PooledIsClean
  BY DEF DatabaseInv, PoolExact, BegunInUse, PooledIsClean
<1>2. QED
  BY <1>1, DatabaseInvariant, PTL

\* The flags the reaper decides by are true.
THEOREM FlagsAreTrue == Spec => []FlagsAgree
<1>1. DatabaseInv => FlagsAgree
  BY DEF DatabaseInv
<1>2. QED
  BY <1>1, DatabaseInvariant, PTL

-----------------------------------------------------------------------------
(* What a reaper leaves alone.                                             *)

\* What LiveWorkSurvives protects: the connection a running statement uses, and
\* that of a live transaction the pool knows of or that was used a moment ago.
Protected(u) ==
    /\ local[u] \in open
    /\ \/ pc[u] = "exec"
       \/ LiveTransaction(u) /\ (pc[u] # "begun" \/ usage[local[u]].idle < Idle)

\* None of these is reclaimable, neither on exhaustion nor from the monitor.
LEMMA BusyIsSpared ==
    ASSUME DatabaseInv, NEW u \in Thread, Protected(u)
    PROVE  \A t : \A n \in {Idle, Abandoned} : local[u] \notin Reclaimable(t, n)
<1>1. Held(u) /\ local[u] \in open
  BY HeldInUse DEF Protected
<1>2. usage[local[u]] \in Usage
  BY <1>1, HeldInUse, InvTypes
<1>3. CASE pc[u] = "exec"
  BY <1>1, <1>3 DEF Held, Reclaimable
<1>4. CASE LiveTransaction(u) /\ pc[u] # "begun"
  BY <1>1, <1>2, <1>4 DEF Held, LiveTransaction, Reclaimable, Usage
<1>5. CASE usage[local[u]].idle < Idle
  BY <1>2, <1>5 DEF Reclaimable, Usage, Active, Idle, Abandoned
<1>6. QED
  BY <1>3, <1>4, <1>5 DEF Protected

\* A return closes at most the connection returned.
LEMMA ReturnCloses ==
    ASSUME DatabaseInv, NEW c, NEW force \in BOOLEAN, ReturnConnection(c, force)
    PROVE  open \ {c} \in SUBSET open'
BY InvBooks, ReturnCases

\* No step takes away what LiveWorkSurvives protects.
LEMMA NextSpares ==
    ASSUME DatabaseInv, [Next]_vars, NEW u \in Thread, Protected(u)
    PROVE  Spared(u)
<1> SUFFICES ASSUME local'[u] = local[u], picked' = picked PROVE local[u] \in open'
  BY DEF Spared
<1>0. /\ local \in [Thread -> Conn \cup {NoConn}]
      /\ local[u] \in Conn /\ local[u] # NoConn
      /\ \A t : \A n \in {Idle, Abandoned} : local[u] \notin Reclaimable(t, n)
  BY InvTypes, HeldInUse, BusyIsSpared, DatabaseAssumption DEF Protected
<1>1. open' = open => local[u] \in open'
  BY DEF Protected
<1>2. ASSUME NEW t \in Thread, local' = [local EXCEPT ![t] = NoConn],
             NEW force \in BOOLEAN, ReturnConnection(local[t], force)
      PROVE  local[u] \in open'
  <2>1. t # u
    BY <1>0, <1>2
  <2>2. local[t] # local[u]
    BY <2>1, HoldersDiffer DEF Protected
  <2>3. QED
    BY <1>2, <2>2, ReturnCloses DEF Protected
<1>3. CASE UNCHANGED vars
  BY <1>1, <1>3 DEF vars, poolVars
<1>4. ASSUME NEW t \in Thread,
             \/ \E o \in {"execute", "begin", "commit", "rollback"} : Call(t, o)
             \/ Exit(t) \/ Spawn(t) \/ WaitEnds(t)
      PROVE  local[u] \in open'
  BY <1>1, <1>4 DEF Call, Exit, Spawn, WaitEnds, poolVars
<1>5. ASSUME NEW t \in Thread, CloseLocal(t) PROVE local[u] \in open'
  BY <1>2, <1>5 DEF CloseLocal
<1>6. ASSUME NEW t \in Thread, ThreadStep(t) PROVE local[u] \in open'
  <2>1. CASE \/ Healthy(t) \/ Touch(t) \/ NotConnected(t) \/ Lock(t) \/ Sleep(t)
             \/ Timeout(t) \/ StartStatement(t) \/ RunStatement(t) \/ AutoCommit(t)
             \/ Begin(t) \/ BeginTouch(t) \/ EndTransaction(t) \/ EndTouch(t) \/ EndNothing(t)
    BY <1>1, <2>1 DEF Healthy, Touch, NotConnected, Lock, Sleep, GoToSleep, Timeout,
                      StartStatement, RunStatement, AutoCommit, Begin, BeginTouch,
                      EndTransaction, EndTouch, EndNothing, poolVars
  <2>2. CASE Evict(t)
    BY <1>2, <2>2 DEF Evict, ForceClose
  <2>3. CASE Connect(t)
    <3>1. PICK c : Obtain(t, c, ReapedOnEntry(t))
      BY <2>3 DEF Connect
    <3>2. local[u] \notin ReapedOnEntry(t)
      BY <1>0 DEF ReapedOnEntry
    <3>3. QED
      BY <3>1, <3>2 DEF Obtain, Protected
  <2>4. CASE ConnectWoken(t)
    BY <2>4 DEF ConnectWoken, Obtain, Protected
  <2>5. CASE CreateFails(t)
    <3>1. local[u] \notin ReapedOnEntry(t)
      BY <1>0 DEF ReapedOnEntry
    <3>2. QED
      BY <1>1, <2>5, <3>1 DEF CreateFails, Reap, Protected
  <2>6. CASE StatementFails(t)
    <3>1. CASE CanRetry(t)
      BY <1>2, <2>6, <3>1 DEF StatementFails, ConnectionError, ForceClose
    <3>2. CASE ~CanRetry(t)
      BY <1>1, <2>6, <3>2 DEF StatementFails, ConnectionError, poolVars
    <3>3. QED
      BY <3>1, <3>2
  <2>7. CASE ReleaseConn(t)
    BY <1>1, <1>2, <2>7 DEF ReleaseConn, poolVars
  <2>8. QED
    BY <1>6, <2>1, <2>2, <2>3, <2>4, <2>5, <2>6, <2>7 DEF ThreadStep
<1>7. ASSUME NEW c \in Conn, Pick(c) \/ TimePasses(c) \/ MetadataAges(c)
      PROVE  local[u] \in open'
  BY <1>1, <1>7 DEF Pick, TimePasses, MetadataAges, Age, poolVars
<1>8. CASE ClosePicked
  BY <1>8 DEF ClosePicked
<1>9. CASE ReapIdle
  BY <1>0, <1>9 DEF ReapIdle, Reap, Protected
<1>10. QED
  BY <1>3, <1>4, <1>5, <1>6, <1>7, <1>8, <1>9 DEF Next

\* A running statement, a live thread's transaction that the pool knows of and
\* that is within its grace, and one that was used within the reclaim window,
\* never lose their connection to the pool's reapers.
THEOREM ReapersSpareLiveWork == Spec => LiveWorkSurvives
<1> DEFINE Sparing ==
      \A t \in Thread :
         /\ pc[t] = "exec" /\ local[t] \in open => Spared(t)
         /\ LiveTransaction(t) /\ pc[t] # "begun" => Spared(t)
         /\ LiveTransaction(t) /\ usage[local[t]].idle < Idle => Spared(t)
<1>1. ASSUME DatabaseInv, [Next]_vars PROVE Sparing
  <2> SUFFICES ASSUME NEW t \in Thread
               PROVE  /\ pc[t] = "exec" /\ local[t] \in open => Spared(t)
                      /\ LiveTransaction(t) /\ pc[t] # "begun" => Spared(t)
                      /\ LiveTransaction(t) /\ usage[local[t]].idle < Idle => Spared(t)
    OBVIOUS
  <2>1. LiveTransaction(t) => local[t] \in open
    BY <1>1 DEF LiveTransaction, DatabaseInv, BegunInUse, PoolExact
  <2>2. Protected(t) => Spared(t)
    BY <1>1, NextSpares
  <2>3. QED
    BY <2>1, <2>2 DEF Protected
<1>2. DatabaseInv /\ [Next]_vars => [Sparing]_vars
  BY <1>1
<1>3. QED
  BY <1>2, DatabaseInvariant, PTL DEF Spec, LiveWorkSurvives
=============================================================================
