--------------------------- MODULE ConnectionPool ---------------------------
(***************************************************************************)
(* The connection pool both database engines share                         *)
(* (src/src/core/database/engines/pool.py).  Every method runs under one   *)
(* condition variable, so an operator below is a whole critical section:   *)
(* it constrains the primed values of this module's variables, and         *)
(* Database.tla conjoins it with the caller's part of the step.            *)
(*                                                                         *)
(* Time is kept as far as the pool tells it apart: how long a checked-out  *)
(* connection has been idle is a level, Active, Idle (longer than          *)
(* idle_reclaim_seconds) or Abandoned (longer than the monitor's window,   *)
(* which equals the grace given to a live owner's transaction).            *)
(***************************************************************************)
EXTENDS Integers, FiniteSets

CONSTANTS
    Thread,   \* thread identifiers; a new thread may get the one of a dead thread
    Conn,     \* identities of connection objects
    NoThread, \* no owner
    MinSize,  \* ConnectionPool._min_size
    MaxSize   \* ConnectionPool._max_size

ASSUME PoolAssumption ==
    /\ IsFiniteSet(Conn) /\ NoThread \notin Thread
    /\ MinSize \in Nat /\ MaxSize \in Nat \ {0} /\ MinSize <= MaxSize
    /\ MinSize <= Cardinality(Conn)

Active == 0
Idle == 1
Abandoned == 2

\* An entry of _checked_out: owner thread, idle time, in-transaction flag and
\* cursor-in-flight flag.
Usage == [owner : Thread \cup {NoThread}, idle : {Active, Idle, Abandoned},
          txn : BOOLEAN, flight : BOOLEAN]

NoUsage == [owner |-> NoThread, idle |-> Active, txn |-> FALSE, flight |-> FALSE]

VARIABLES
    available,  \* _available; which of them pop() returns is left open
    inUse,      \* the keys of _in_use, _by_id and _checked_out, always equal
    usage,      \* _checked_out
    total,      \* _total_created
    open,       \* the driver connections that are open
    asleep,     \* threads blocked in condition.wait()
    woken,      \* threads notified, or timed out, that have yet to get the lock
    alive       \* threads that run

poolVars == <<available, inUse, usage, total, open, asleep, woken>>

\* __init__ opens min_size connections.
PoolInit ==
    /\ available \in {S \in SUBSET Conn : Cardinality(S) = MinSize}
    /\ inUse = {}
    /\ usage = [c \in Conn |-> NoUsage]
    /\ total = MinSize
    /\ open = available
    /\ asleep = {} /\ woken = {}
    /\ alive = Thread

\* The negation of the condition get_connection waits on.
Free == available # {} \/ total < MaxSize

\* condition.notify() and notify_all().
Notify ==
    \/ asleep = {} /\ UNCHANGED <<asleep, woken>>
    \/ \E t \in asleep : /\ asleep' = asleep \ {t}
                         /\ woken' = woken \cup {t}

NotifyAll == asleep' = {} /\ woken' = woken \cup asleep

MutReclaimable(t, threshold) ==
    {c \in inUse : /\ ~usage[c].flight
                   /\ usage[c].owner # t
                   /\ usage[c].idle >= threshold
                   /\ ~(usage[c].txn /\ usage[c].owner \in alive)}

MutUnguarded(t, threshold) ==
    {c \in inUse : /\ ~usage[c].flight
                   /\ usage[c].owner # t
                   /\ usage[c].idle >= threshold}

\* The connections _reap_idle_unlocked closes when thread t calls it: not
\* mid-statement, not the caller's, idle long enough, and not inside the
\* transaction of an owner that is alive and within its grace.
Reclaimable(t, threshold) ==
    {c \in inUse : /\ ~usage[c].flight
                   /\ usage[c].owner # t
                   /\ usage[c].idle >= threshold
                   /\ ~(/\ usage[c].txn /\ usage[c].owner \in alive
                        /\ usage[c].idle < Abandoned)}

\* The bookkeeping without the entries of the connections in R.
Forgotten(R) == [c \in Conn |-> IF c \in R THEN NoUsage ELSE usage[c]]

\* reap_idle(): close R, give its capacity back and wake everyone if it freed
\* any.
Reap(R) ==
    /\ inUse' = inUse \ R
    /\ usage' = Forgotten(R)
    /\ open' = open \ R
    /\ total' = total - Cardinality(R)
    /\ IF R # {} THEN NotifyAll ELSE UNCHANGED <<asleep, woken>>
    /\ UNCHANGED available

\* get_connection() up to its wait: t is exhausted and reaping frees nothing.
GoToSleep(t) ==
    /\ ~Free /\ Reclaimable(t, Idle) = {}
    /\ asleep' = asleep \cup {t}
    /\ woken' = woken \ {t}
    /\ UNCHANGED <<available, inUse, usage, total, open>>

\* What get_connection() reaps on entry: nothing unless it is exhausted.
ReapedOnEntry(t) == IF Free THEN {} ELSE Reclaimable(t, Idle)

\* Where it finds a connection: the idle ones, or else one it creates, whose
\* identity no live object has.
Obtainable(fresh) == IF available # {} THEN available ELSE fresh

\* get_connection() that succeeds, having reaped R: c is popped or created and
\* checked out by t.
Obtain(t, c, R) ==
    /\ available' = available \ {c}
    /\ inUse' = (inUse \ R) \cup {c}
    /\ usage' = [Forgotten(R) EXCEPT ![c] =
                    [owner |-> t, idle |-> Active, txn |-> FALSE, flight |-> FALSE]]
    /\ open' = (open \ R) \cup {c}
    /\ total' = total - Cardinality(R) + (IF available # {} THEN 0 ELSE 1)
    /\ IF R # {} THEN asleep' = {} /\ woken' = (woken \cup asleep) \ {t}
                 ELSE asleep' = asleep /\ woken' = woken \ {t}

\* touch(): the connection was just used.
Touched(c, txn) ==
    IF c \in inUse THEN [usage EXCEPT ![c].idle = Active, ![c].txn = txn] ELSE usage

\* mark_in_flight().
MarkedInFlight(c, flight) ==
    IF c \in inUse THEN [usage EXCEPT ![c].flight = flight] ELSE usage

MutReturnConnection(c, force) ==
    /\ inUse' = inUse \ {c}
    /\ usage' = Forgotten({c})
    /\ IF force
       THEN open' = open \ {c} /\ total' = total - 1 /\ UNCHANGED available
       ELSE available' = available \cup {c} /\ UNCHANGED <<open, total>>
    /\ Notify

MutForceClose(c, force) ==
    /\ inUse' = inUse \ {c}
    /\ usage' = Forgotten({c})
    /\ CASE c \notin inUse ->
              UNCHANGED <<available, open, total>> /\ Notify
         [] c \in inUse /\ (force \/ Cardinality(available) >= MaxSize) ->
              /\ open' = open \ {c} /\ total' = total - 1
              /\ UNCHANGED <<available, asleep, woken>>
         [] OTHER ->
              /\ available' = available \cup {c}
              /\ UNCHANGED <<open, total>> /\ Notify

\* return_connection(): a connection that was reclaimed meanwhile only wakes a
\* waiter; one to be closed frees its capacity; the others become available.
\* The last branch of the code, a full idle list, wakes nobody.
ReturnConnection(c, force) ==
    /\ inUse' = inUse \ {c}
    /\ usage' = Forgotten({c})
    /\ CASE c \notin inUse ->
              UNCHANGED <<available, open, total>> /\ Notify
         [] c \in inUse /\ force ->
              /\ open' = open \ {c} /\ total' = total - 1
              /\ UNCHANGED available /\ Notify
         [] c \in inUse /\ ~force /\ Cardinality(available) < MaxSize ->
              /\ available' = available \cup {c}
              /\ UNCHANGED <<open, total>> /\ Notify
         [] OTHER ->
              /\ open' = open \ {c} /\ total' = total - 1
              /\ UNCHANGED <<available, asleep, woken>>

\* Time passes for a checked-out connection.
Age(c) ==
    /\ c \in inUse /\ usage[c].idle # Abandoned
    /\ usage' = [usage EXCEPT ![c].idle = @ + 1]
    /\ UNCHANGED <<available, inUse, total, open, asleep, woken>>
=============================================================================
