------------------------------ MODULE Database ------------------------------
(***************************************************************************)
(* The database facade on SQLite (src/src/core/database/core): threads     *)
(* that keep a pooled connection in thread-local storage, execute          *)
(* statements and transactions on it, reconnect when they find it closed,  *)
(* and the monitor thread that reaps idle connections.                     *)
(*                                                                         *)
(* A statement stands for execute(), execute_many() and the fetches, which *)
(* differ in when they parse rows.  Nested transactions and Database.reset *)
(* are left out.                                                           *)
(***************************************************************************)
EXTENDS ConnectionPool

CONSTANTS
    NoConn,  \* no connection
    Calls,   \* which of "single" (statements of their own), "begin"
             \* (transactions) and "inside" (statements in them) a thread's
             \* callers use (bound)
    Faults   \* which of "exit" (threads end), "old" (connections get too old),
             \* "create" (connecting fails) and "metadata" (connections the
             \* monitor's metadata calls idle) happen (bound)

ASSUME DatabaseAssumption ==
    /\ NoConn \notin Conn
    /\ Calls \in [Thread -> SUBSET {"single", "begin", "inside"}]
    /\ Faults \subseteq {"exit", "old", "create", "metadata"}

MaxAttempts == 3   \* range(3) in execute()

VARIABLES
    pc,       \* where a thread is in the call it makes
    op,       \* the call
    attempt,  \* the retry counter of execute()
    local,    \* _local.connection
    inTxn,    \* _local.in_transaction, which equals transaction_depth > 0
    dbLock,   \* the holder of Database._lock
    begun,    \* driver connections with an open SQL transaction
    meta,     \* open connections the monitor has metadata of; an entry of a
              \* closed one has no effect but a needless wake-up
    stale,    \* ... whose last_used is older than max_idle_time
    picked,   \* the connection reap_connections decided to close
    caller,   \* the caller's view: "none", in a transaction ("open"), or in
              \* one that raised ("failed") and that it must roll back
    fate      \* what became so far of the writes of the caller's transaction

callVars == <<pc, op, attempt>>
monitorVars == <<meta, stale, picked>>
vars == <<poolVars, alive, callVars, local, inTxn, dbLock, begun, monitorVars,
          caller, fate>>

Init ==
    /\ PoolInit
    /\ pc = [t \in Thread |-> "idle"]
    /\ op = [t \in Thread |-> "none"]
    /\ attempt = [t \in Thread |-> 0]
    /\ local = [t \in Thread |-> NoConn]
    /\ inTxn = [t \in Thread |-> FALSE]
    /\ dbLock = NoThread
    /\ begun = {}
    /\ meta = {} /\ stale = {} /\ picked = NoConn
    /\ caller = [t \in Thread |-> "none"]
    /\ fate = [t \in Thread |-> {}]

\* Identities free for a new connection object: nobody refers to them.
Fresh == Conn \ (open \cup {picked} \cup {local[t] : t \in Thread})

\* A call returns to its caller.
Return(t) ==
    /\ pc' = [pc EXCEPT ![t] = "idle"]
    /\ op' = [op EXCEPT ![t] = "none"]
    /\ attempt' = [attempt EXCEPT ![t] = 0]

GoTo(t, where) ==
    /\ pc' = [pc EXCEPT ![t] = where]
    /\ UNCHANGED <<op, attempt>>

\* The writes pending on connections that are closed are rolled back.
Lost(closed) ==
    [t \in Thread |-> IF local[t] \in closed \cap begun /\ "pending" \in fate[t]
                      THEN (fate[t] \ {"pending"}) \cup {"lost"} ELSE fate[t]]

\* What a step that closes connections does to their transactions.
Closing(closed) ==
    /\ begun' = begun \ closed
    /\ meta' = meta \ closed /\ stale' = stale \ closed
    /\ fate' = Lost(closed)

\* engine.close_connection(conn, pool, {"close": True}).
ForceClose(c) == ReturnConnection(c, TRUE) /\ Closing({c} \cap inUse)

-----------------------------------------------------------------------------
(* The caller.                                                             *)

\* A thread calls execute(), begin_transaction(), commit() or rollback().  A
\* caller whose statement raised inside its transaction rolls back.
Call(t, o) ==
    /\ t \in alive /\ pc[t] = "idle"
    /\ \/ caller[t] = "none" /\ o = "execute" /\ "single" \in Calls[t]
       \/ caller[t] = "none" /\ o = "begin" /\ "begin" \in Calls[t]
       \/ caller[t] = "open" /\ o = "execute" /\ "inside" \in Calls[t]
       \/ caller[t] = "open" /\ o \in {"commit", "rollback"}
       \/ caller[t] = "failed" /\ o = "rollback"
    /\ pc' = [pc EXCEPT ![t] = "getconn"]
    /\ op' = [op EXCEPT ![t] = o]
    /\ UNCHANGED <<poolVars, alive, attempt, local, inTxn, dbLock, begun,
                   monitorVars, caller, fate>>

\* The thread ends without returning its connection; threading.local drops
\* what it held, the pool still refers to the connection.
Exit(t) ==
    /\ "exit" \in Faults
    /\ t \in alive /\ pc[t] = "idle"
    /\ alive' = alive \ {t}
    /\ local' = [local EXCEPT ![t] = NoConn]
    /\ inTxn' = [inTxn EXCEPT ![t] = FALSE]
    /\ caller' = [caller EXCEPT ![t] = "none"]
    /\ fate' = [fate EXCEPT ![t] = {}]
    /\ UNCHANGED <<poolVars, callVars, dbLock, begun, monitorVars>>

\* A new thread gets the identifier of a dead one.
Spawn(t) ==
    /\ t \notin alive
    /\ alive' = alive \cup {t}
    /\ UNCHANGED <<poolVars, callVars, local, inTxn, dbLock, begun, monitorVars,
                   caller, fate>>

\* The call raises.
Raise(t) ==
    /\ Return(t)
    /\ caller' = [caller EXCEPT ![t] = IF @ = "none" THEN "none" ELSE "failed"]

-----------------------------------------------------------------------------
(* _get_conn() and connect().                                              *)

\* The thread-local connection passes the health checks; what follows uses it
\* although it may be closed at any moment.
Healthy(t) ==
    /\ pc[t] = "getconn" /\ local[t] \in open
    /\ GoTo(t, "touch")
    /\ UNCHANGED <<poolVars, alive, local, inTxn, dbLock, begun, monitorVars,
                   caller, fate>>

\* update_connection_last_used() and _touch_pool().
Touch(t) ==
    /\ pc[t] = "touch"
    /\ usage' = Touched(local[t], inTxn[t])
    /\ stale' = stale \ {local[t]}
    /\ GoTo(t, "ready")
    /\ UNCHANGED <<available, inUse, total, open, asleep, woken, alive, local,
                   inTxn, dbLock, begun, meta, picked, caller, fate>>

\* The thread-local connection is closed, idle for max_idle_time or too old:
\* it is force-closed and the thread connects again.
Evict(t) ==
    /\ pc[t] = "getconn" /\ local[t] # NoConn
    /\ local[t] \in open => "old" \in Faults
    /\ ForceClose(local[t])
    /\ local' = [local EXCEPT ![t] = NoConn]
    /\ GoTo(t, "lock")
    /\ UNCHANGED <<alive, inTxn, dbLock, picked, caller>>

NotConnected(t) ==
    /\ pc[t] = "getconn" /\ local[t] = NoConn
    /\ GoTo(t, "lock")
    /\ UNCHANGED <<poolVars, alive, local, inTxn, dbLock, begun, monitorVars,
                   caller, fate>>

\* connect() takes Database._lock for as long as it waits for the pool.
Lock(t) ==
    /\ pc[t] = "lock" /\ dbLock = NoThread
    /\ dbLock' = t
    /\ GoTo(t, "pool")
    /\ UNCHANGED <<poolVars, alive, local, inTxn, begun, monitorVars, caller, fate>>

Sleep(t) ==
    /\ pc[t] = "pool" \/ (pc[t] = "wait" /\ t \in woken)
    /\ IF pc[t] = "pool" THEN GoToSleep(t)
       ELSE /\ ~Free
            /\ asleep' = asleep \cup {t} /\ woken' = woken \ {t}
            /\ UNCHANGED <<available, inUse, usage, total, open>>
    /\ GoTo(t, "wait")
    /\ UNCHANGED <<alive, local, inTxn, dbLock, begun, monitorVars, caller, fate>>

MutConnected(t, c) ==
    /\ local' = [local EXCEPT ![t] = c]
    /\ dbLock' = NoThread
    /\ GoTo(t, "ready")
    /\ UNCHANGED inTxn

\* The rest of connect(): the connection becomes the thread's own, its
\* metadata is new, and whatever transaction the thread was in is forgotten.
Connected(t, c) ==
    /\ local' = [local EXCEPT ![t] = c]
    /\ inTxn' = [inTxn EXCEPT ![t] = FALSE]
    /\ dbLock' = NoThread
    /\ GoTo(t, "ready")

\* get_connection() on entry, which may reap, and after a wait.
Connect(t) ==
    /\ pc[t] = "pool"
    /\ LET R == ReapedOnEntry(t)
       IN /\ Free \/ R # {}
          /\ \E c \in Obtainable(Fresh) :
                /\ Obtain(t, c, R)
                /\ Connected(t, c)
                /\ meta' = (meta \ R) \cup {c} /\ stale' = stale \ (R \cup {c})
          /\ begun' = begun \ R
          /\ fate' = Lost(R)
    /\ UNCHANGED <<alive, picked, caller>>

ConnectWoken(t) ==
    /\ pc[t] = "wait" /\ t \in woken /\ Free
    /\ \E c \in Obtainable(Fresh) :
          /\ Obtain(t, c, {})
          /\ Connected(t, c)
          /\ meta' = meta \cup {c} /\ stale' = stale \ {c}
    /\ UNCHANGED <<alive, begun, picked, caller, fate>>

MutWaitEnds(t) ==
    /\ t \in asleep /\ Free
    /\ asleep' = asleep \ {t} /\ woken' = woken \cup {t}
    /\ UNCHANGED <<available, inUse, usage, total, open, alive, callVars, local,
                   inTxn, dbLock, begun, monitorVars, caller, fate>>

\* The wait reaches the deadline.
WaitEnds(t) ==
    /\ t \in asleep
    /\ asleep' = asleep \ {t} /\ woken' = woken \cup {t}
    /\ UNCHANGED <<available, inUse, usage, total, open, alive, callVars, local,
                   inTxn, dbLock, begun, monitorVars, caller, fate>>

\* TimeoutError: not a connection error, so no caller retries it.
Timeout(t) ==
    /\ pc[t] = "wait" /\ t \in woken /\ ~Free
    /\ woken' = woken \ {t}
    /\ dbLock' = NoThread
    /\ Raise(t)
    /\ UNCHANGED <<available, inUse, usage, total, open, asleep, alive, local,
                   inTxn, begun, monitorVars, fate>>

\* create_conn() raises (the file cannot be opened): the capacity stays free.
CreateFails(t) ==
    /\ "create" \in Faults
    /\ available = {}
    /\ \/ /\ pc[t] = "pool" /\ (Free \/ ReapedOnEntry(t) # {})
          /\ Reap(ReapedOnEntry(t))
          /\ Closing(ReapedOnEntry(t))
       \/ /\ pc[t] = "wait" /\ t \in woken /\ Free
          /\ woken' = woken \ {t}
          /\ UNCHANGED <<available, inUse, usage, total, open, asleep, begun, meta,
                         stale, fate>>
    /\ dbLock' = NoThread
    /\ Raise(t)
    /\ UNCHANGED <<alive, local, inTxn, picked>>

-----------------------------------------------------------------------------
(* Statements and transactions.                                            *)

MutCanRetry(t) == attempt[t] < MaxAttempts /\ ~inTxn[t]

\* execute() retries a connection error unless it is inside a transaction.
CanRetry(t) == attempt[t] < MaxAttempts - 1 /\ ~inTxn[t]

\* The statement met a closed connection: the connection is given back and
\* the next attempt made, or the error is raised with the connection kept.
ConnectionError(t) ==
    IF CanRetry(t)
    THEN /\ ForceClose(local[t])
         /\ local' = [local EXCEPT ![t] = NoConn]
         /\ attempt' = [attempt EXCEPT ![t] = @ + 1]
         /\ pc' = [pc EXCEPT ![t] = "getconn"]
         /\ UNCHANGED <<op, caller>>
    ELSE /\ Raise(t)
         /\ UNCHANGED <<poolVars, begun, meta, stale, fate, local>>

\* conn.cursor() and _mark_pool_in_flight(True).
StartStatement(t) ==
    /\ pc[t] = "ready" /\ op[t] = "execute" /\ local[t] \in open
    /\ usage' = MarkedInFlight(local[t], TRUE)
    /\ GoTo(t, "exec")
    /\ UNCHANGED <<available, inUse, total, open, asleep, woken, alive, local,
                   inTxn, dbLock, begun, monitorVars, caller, fate>>

\* cursor.execute() and the finally that clears the flag.  Outside a SQL
\* transaction SQLite commits the statement at once (isolation_level None).
RunStatement(t) ==
    /\ pc[t] = "exec" /\ local[t] \in open
    /\ usage' = MarkedInFlight(local[t], FALSE)
    /\ fate' = IF caller[t] = "none" THEN fate
               ELSE [fate EXCEPT ![t] = @ \cup {IF local[t] \in begun THEN "pending"
                                                ELSE "committed"}]
    /\ GoTo(t, IF inTxn[t] THEN "release" ELSE "commit")
    /\ UNCHANGED <<available, inUse, total, open, asleep, woken, alive, local,
                   inTxn, dbLock, begun, monitorVars, caller>>

StatementFails(t) ==
    /\ \/ pc[t] = "ready" /\ op[t] = "execute"
       \/ pc[t] = "exec"
    /\ local[t] \notin open
    /\ ConnectionError(t)
    /\ UNCHANGED <<alive, inTxn, dbLock, picked>>

\* _commit_strict() outside a transaction: nothing is left to commit, but a
\* closed connection makes it raise.
AutoCommit(t) ==
    /\ pc[t] = "commit"
    /\ IF local[t] \in open
       THEN GoTo(t, "release") /\ UNCHANGED caller
       ELSE Raise(t)
    /\ UNCHANGED <<poolVars, alive, local, inTxn, dbLock, begun, monitorVars, fate>>

\* begin_transaction(): BEGIN and the thread's own state; the pool learns of
\* it in the next step.
Begin(t) ==
    /\ pc[t] = "ready" /\ op[t] = "begin"
    /\ IF local[t] \in open /\ local[t] \notin begun
       THEN /\ begun' = begun \cup {local[t]}
            /\ inTxn' = [inTxn EXCEPT ![t] = TRUE]
            /\ GoTo(t, "begun")
            /\ UNCHANGED caller
       ELSE Raise(t) /\ UNCHANGED <<begun, inTxn>>
    /\ UNCHANGED <<poolVars, alive, local, dbLock, monitorVars, fate>>

\* ... and _touch_pool(in_transaction=True), which is silent about a
\* connection that was closed in between.
BeginTouch(t) ==
    /\ pc[t] = "begun"
    /\ usage' = Touched(local[t], TRUE)
    /\ caller' = [caller EXCEPT ![t] = "open"]
    /\ Return(t)
    /\ UNCHANGED <<available, inUse, total, open, asleep, woken, alive, local,
                   inTxn, dbLock, begun, monitorVars, fate>>

\* commit() and rollback() with a transaction at depth 1: COMMIT or ROLLBACK
\* and the thread's own state.  On a closed connection both raise and leave
\* the state as it is.
EndTransaction(t) ==
    /\ pc[t] = "ready" /\ op[t] \in {"commit", "rollback"} /\ inTxn[t]
    /\ IF local[t] \in open
       THEN /\ begun' = begun \ {local[t]}
            /\ fate' = [fate EXCEPT ![t] = {}]
            /\ inTxn' = [inTxn EXCEPT ![t] = FALSE]
            /\ GoTo(t, "ended")
            /\ UNCHANGED caller
       ELSE Raise(t) /\ UNCHANGED <<begun, fate, inTxn>>
    /\ UNCHANGED <<poolVars, alive, local, dbLock, monitorVars>>

\* ... and _touch_pool(in_transaction=False).
EndTouch(t) ==
    /\ pc[t] = "ended"
    /\ usage' = Touched(local[t], FALSE)
    /\ GoTo(t, "release")
    /\ UNCHANGED <<available, inUse, total, open, asleep, woken, alive, local,
                   inTxn, dbLock, begun, monitorVars, caller, fate>>

\* commit() and rollback() at depth 0, after connect() forgot the transaction:
\* commit does nothing, rollback has nothing to undo, and both return with the
\* connection still checked out.
EndNothing(t) ==
    /\ pc[t] = "ready" /\ op[t] \in {"commit", "rollback"} /\ ~inTxn[t]
    /\ caller' = [caller EXCEPT ![t] = "none"]
    /\ fate' = [fate EXCEPT ![t] = {}]
    /\ Return(t)
    /\ UNCHANGED <<poolVars, alive, local, inTxn, dbLock, begun, monitorVars>>

\* commit() and rollback() return: the caller's transaction is over.
Ended(t) ==
    /\ Return(t)
    /\ caller' = [caller EXCEPT ![t] = IF op[t] = "execute" THEN @ ELSE "none"]

MutReleaseConn(t) ==
    /\ pc[t] = "release"
    /\ local' = [local EXCEPT ![t] = NoConn]
    /\ ReturnConnection(local[t], FALSE)
    /\ Ended(t)
    /\ UNCHANGED <<alive, inTxn, dbLock, begun, monitorVars, fate>>

MutKeepLocal(t) ==
    /\ pc[t] = "release"
    /\ IF inTxn[t] \/ local[t] \in begun
       THEN UNCHANGED poolVars
       ELSE ReturnConnection(local[t], FALSE)
    /\ Ended(t)
    /\ UNCHANGED <<alive, local, inTxn, dbLock, begun, monitorVars, fate>>

\* _release_conn(), the last step of a statement and of a transaction.  Inside
\* a transaction of the facade or of the driver the connection is kept; asking
\* a closed one whether it is in a transaction raises, and the thread keeps it
\* although its statement or its COMMIT is done.
ReleaseConn(t) ==
    /\ pc[t] = "release"
    /\ \/ /\ inTxn[t] \/ local[t] \in begun
          /\ Ended(t)
          /\ UNCHANGED <<poolVars, local>>
       \/ /\ ~inTxn[t] /\ local[t] \notin open
          /\ Raise(t)
          /\ UNCHANGED <<poolVars, local>>
       \/ /\ ~inTxn[t] /\ local[t] \in open \ begun
          /\ local' = [local EXCEPT ![t] = NoConn]
          /\ ReturnConnection(local[t], FALSE)
          /\ Ended(t)
    /\ UNCHANGED <<alive, inTxn, dbLock, begun, monitorVars, fate>>

\* close(): roll back, force-close the connection and clear the thread's state.
CloseLocal(t) ==
    /\ t \in alive /\ pc[t] = "idle" /\ local[t] # NoConn
    /\ ReturnConnection(local[t], TRUE)
    /\ begun' = begun \ {local[t]}
    /\ fate' = [fate EXCEPT ![t] = {}]
    /\ meta' = meta \ {local[t]} /\ stale' = stale \ {local[t]}
    /\ local' = [local EXCEPT ![t] = NoConn]
    /\ inTxn' = [inTxn EXCEPT ![t] = FALSE]
    /\ caller' = [caller EXCEPT ![t] = "none"]
    /\ UNCHANGED <<alive, callVars, dbLock, picked>>

-----------------------------------------------------------------------------
(* The monitor thread and time.                                            *)

\* reap_connections() finds metadata idle for longer than max_idle_time.
Pick(c) ==
    /\ picked = NoConn /\ c \in stale
    /\ picked' = c
    /\ UNCHANGED <<poolVars, alive, callVars, local, inTxn, dbLock, begun, meta,
                   stale, caller, fate>>

\* ... and force-closes that connection, whoever has it by now.
ClosePicked ==
    /\ picked # NoConn
    /\ ReturnConnection(picked, TRUE)
    /\ begun' = begun \ ({picked} \cap inUse)
    /\ fate' = Lost({picked} \cap inUse)
    /\ meta' = meta \ {picked} /\ stale' = stale \ {picked}
    /\ picked' = NoConn
    /\ UNCHANGED <<alive, callVars, local, inTxn, dbLock, caller>>

\* ... and calls pool.reap_idle() with the monitor's window.
ReapIdle ==
    LET R == Reclaimable(NoThread, Abandoned)
    IN /\ R # {}
       /\ Reap(R)
       /\ Closing(R)
       /\ UNCHANGED <<alive, callVars, local, inTxn, dbLock, picked, caller>>

TimePasses(c) ==
    /\ Age(c)
    /\ UNCHANGED <<alive, callVars, local, inTxn, dbLock, begun, monitorVars,
                   caller, fate>>

\* Metadata gets older than max_idle_time, which is longer than the windows of
\* the pool.
MetadataAges(c) ==
    /\ "metadata" \in Faults
    /\ c \in meta \ stale
    /\ c \in inUse => usage[c].idle = Abandoned
    /\ stale' = stale \cup {c}
    /\ UNCHANGED <<poolVars, alive, callVars, local, inTxn, dbLock, begun, meta,
                   picked, caller, fate>>

ThreadStep(t) ==
    \/ Healthy(t) \/ Touch(t) \/ Evict(t) \/ NotConnected(t)
    \/ Lock(t) \/ Sleep(t) \/ Connect(t) \/ ConnectWoken(t) \/ Timeout(t)
    \/ CreateFails(t)
    \/ StartStatement(t) \/ RunStatement(t) \/ StatementFails(t) \/ AutoCommit(t)
    \/ Begin(t) \/ BeginTouch(t) \/ EndTransaction(t) \/ EndTouch(t)
    \/ EndNothing(t) \/ ReleaseConn(t)

Next ==
    \/ \E t \in Thread :
          \/ \E o \in {"execute", "begin", "commit", "rollback"} : Call(t, o)
          \/ Exit(t) \/ Spawn(t) \/ CloseLocal(t) \/ WaitEnds(t) \/ ThreadStep(t)
    \/ \E c \in Conn : Pick(c) \/ TimePasses(c) \/ MetadataAges(c)
    \/ ClosePicked \/ ReapIdle

Spec == Init /\ [][Next]_vars

\* Threads inside a call run on; Database._lock is granted to a thread that
\* keeps asking; a wait has an absolute deadline; the monitor keeps ticking.
Fairness ==
    /\ \A t \in Thread : /\ WF_vars(ThreadStep(t)) /\ WF_vars(WaitEnds(t))
                         /\ SF_vars(Lock(t)) /\ SF_vars(Timeout(t))
    /\ \A c \in Conn : WF_vars(TimePasses(c))
    /\ WF_vars(ClosePicked) /\ WF_vars(ReapIdle)

FairSpec == Spec /\ Fairness
=============================================================================
