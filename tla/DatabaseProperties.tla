------------------------- MODULE DatabaseProperties -------------------------
(***************************************************************************)
(* What the pool and the facade promise (ConnectionPool.tla, Database.tla). *)
(***************************************************************************)
EXTENDS Database

\* The type invariant; the pool never counts more than MaxSize connections.
TypeOK ==
    /\ available \in SUBSET Conn /\ inUse \in SUBSET Conn /\ open \in SUBSET Conn
    /\ usage \in [Conn -> Usage]
    /\ total \in 0 .. MaxSize
    /\ asleep \in SUBSET Thread /\ woken \in SUBSET Thread /\ alive \in SUBSET Thread
    /\ pc \in [Thread -> {"idle", "getconn", "touch", "lock", "pool", "wait",
                          "ready", "exec", "commit", "begun", "ended", "release"}]
    /\ op \in [Thread -> {"none", "execute", "begin", "commit", "rollback"}]
    /\ attempt \in [Thread -> 0 .. MaxAttempts - 1]
    /\ local \in [Thread -> Conn \cup {NoConn}]
    /\ inTxn \in [Thread -> BOOLEAN]
    /\ dbLock \in Thread \cup {NoThread}
    /\ begun \in SUBSET Conn /\ meta \in SUBSET Conn /\ stale \in SUBSET Conn
    /\ picked \in Conn \cup {NoConn}
    /\ caller \in [Thread -> {"none", "open", "failed"}]
    /\ fate \in [Thread -> SUBSET {"pending", "committed", "lost"}]

\* The pool's books are exact through reaping, late returns of reclaimed
\* connections and force-closes: every open connection is either idle in the
\* pool or checked out, never both, and _total_created counts them.
PoolExact ==
    /\ open = available \cup inUse
    /\ available \cap inUse = {}
    /\ total = Cardinality(available) + Cardinality(inUse)

\* A connection a thread would use is its own: if the one in its thread-local
\* storage is open, then the pool has it checked out to that thread, so no
\* other thread can be given it.
OneHolder ==
    \A t \in Thread : local[t] \in open =>
        local[t] \in inUse /\ usage[local[t]].owner = t

\* No lost wake-up: a thread sleeps in get_connection only while there is
\* neither an idle connection nor room for a new one.
SleepsOnlyWhenFull == asleep # {} => ~Free

\* A connection the pool hands out carries no transaction of its last user
\* (_release_conn: the pool must not hand that connection to another thread).
PooledIsClean == available \cap begun = {}

\* What the reaper decides by: of the connection a thread would use, if it is
\* open, the facade (_local.in_transaction) and the driver agree on whether a
\* transaction is open in it; the pool's flag says the same except between
\* BEGIN, COMMIT or ROLLBACK and the _touch_pool() that follows, when it still
\* says what was true before; and the in-flight flag tells whether a statement
\* runs.  All that through reconnects that forget the transaction, calls that
\* raise half-way and identities that are used again.
FlagsAgree ==
    \A t \in Thread : local[t] \in open =>
        /\ inTxn[t] <=> local[t] \in begun
        /\ usage[local[t]].txn <=> (inTxn[t] /\ pc[t] # "begun") \/ pc[t] = "ended"
        /\ usage[local[t]].flight <=> pc[t] = "exec"

\* The step does not close the connection of thread t, unless t gives it up or
\* the monitor closes it for what its own metadata says.
Spared(t) ==
    local'[t] = local[t] /\ picked' = picked => local[t] \in open'

\* A live thread's transaction that was used within the grace window.
LiveTransaction(t) ==
    t \in alive /\ local[t] \in begun /\ usage[local[t]].idle < Abandoned

\* The reapers of the pool, on exhaustion and from the monitor, close no
\* connection under a running statement (_reap_idle_unlocked: "NEVER reclaimed
\* regardless of idle time") and, once the pool has been told of it, no live
\* thread's transaction within the grace window; before that, none that was
\* used within the reclaim window.
LiveWorkSurvives ==
    [][\A t \in Thread :
          /\ pc[t] = "exec" /\ local[t] \in open => Spared(t)
          /\ LiveTransaction(t) /\ pc[t] # "begun" => Spared(t)
          /\ LiveTransaction(t) /\ usage[local[t]].idle < Idle => Spared(t)]_vars

\* Every call returns or raises: reconnecting, retrying and waiting for the
\* pool end, although connect() holds Database._lock while it waits.
CallsReturn == \A t \in Thread : pc[t] # "idle" ~> pc[t] = "idle"

\* A connection whose thread is gone.
Leaked(c) == c \in inUse /\ \A t \in Thread : local[t] # c

\* The capacity a dead thread took comes back, even when it died inside a
\* transaction and its identifier belongs to a live thread again.
LeakIsReclaimed == \A c \in Conn : Leaked(c) ~> c \notin inUse

\* A transaction is all or nothing: its writes are never partly persisted and
\* partly rolled back.
TransactionsAreWhole ==
    \A t \in Thread : ~({"committed", "lost"} \subseteq fate[t])
=============================================================================
