--------------------------- MODULE SessionManager ---------------------------
(***************************************************************************)
(* The gateway's session manager (src/src/api/websocket/session.py) with   *)
(* the part of Connection (connection.py) it writes: the connections and   *)
(* resumable sessions each worker process holds in memory, and the keys it *)
(* keeps in Valkey, which every worker shares.                             *)
(*                                                                         *)
(* Every worker runs its handlers on one event loop, so the code between   *)
(* two awaits is atomic.  The operations below are such stretches: they    *)
(* constrain the primed values of this module's variables only, and        *)
(* Gateway.tla conjoins them with the handler that calls them.             *)
(***************************************************************************)
EXTENDS Integers, Sequences, FiniteSets, SequencesExt

CONSTANTS
    Worker,           \* worker processes
    User,             \* accounts
    NoOne,            \* "no user", "no worker"
    MaxConn,          \* how many connections are ever accepted (bound)
    MaxEvent,         \* how many events are ever published (bound)
    MaxReplay,        \* Session.max_replay_events
    MaxConnsPerUser,  \* SessionManager._max_connections_per_user
    ValkeyAvailable,  \* valkey_available()
    Faults            \* which of "token" (token checks that fail), "idle"
                      \* (sessions idle for the timeout), "ttl" (the safety
                      \* TTLs of the registry) and "lost" (clients that
                      \* vanish without closing) happen (bound)

\* Connection ids are random; they are named here in the order of acceptance.
Conn == 1 .. MaxConn

\* A connection identifies at most once, so a session can be named after the
\* connection whose IDENTIFY created it.
Session == Conn

Event == 1 .. MaxEvent

None == 0   \* no connection, no session, no sequence number, no event

ASSUME SessionManagerAssumption ==
    /\ Worker # {} /\ User # {}
    /\ NoOne \notin Worker /\ NoOne \notin User
    /\ MaxConn \in Nat \ {0} /\ MaxEvent \in Nat
    /\ MaxReplay \in Nat \ {0} /\ MaxConnsPerUser \in Nat \ {0}
    /\ ValkeyAvailable \in BOOLEAN
    /\ Faults \subseteq {"token", "idle", "ttl", "lost"}

\* A gateway frame: its type, its sequence number, the session whose stream
\* it belongs to and the event it carries.  Only READY shows the session id
\* to the client.
Frame == {f \in [t : {"READY", "RESUMED", "INVALID_SESSION", "EVENT"}, s : Nat,
                 sess : Session \cup {None}, e : Event \cup {None}] :
             /\ f.sess = None <=> f.t = "INVALID_SESSION"
             /\ f.e # None <=> f.t = "EVENT"}

\* The frames that have a number and are buffered for replay.
Numbered == {f \in Frame : f.t \in {"READY", "EVENT"}}

\* A Session object; held is FALSE where the worker (or Valkey) has none.
\* fresh stands for "now - last_activity_epoch <= session timeout".
SessionCopy == [held : BOOLEAN, user : User \cup {NoOne}, sequence : Nat,
                conn : Conn \cup {None}, replay : Seq(Numbered), fresh : BOOLEAN]

NoCopy == [held |-> FALSE, user |-> NoOne, sequence |-> 0, conn |-> None,
           replay |-> <<>>, fresh |-> FALSE]

VARIABLES
    home,        \* the worker that accepted a connection
    state,       \* Connection.state
    cuser,       \* Connection.user_id
    csess,       \* Connection.session_id
    cseq,        \* Connection.sequence
    registered,  \* the ids in SessionManager._connections, over all workers
    userConns,   \* the ids in SessionManager._user_connections
    sessions,    \* SessionManager._sessions of each worker
    shared,      \* Valkey gateway:session:<id>
    members,     \* Valkey user:<id>:connections (24 h TTL)
    info,        \* Valkey conn:<id>:info exists (1 h TTL)
    total        \* Valkey stats:total_connections

connectionVars == <<home, state, cuser, csess, cseq>>
managerVars    == <<registered, userConns, sessions>>
valkeyVars     == <<shared, members, info, total>>
sessionVars    == <<connectionVars, managerVars, valkeyVars>>

States == {"new", "connected", "ready", "disconnecting", "disconnected"}

SessionTypeOK ==
    /\ home \in [Conn -> Worker \cup {NoOne}]
    /\ state \in [Conn -> States]
    /\ cuser \in [Conn -> User \cup {NoOne}]
    /\ csess \in [Conn -> Session \cup {None}]
    /\ cseq \in [Conn -> Nat]
    /\ registered \in SUBSET Conn
    /\ userConns \in SUBSET Conn
    /\ sessions \in [Worker -> [Session -> SessionCopy]]
    /\ shared \in [Session -> SessionCopy]
    /\ members \in SUBSET Conn
    /\ info \in SUBSET Conn
    /\ total \in Int

SessionInit ==
    /\ home = [c \in Conn |-> NoOne]
    /\ state = [c \in Conn |-> "new"]
    /\ cuser = [c \in Conn |-> NoOne]
    /\ csess = [c \in Conn |-> None]
    /\ cseq = [c \in Conn |-> 0]
    /\ registered = {} /\ userConns = {}
    /\ sessions = [w \in Worker |-> [s \in Session |-> NoCopy]]
    /\ shared = [s \in Session |-> NoCopy]
    /\ members = {} /\ info = {} /\ total = 0

-----------------------------------------------------------------------------
(* Reading                                                                 *)

Larger(m, n) == IF m > n THEN m ELSE n

\* Connection.is_authenticated
IsAuthenticated(c) == cuser[c] # NoOne /\ state[c] = "ready"

\* The test of send_json, _message_loop and _heartbeat_monitor.
Closing(c) == state[c] \in {"disconnecting", "disconnected"}

\* _load_shared_session: Valkey never says which connection held a session.
Hydrated(s) == [shared[s] EXCEPT !.conn = None, !.fresh = shared[s].held]

\* get_session: the local copy, or else the one in Valkey.
GetSession(w, s) == IF sessions[w][s].held THEN sessions[w][s] ELSE Hydrated(s)

\* The test can_resume_session makes of the copy it found.
CanResume(w, s, u) ==
    LET found == GetSession(w, s)
    IN  found.held /\ found.user = u /\ found.fresh

\* get_user_connection_count: the global set where Valkey is available.
ConnectionCount(w, u) ==
    Cardinality({c \in Conn : cuser[c] = u
                              /\ IF ValkeyAvailable
                                 THEN c \in members
                                 ELSE c \in userConns /\ home[c] = w})

CanUserConnect(w, u) == ConnectionCount(w, u) < MaxConnsPerUser

\* The frames numbered above n, in their order.
FramesAfter(frames, n) ==
    LET kept[i \in 0 .. Len(frames)] ==
            IF i = 0 THEN <<>>
            ELSE IF frames[i].s > n THEN Append(kept[i-1], frames[i]) ELSE kept[i-1]
    IN  kept[Len(frames)]

\* Session.get_replay_events; the mutant is off by one.
MutMissed(copy, seq) == FramesAfter(copy.replay, seq + 1)
Missed(copy, seq) == FramesAfter(copy.replay, seq)

\* get_connections_for_users on worker w
ConnectionsFor(w, us) ==
    {c \in userConns \cap registered :
        home[c] = w /\ cuser[c] \in us /\ IsAuthenticated(c)}

-----------------------------------------------------------------------------
(* Writing                                                                 *)

\* Mutant: the shared copy is saved when the session is created and never again.
MutPersisted(s, copy) ==
    IF ValkeyAvailable /\ ~ shared[s].held
    THEN [copy EXCEPT !.conn = None, !.fresh = TRUE]
    ELSE shared[s]

\* _persist_session: what Valkey holds of a session once copy is saved.
Persisted(s, copy) ==
    IF ValkeyAvailable
    THEN [copy EXCEPT !.conn = None, !.fresh = TRUE]
    ELSE shared[s]

\* Session.add_replay_event evicts the oldest frames beyond the limit.
Latest(frames) ==
    IF Len(frames) > MaxReplay
    THEN SubSeq(frames, Len(frames) - MaxReplay + 1, Len(frames))
    ELSE frames

\* record_event for each of the frames in turn: buffered, the sequence
\* raised, the activity refreshed.
Recorded(copy, frames) ==
    [copy EXCEPT
        !.replay = Latest(@ \o frames),
        !.sequence = Max({@} \cup {frames[i].s : i \in DOMAIN frames}),
        !.fresh = TRUE]

\* record_event on worker w, where new maps each session to the frames built
\* for it.  A session the worker cannot find is left alone.
RecordEvents(w, new) ==
    LET changed == {s \in Session : new[s] # <<>> /\ GetSession(w, s).held}
        after(s) == Recorded(GetSession(w, s), new[s])
    IN  /\ sessions' = [sessions EXCEPT ![w] =
                [s \in Session |-> IF s \in changed THEN after(s) ELSE @[s]]]
        /\ shared' = [s \in Session |->
                IF s \in changed THEN Persisted(s, after(s)) ELSE shared[s]]

\* _valkey_register_connection.  The TTLs it sets run out in InfoExpires and
\* MembersExpire.
Register(c) ==
    IF ValkeyAvailable
    THEN members' = members \cup {c} /\ info' = info \cup {c} /\ total' = total + 1
    ELSE UNCHANGED <<members, info, total>>

\* add_connection: the user is not known yet, so Valkey is not told.
AddConnection(c, w) ==
    /\ home' = [home EXCEPT ![c] = w]
    /\ state' = [state EXCEPT ![c] = "connected"]
    /\ registered' = registered \cup {c}
    /\ UNCHANGED <<cuser, csess, cseq, userConns, sessions, valkeyVars>>

\* create_session, with Connection.set_identified.
CreateSession(c, u) ==
    LET w == home[c]
        created == [NoCopy EXCEPT !.held = TRUE, !.user = u, !.conn = c, !.fresh = TRUE]
    IN  /\ sessions' = [sessions EXCEPT ![w][c] = created]
        /\ shared' = [shared EXCEPT ![c] = Persisted(c, created)]
        /\ userConns' = userConns \cup {c}
        /\ Register(c)
        /\ cuser' = [cuser EXCEPT ![c] = u]
        /\ csess' = [csess EXCEPT ![c] = c]
        /\ state' = [state EXCEPT ![c] = "ready"]
        /\ UNCHANGED <<home, cseq, registered>>

\* Mutants: the client's number wins; one number is skipped.
MutResumedSequence(found, seq) == seq
MutSkippedSequence(found, seq) == Larger(found.sequence, seq) + 1

\* Neither the session nor the client is moved backwards.
ResumedSequence(found, seq) == Larger(found.sequence, seq)

\* Mutant: the old connection is left as it is.
MutHeldHere(old, w) == FALSE

\* The old connection is in this worker's _connections.
HeldHere(old, w) == old \in registered /\ home[old] = w

\* Mutant: the old member goes with the cleanup of a connection only.
MutDroppedMember(c, old, w) == IF old \notin {None, c} /\ home[old] # w THEN {old} ELSE {}

\* _valkey_drop_connection_member: the old member leaves the user's global
\* set if the conn:<id>:info hash, or else this worker's own id, names the
\* worker that added it.
DroppedMember(c, old, w) ==
    IF old \notin {None, c} /\ (old \in info \/ home[old] = w) THEN {old} ELSE {}

\* resume_session on the worker of c, with Connection.set_identified.
ResumeSession(c, s, seq) ==
    LET w     == home[c]
        found == GetSession(w, s)
        old   == found.conn
        resumed == [found EXCEPT !.conn = c, !.sequence = ResumedSequence(found, seq),
                                 !.fresh = TRUE]
    IN  /\ state' = [d \in Conn |-> IF d = c THEN "ready"
                                    ELSE IF d = old /\ HeldHere(d, w) THEN "disconnected"
                                    ELSE state[d]]
        /\ sessions' = [sessions EXCEPT ![w][s] = resumed]
        /\ shared' = [shared EXCEPT ![s] = Persisted(s, resumed)]
        /\ userConns' = {d \in userConns : ~ (d = old /\ home[d] = w)} \cup {c}
        /\ cuser' = [cuser EXCEPT ![c] = found.user]
        /\ csess' = [csess EXCEPT ![c] = s]
        /\ cseq' = [cseq EXCEPT ![c] = resumed.sequence]
        /\ IF ValkeyAvailable
           THEN /\ members' = (members \cup {c}) \ DroppedMember(c, old, w)
                /\ info' = info \cup {c}
                /\ total' = total + 1
           ELSE UNCHANGED <<members, info, total>>
        /\ UNCHANGED <<home, registered>>

\* What a refused can_resume_session leaves behind: an expired session is
\* removed here and in Valkey, one of another user stays as hydrated.
RefuseSession(w, s, u) ==
    LET found   == GetSession(w, s)
        expired == found.held /\ found.user = u /\ ~ found.fresh
    IN  /\ sessions' = [sessions EXCEPT ![w][s] = IF expired THEN NoCopy ELSE found]
        /\ shared' = [shared EXCEPT ![s] = IF expired THEN NoCopy ELSE @]

\* Mutant: only a connection that is still ready is removed.
MutRemoveConnection(c) ==
    IF state[c] = "ready"
    THEN /\ registered' = registered \ {c} /\ userConns' = userConns \ {c}
         /\ members' = members \ {c} /\ info' = info \ {c} /\ total' = total - 1
    ELSE UNCHANGED <<registered, userConns, members, info, total>>

\* Mutant: a connection whose member a RESUME dropped is not unregistered.
MutUnregister(c) ==
    IF ValkeyAvailable /\ c \in members
    THEN members' = members \ {c} /\ info' = info \ {c} /\ total' = total - 1
    ELSE UNCHANGED <<members, info, total>>

\* _valkey_unregister_connection
Unregister(c) ==
    IF ValkeyAvailable
    THEN members' = members \ {c} /\ info' = info \ {c} /\ total' = total - 1
    ELSE UNCHANGED <<members, info, total>>

\* remove_connection: only a connection that had a user is in Valkey.
RemoveConnection(c) ==
    /\ registered' = registered \ {c}
    /\ userConns' = userConns \ {c}
    /\ IF cuser[c] # NoOne THEN Unregister(c) ELSE UNCHANGED <<members, info, total>>

-----------------------------------------------------------------------------
(* Time                                                                    *)

\* More than the session timeout has passed since worker w last recorded
\* activity in its copy of s.
CopyExpires(w, s) ==
    /\ "idle" \in Faults
    /\ sessions[w][s].held /\ sessions[w][s].fresh
    /\ sessions' = [sessions EXCEPT ![w][s].fresh = FALSE]
    /\ UNCHANGED <<connectionVars, registered, userConns, valkeyVars>>

\* The TTL of gateway:session:<id>, renewed whenever a worker's copy is,
\* runs out.
SharedExpires(s) ==
    /\ "idle" \in Faults
    /\ shared[s].held
    /\ \A w \in Worker : ~ (sessions[w][s].held /\ sessions[w][s].fresh)
    /\ shared' = [shared EXCEPT ![s] = NoCopy]
    /\ UNCHANGED <<connectionVars, managerVars, members, info, total>>

\* The hour of conn:<id>:info, set at registration and never renewed, is over.
InfoExpires(c) ==
    /\ "ttl" \in Faults /\ c \in info
    /\ info' = info \ {c}
    /\ UNCHANGED <<connectionVars, managerVars, shared, members, total>>

\* Twenty-four hours after the last registration of user u its set of
\* connections goes, the connections that are still open included.  By then
\* the hour of each of its connections is over.
MembersExpire(u) ==
    /\ "ttl" \in Faults
    /\ \A c \in info : cuser[c] # u
    /\ members' = {c \in members : cuser[c] # u}
    /\ members' # members
    /\ UNCHANGED <<connectionVars, managerVars, shared, info, total>>

\* A worker process dies: its memory goes, what it kept in Valkey stays.
LoseWorker(w) ==
    LET dead == {c \in Conn : home[c] = w}
    IN  /\ state' = [c \in Conn |-> IF c \in dead THEN "disconnected" ELSE state[c]]
        /\ registered' = registered \ dead
        /\ userConns' = userConns \ dead
        /\ sessions' = [sessions EXCEPT ![w] = [s \in Session |-> NoCopy]]
        /\ UNCHANGED <<home, cuser, csess, cseq, valkeyVars>>
=============================================================================
