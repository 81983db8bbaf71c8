------------------------------ MODULE Gateway ------------------------------
(***************************************************************************)
(* The WebSocket gateway (src/src/api/websocket): the endpoint and message *)
(* loop of each connection, its heartbeat monitor, the IDENTIFY and RESUME *)
(* handlers, the dispatcher, and the documented client, which keeps the    *)
(* last number it received and resumes with it.  SessionManager.tla holds  *)
(* the sessions.                                                           *)
(*                                                                         *)
(* One step is what a coroutine does between two awaits.                   *)
(***************************************************************************)
EXTENDS SessionManager

CONSTANTS
    Tab,        \* client applications, each with at most one socket at a time
    UserOf,     \* the account a tab is logged in to
    RateLimit,  \* GatewayDispatcher._rate_limit_per_minute
    MaxCrash    \* how many times worker processes die (bound)

ASSUME GatewayAssumption ==
    /\ UserOf \in [Tab -> User]
    /\ RateLimit \in Nat \ {0} /\ MaxCrash \in Nat

VARIABLES
    pc,        \* where the endpoint coroutine of a connection is
    mon,       \* its heartbeat monitor
    sock,      \* its socket, as seen by the server
    req,       \* the client's handshake frame, until it is answered
    tasks,     \* sends the dispatcher has scheduled and that have not started
    wire,      \* frames written and not yet received by the client
    replayq,   \* frames replay_events has still to send
    sent,      \* Connection.event_count
    presence,  \* the persisted presence status of a user
    cursor,    \* how many published events a worker has dispatched
    tconn,     \* the connection a tab uses
    tsess,     \* the session id a tab holds
    tseq,      \* the last sequence number a tab received
    got,       \* the events a tab received
    numbered,  \* history: every number ever given, with its event
    crashes    \* how many crashes happened

loopVars   == <<pc, mon>>
socketVars == <<sock, req, wire>>
sendVars   == <<tasks, replayq, sent>>
clientVars == <<tconn, tsess, tseq, got>>
eventVars  == <<presence, cursor, numbered, crashes>>
vars == <<sessionVars, loopVars, socketVars, sendVars, clientVars, eventVars>>

\* A handshake frame: the user its token stands for, the session and the
\* number to resume from.
Request == {r \in [op : {"none", "identify", "resume"}, user : User \cup {NoOne},
                   sess : Session \cup {None}, seq : Nat] :
               /\ r.user = NoOne <=> r.op = "none"
               /\ r.sess # None <=> r.op = "resume"}

NoRequest == [op |-> "none", user |-> NoOne, sess |-> None, seq |-> 0]
Identify(u) == [op |-> "identify", user |-> u, sess |-> None, seq |-> 0]
Resume(u, s, n) == [op |-> "resume", user |-> u, sess |-> s, seq |-> n]

Steps == {"none", "receive", "identify", "presence", "ready", "resume",
          "resumed", "replay", "exit", "done"}

Numbering == [sess : Session, n : Nat, e : Event \cup {None}]

TypeOK ==
    /\ SessionTypeOK
    /\ pc \in [Conn -> Steps]
    /\ mon \in [Conn -> {"off", "watch", "closing"}]
    /\ sock \in [Conn -> {"none", "open", "lost", "closed"}]
    /\ req \in [Conn -> Request]
    /\ tasks \in [Conn -> Seq(Numbered)]
    /\ wire \in [Conn -> Seq(Frame)]
    /\ replayq \in [Conn -> Seq(Numbered)]
    /\ sent \in [Conn -> 0 .. RateLimit]
    /\ presence \in [User -> {"offline", "online"}]
    /\ cursor \in [Worker -> 0 .. MaxEvent]
    /\ tconn \in [Tab -> Conn \cup {None}]
    /\ tsess \in [Tab -> Session \cup {None}]
    /\ tseq \in [Tab -> Nat]
    /\ got \in [Tab -> SUBSET Event]
    /\ numbered \in SUBSET Numbering
    /\ crashes \in 0 .. MaxCrash

Init ==
    /\ SessionInit
    /\ pc = [c \in Conn |-> "none"]
    /\ mon = [c \in Conn |-> "off"]
    /\ sock = [c \in Conn |-> "none"]
    /\ req = [c \in Conn |-> NoRequest]
    /\ tasks = [c \in Conn |-> <<>>]
    /\ wire = [c \in Conn |-> <<>>]
    /\ replayq = [c \in Conn |-> <<>>]
    /\ sent = [c \in Conn |-> 0]
    /\ presence = [u \in User |-> "offline"]
    /\ cursor = [w \in Worker |-> 0]
    /\ tconn = [t \in Tab |-> None]
    /\ tsess = [t \in Tab |-> None]
    /\ tseq = [t \in Tab |-> 0]
    /\ got = [t \in Tab |-> {}]
    /\ numbered = {}
    /\ crashes = 0

-----------------------------------------------------------------------------
(* The client                                                              *)

\* The tab opens a socket on some worker; the endpoint accepts it, registers
\* the connection and starts its monitor; the tab answers HELLO with RESUME
\* if it holds a session, else with IDENTIFY.
Connect(t, c, w) ==
    /\ tconn[t] = None
    /\ pc[c] = "none" /\ \A d \in Conn : d < c => pc[d] # "none"
    /\ AddConnection(c, w)
    /\ pc' = [pc EXCEPT ![c] = "receive"]
    /\ mon' = [mon EXCEPT ![c] = "watch"]
    /\ sock' = [sock EXCEPT ![c] = "open"]
    /\ req' = [req EXCEPT ![c] = IF tsess[t] # None
                                 THEN Resume(UserOf[t], tsess[t], tseq[t])
                                 ELSE Identify(UserOf[t])]
    /\ tconn' = [tconn EXCEPT ![t] = c]
    /\ UNCHANGED <<wire, sendVars, tsess, tseq, got, eventVars>>

\* The tab takes the next frame off its socket.  It keeps any number the
\* frame has, the session id of READY, and identifies anew when its session
\* is refused.
Receive(t) ==
    LET c == tconn[t]
        f == Head(wire[c])
    IN  /\ c # None /\ wire[c] # <<>>
        /\ wire' = [wire EXCEPT ![c] = Tail(@)]
        /\ tseq' = [tseq EXCEPT ![t] = IF f.s # 0 THEN f.s ELSE @]
        /\ tsess' = [tsess EXCEPT ![t] = IF f.t = "READY" THEN f.sess
                                         ELSE IF f.t = "INVALID_SESSION" THEN None
                                         ELSE @]
        /\ req' = [req EXCEPT ![c] = IF f.t = "INVALID_SESSION" THEN Identify(UserOf[t]) ELSE @]
        /\ got' = [got EXCEPT ![t] = IF f.t = "EVENT" THEN @ \cup {f.e} ELSE @]
        /\ UNCHANGED <<sessionVars, loopVars, sock, sendVars, tconn, eventVars>>

\* The tab is done with its socket: it closed it or saw it break ("closed"),
\* or it vanished and the server cannot tell yet ("lost").
Leave(t, how) ==
    LET c == tconn[t]
    IN  /\ c # None /\ (how = "lost" => "lost" \in Faults)
        /\ sock' = [sock EXCEPT ![c] = IF @ = "open" THEN how ELSE @]
        /\ wire' = [wire EXCEPT ![c] = <<>>]
        /\ tconn' = [tconn EXCEPT ![t] = None]
        /\ UNCHANGED <<sessionVars, loopVars, req, sendVars, tsess, tseq, got, eventVars>>

\* The server closed the socket and the tab has read all of it.
SeeClose(t) ==
    /\ tconn[t] # None
    /\ sock[tconn[t]] = "closed" /\ wire[tconn[t]] = <<>>
    /\ Leave(t, "closed")

\* The transport notices that the client of a socket is gone.
NoticeLoss(c) ==
    /\ sock[c] = "lost"
    /\ sock' = [sock EXCEPT ![c] = "closed"]
    /\ UNCHANGED <<sessionVars, loopVars, req, wire, sendVars, clientVars, eventVars>>

-----------------------------------------------------------------------------
(* The message loop and its handlers                                       *)

\* send_json gives up on a closing connection; otherwise the frame is
\* written, which reaches the client only on an open socket.
Written(c, f) ==
    IF ~ Closing(c) /\ sock[c] = "open" THEN [wire EXCEPT ![c] = Append(@, f)] ELSE wire

\* The test at the head of the loop, once a frame has been dealt with.
NextRead(c) == IF Closing(c) THEN "exit" ELSE "receive"

\* The loop reads a handshake frame; the handler awaits the token check.
ReceiveRequest(c) ==
    /\ pc[c] = "receive" /\ req[c].op # "none" /\ state[c] # "ready"
    /\ pc' = [pc EXCEPT ![c] = req[c].op]
    /\ UNCHANGED <<sessionVars, mon, socketVars, sendVars, clientVars, eventVars>>

\* _close_connection awaited by the loop, which then returns.
CloseAndExit(c) ==
    /\ state' = [state EXCEPT ![c] = "disconnected"]
    /\ sock' = [sock EXCEPT ![c] = "closed"]
    /\ pc' = [pc EXCEPT ![c] = "exit"]
    /\ req' = [req EXCEPT ![c] = NoRequest]

\* handle_identify refuses: the token check failed (4004) or the user has
\* too many connections (4008).
IdentifyRefused(c) ==
    /\ pc[c] = "identify"
    /\ "token" \in Faults \/ ~ CanUserConnect(home[c], req[c].user)
    /\ CloseAndExit(c)
    /\ UNCHANGED <<home, cuser, csess, cseq, managerVars, valkeyVars, mon, wire,
                   sendVars, clientVars, eventVars>>

\* handle_identify once the token is good: the connection count is checked
\* and the session created with no await in between.
IdentifyVerified(c) ==
    /\ pc[c] = "identify"
    /\ CanUserConnect(home[c], req[c].user)
    /\ CreateSession(c, req[c].user)
    /\ pc' = [pc EXCEPT ![c] = "presence"]
    /\ req' = [req EXCEPT ![c] = NoRequest]
    /\ UNCHANGED <<mon, sock, wire, sendVars, clientVars, eventVars>>

\* _dispatch_online_presence, after the READY payload is built: only an
\* offline user is promoted.
PresenceOnline(c) ==
    /\ pc[c] = "presence"
    /\ presence' = [presence EXCEPT ![cuser[c]] = "online"]
    /\ pc' = [pc EXCEPT ![c] = "ready"]
    /\ UNCHANGED <<sessionVars, mon, socketVars, sendVars, clientVars, cursor,
                   numbered, crashes>>

\* The end of handle_identify: READY takes the next number, is recorded and
\* written.  It overtakes sends that are scheduled and have not started.
SendReady(c) ==
    LET f == [t |-> "READY", s |-> cseq[c] + 1, sess |-> csess[c], e |-> None]
    IN  /\ pc[c] = "ready"
        /\ cseq' = [cseq EXCEPT ![c] = @ + 1]
        /\ RecordEvents(home[c], [s \in Session |-> IF s = csess[c] THEN <<f>> ELSE <<>>])
        /\ numbered' = numbered \cup {[sess |-> csess[c], n |-> cseq[c] + 1, e |-> None]}
        /\ wire' = Written(c, f)
        /\ pc' = [pc EXCEPT ![c] = NextRead(c)]
        /\ UNCHANGED <<home, state, cuser, csess, registered, userConns, members, info,
                       total, mon, sock, req, sendVars, clientVars, presence, cursor, crashes>>

\* INVALID_SESSION has no sequence number.
InvalidSession == [t |-> "INVALID_SESSION", s |-> 0, sess |-> None, e |-> None]

\* Mutant: nothing is answered.
MutRefuse(c) ==
    /\ pc' = [pc EXCEPT ![c] = NextRead(c)]
    /\ req' = [req EXCEPT ![c] = NoRequest]
    /\ UNCHANGED <<connectionVars, registered, userConns, members, info, total, mon,
                   sock, wire, sendVars, clientVars, eventVars>>

\* A refused RESUME is answered and the loop goes on.
Refuse(c) ==
    /\ wire' = Written(c, InvalidSession)
    /\ pc' = [pc EXCEPT ![c] = NextRead(c)]
    /\ req' = [req EXCEPT ![c] = NoRequest]
    /\ UNCHANGED <<connectionVars, registered, userConns, members, info, total, mon,
                   sock, sendVars, clientVars, eventVars>>

\* handle_resume with a token that is refused.
ResumeUnauthorized(c) ==
    /\ pc[c] = "resume" /\ "token" \in Faults
    /\ Refuse(c)
    /\ UNCHANGED <<sessions, shared>>

\* handle_resume where can_resume_session says no.
ResumeRejected(c) ==
    /\ pc[c] = "resume"
    /\ ~ CanResume(home[c], req[c].sess, req[c].user)
    /\ RefuseSession(home[c], req[c].sess, req[c].user)
    /\ Refuse(c)

\* handle_resume where it says yes: the session is taken over and RESUMED
\* written with the session's number, before any missed frame.
ResumeAccepted(c) ==
    /\ pc[c] = "resume"
    /\ CanResume(home[c], req[c].sess, req[c].user)
    /\ ResumeSession(c, req[c].sess, req[c].seq)
    /\ wire' = IF sock[c] = "open"
               THEN [wire EXCEPT ![c] = Append(@, [t |-> "RESUMED", s |-> cseq'[c],
                                                   sess |-> req[c].sess, e |-> None])]
               ELSE wire
    /\ pc' = [pc EXCEPT ![c] = "resumed"]
    /\ UNCHANGED <<mon, sock, req, sendVars, clientVars, eventVars>>

\* replay_events takes the buffered frames after the client's number; it
\* runs once the RESUMED frame is written.
ReplayStart(c) ==
    LET copy   == GetSession(home[c], csess[c])
        missed == Missed(copy, req[c].seq)
    IN  /\ pc[c] = "resumed"
        /\ sessions' = [sessions EXCEPT ![home[c]][csess[c]] = copy]
        /\ replayq' = [replayq EXCEPT ![c] = missed]
        /\ pc' = [pc EXCEPT ![c] = IF missed = <<>> THEN NextRead(c) ELSE "replay"]
        /\ req' = [req EXCEPT ![c] = NoRequest]
        /\ UNCHANGED <<connectionVars, registered, userConns, valkeyVars, mon, sock, wire,
                       tasks, sent, clientVars, eventVars>>

\* The next of them is sent.
ReplaySend(c) ==
    /\ pc[c] = "replay"
    /\ wire' = Written(c, Head(replayq[c]))
    /\ replayq' = [replayq EXCEPT ![c] = Tail(@)]
    /\ pc' = [pc EXCEPT ![c] = IF Tail(replayq[c]) = <<>> THEN NextRead(c) ELSE "replay"]
    /\ UNCHANGED <<sessionVars, mon, sock, req, tasks, sent, clientVars, eventVars>>

\* receive() reports that the socket is closed.
LoopExit(c) ==
    /\ pc[c] = "receive" /\ sock[c] = "closed"
    /\ pc' = [pc EXCEPT ![c] = "exit"]
    /\ UNCHANGED <<sessionVars, mon, socketVars, sendVars, clientVars, eventVars>>

\* Mutant: the loop does not test the state.
MutHeartbeatOnClosing(c) ==
    /\ pc[c] = "receive" /\ sock[c] = "open" /\ Closing(c)
    /\ UNCHANGED vars

\* A connection another RESUME disconnected is still awaiting receive(); its
\* client's next heartbeat brings it to the loop's test.
HeartbeatOnClosing(c) ==
    /\ pc[c] = "receive" /\ sock[c] = "open" /\ Closing(c)
    /\ pc' = [pc EXCEPT ![c] = "exit"]
    /\ UNCHANGED <<sessionVars, mon, socketVars, sendVars, clientVars, eventVars>>

\* The finally block of gateway_endpoint.  The offline transition is asked
\* of the connection after it is set disconnected and removed.
Finally(c) ==
    /\ pc[c] = "exit"
    /\ state' = [state EXCEPT ![c] = "disconnected"]
    /\ RemoveConnection(c)
    /\ UNCHANGED <<home, cuser, csess, cseq, sessions, shared>>
    /\ presence' = IF IsAuthenticated(c)' /\ ConnectionCount(home[c], cuser[c])' = 0
                   THEN [presence EXCEPT ![cuser[c]] = "offline"] ELSE presence
    /\ pc' = [pc EXCEPT ![c] = "done"]
    /\ mon' = [mon EXCEPT ![c] = "off"]
    /\ sock' = [sock EXCEPT ![c] = "closed"]
    /\ tasks' = [tasks EXCEPT ![c] = <<>>]  \* each will find the connection closed
    /\ replayq' = [replayq EXCEPT ![c] = <<>>]
    /\ UNCHANGED <<req, wire, sent, clientVars, cursor, numbered, crashes>>

-----------------------------------------------------------------------------
(* The heartbeat monitor                                                   *)

\* Two intervals without a heartbeat: _close_connection begins.
HeartbeatClose(c) ==
    /\ mon[c] = "watch" /\ sock[c] = "lost" /\ ~ Closing(c)
    /\ state' = [state EXCEPT ![c] = "disconnecting"]
    /\ sock' = [sock EXCEPT ![c] = "closed"]
    /\ mon' = [mon EXCEPT ![c] = "closing"]
    /\ UNCHANGED <<home, cuser, csess, cseq, managerVars, valkeyVars, pc, req, wire,
                   sendVars, clientVars, eventVars>>

\* The close is done, whatever the handler did to the state meanwhile.
HeartbeatClosed(c) ==
    /\ mon[c] = "closing"
    /\ state' = [state EXCEPT ![c] = "disconnected"]
    /\ mon' = [mon EXCEPT ![c] = "off"]
    /\ UNCHANGED <<home, cuser, csess, cseq, managerVars, valkeyVars, pc, socketVars,
                   sendVars, clientVars, eventVars>>

-----------------------------------------------------------------------------
(* The dispatcher                                                          *)

\* Connection.check_rate_limit; the mutant is off by one.
MutWithinRate(c) == sent[c] <= RateLimit
WithinRate(c) == sent[c] < RateLimit

\* dispatch_event on worker w of the next event published, which every user
\* may see: each ready connection within its rate takes its next number, the
\* frame is recorded and a send is scheduled.
Dispatch(w) ==
    LET e  == cursor[w] + 1
        to == {c \in ConnectionsFor(w, User) : WithinRate(c)}
        frame(c) == [t |-> "EVENT", s |-> cseq[c] + 1, sess |-> csess[c], e |-> e]
        built(s) == LET order == SetToSeq({c \in to : csess[c] = s})
                    IN  [i \in DOMAIN order |-> frame(order[i])]
    IN  /\ cursor[w] < MaxEvent
        /\ cursor' = [cursor EXCEPT ![w] = e]
        /\ cseq' = [c \in Conn |-> IF c \in to THEN cseq[c] + 1 ELSE cseq[c]]
        /\ sent' = [c \in Conn |-> IF c \in to THEN sent[c] + 1 ELSE sent[c]]
        /\ tasks' = [c \in Conn |-> IF c \in to THEN Append(tasks[c], frame(c)) ELSE tasks[c]]
        /\ RecordEvents(w, [s \in Session |-> built(s)])
        /\ numbered' = numbered \cup
              {[sess |-> csess[c], n |-> cseq[c] + 1, e |-> e] : c \in to}
        /\ UNCHANGED <<home, state, cuser, csess, registered, userConns, members, info,
                       total, loopVars, socketVars, replayq, clientVars, presence, crashes>>

\* A scheduled send starts.
TaskSend(c) ==
    /\ tasks[c] # <<>>
    /\ wire' = Written(c, Head(tasks[c]))
    /\ tasks' = [tasks EXCEPT ![c] = Tail(@)]
    /\ UNCHANGED <<sessionVars, loopVars, sock, req, replayq, sent, clientVars, eventVars>>

\* check_rate_limit starts a new window.
WindowReset(c) ==
    /\ sent[c] = RateLimit
    /\ sent' = [sent EXCEPT ![c] = 0]
    /\ UNCHANGED <<sessionVars, loopVars, socketVars, tasks, replayq, clientVars, eventVars>>

-----------------------------------------------------------------------------
(* Time and failures                                                       *)

Expire ==
    /\ \/ \E w \in Worker, s \in Session : CopyExpires(w, s)
       \/ \E s \in Session : SharedExpires(s)
       \/ \E c \in Conn : InfoExpires(c)
       \/ \E u \in User : MembersExpire(u)
    /\ UNCHANGED <<loopVars, socketVars, sendVars, clientVars, eventVars>>

\* Worker w dies and is replaced; its clients see their sockets close.
Crash(w) ==
    LET dead == {c \in Conn : home[c] = w}
    IN  /\ crashes < MaxCrash
        /\ crashes' = crashes + 1
        /\ LoseWorker(w)
        /\ pc' = [c \in Conn |-> IF c \in dead THEN "done" ELSE pc[c]]
        /\ mon' = [c \in Conn |-> IF c \in dead THEN "off" ELSE mon[c]]
        /\ sock' = [c \in Conn |-> IF c \in dead THEN "closed" ELSE sock[c]]
        /\ req' = [c \in Conn |-> IF c \in dead THEN NoRequest ELSE req[c]]
        /\ tasks' = [c \in Conn |-> IF c \in dead THEN <<>> ELSE tasks[c]]
        /\ replayq' = [c \in Conn |-> IF c \in dead THEN <<>> ELSE replayq[c]]
        /\ UNCHANGED <<wire, sent, clientVars, presence, cursor, numbered>>

ServerStep(c) ==
    \/ ReceiveRequest(c) \/ IdentifyRefused(c) \/ IdentifyVerified(c)
    \/ PresenceOnline(c) \/ SendReady(c)
    \/ ResumeUnauthorized(c) \/ ResumeRejected(c) \/ ResumeAccepted(c)
    \/ ReplayStart(c) \/ ReplaySend(c)
    \/ LoopExit(c) \/ HeartbeatOnClosing(c) \/ Finally(c)

MonitorStep(c) == HeartbeatClose(c) \/ HeartbeatClosed(c)

Next ==
    \/ \E t \in Tab, c \in Conn, w \in Worker : Connect(t, c, w)
    \/ \E t \in Tab : Receive(t)
    \/ \E t \in Tab, how \in {"lost", "closed"} : Leave(t, how)
    \/ \E c \in Conn : ServerStep(c) \/ MonitorStep(c) \/ TaskSend(c)
                       \/ NoticeLoss(c) \/ WindowReset(c)
    \/ \E w \in Worker : Dispatch(w) \/ Crash(w)
    \/ Expire

Spec == Init /\ [][Next]_vars

\* The event loop runs every coroutine that can run, the transport notices
\* a dead peer (uvicorn pings it), and a client reads its socket.  Nothing
\* makes a tab connect or leave, an event happen, or time pass.
Fairness ==
    /\ \A c \in Conn : /\ WF_vars(ServerStep(c)) /\ WF_vars(MonitorStep(c))
                       /\ WF_vars(TaskSend(c)) /\ WF_vars(NoticeLoss(c))
    /\ \A t \in Tab : WF_vars(Receive(t)) /\ WF_vars(SeeClose(t))

FairSpec == Spec /\ Fairness
=============================================================================
