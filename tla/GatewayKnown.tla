---------------------------- MODULE GatewayKnown ----------------------------
(***************************************************************************)
(* Who can know a session, for every value of the constants: a session is  *)
(* named in a frame, a request or another connection only after its READY  *)
(* was built, so nobody can resume a session whose IDENTIFY is not done.   *)
(* And what numbers a client can know: only those its session was given.   *)
(***************************************************************************)
EXTENDS GatewayType

\* The client can know of session s: READY has been built for it.
Announced(given, s) == \E x \in given : x.sess = s /\ x.e = None

AllTold(given, frames) ==
    \A i \in DOMAIN frames : frames[i].t = "READY" => Announced(given, frames[i].sess)

\* A session id reaches a client, and through it another connection, only
\* with READY.
TabsTold == \A t \in Tab : tsess[t] # None => Announced(numbered, tsess[t])

RequestsTold == \A c \in Conn : req[c].sess # None => Announced(numbered, req[c].sess)

FramesTold ==
    \A c \in Conn : /\ AllTold(numbered, wire[c])
                    /\ AllTold(numbered, tasks[c])
                    /\ AllTold(numbered, replayq[c])

CopiesTold ==
    /\ \A w \in Worker, s \in Session : AllTold(numbered, sessions[w][s].replay)
    /\ \A s \in Session : AllTold(numbered, shared[s].replay)

\* c is between create_session and READY, whatever happened to its state.
Greeting(c) == pc[c] \in {"presence", "ready"}

\* Sessions are named after the connection that created them, which alone
\* holds the session until READY is built.
Created ==
    /\ \A c \in Conn : csess[c] # None => csess[csess[c]] = csess[c]
    /\ \A c \in Conn : csess[c] \notin {None, c} => Announced(numbered, csess[c])
    /\ \A c \in Conn : Greeting(c) => csess[c] = c /\ ~ Announced(numbered, c)
    /\ \A x \in numbered : csess[x.sess] = x.sess

\* The message loop's connections are the manager's.
Accepted(c) == pc[c] \notin {"none", "done"}
Present ==
    \A c \in Conn : /\ c \in registered <=> Accepted(c)
                    /\ state[c] = "ready" => Accepted(c)

Known == /\ TabsTold /\ RequestsTold /\ FramesTold /\ CopiesTold
         /\ Created /\ Present

-----------------------------------------------------------------------------
(* Frames that were told                                                   *)

\* What was told stays told.
LEMMA ToldGrows ==
    ASSUME NEW M, NEW N, M \subseteq N
    PROVE  /\ \A s : Announced(M, s) => Announced(N, s)
           /\ \A q : AllTold(M, q) => AllTold(N, q)
BY DEF Announced, AllTold

\* A frame is added.
LEMMA ToldAppend ==
    ASSUME NEW N, NEW q \in Seq(Frame), AllTold(N, q), NEW f \in Frame,
           f.t = "READY" => Announced(N, f.sess)
    PROVE  AllTold(N, Append(q, f))
<1>1. \A i \in DOMAIN Append(q, f) : Append(q, f)[i] = f \/ (i \in DOMAIN q /\ Append(q, f)[i] = q[i])
  OBVIOUS
<1>2. QED BY <1>1 DEF AllTold

\* A frame is taken.
LEMMA ToldTake ==
    ASSUME NEW N, NEW q \in Seq(Frame), AllTold(N, q), q # <<>>
    PROVE  /\ AllTold(N, Tail(q))
           /\ Head(q) \in Frame
           /\ Head(q).t = "READY" => Announced(N, Head(q).sess)
<1>1. \A i \in DOMAIN Tail(q) : i + 1 \in DOMAIN q /\ Tail(q)[i] = q[i + 1]
  OBVIOUS
<1>2. 1 \in DOMAIN q /\ Head(q) = q[1] /\ Head(q) \in Frame
  OBVIOUS
<1>3. QED BY <1>1, <1>2 DEF AllTold

\* Numbered frames are frames.
LEMMA NumberedFrames == \A q \in Seq(Numbered) : q \in Seq(Frame)
<1>1. Numbered \subseteq Frame
  BY DEF Numbered
<1>2. QED BY <1>1

\* send_json writes a frame that was told.
LEMMA ToldWritten ==
    ASSUME TypeOK, FramesTold, NEW c \in Conn, NEW f \in Frame,
           f.t = "READY" => Announced(numbered, f.sess)
    PROVE  \A d \in Conn : AllTold(numbered, Written(c, f)[d])
<1> SUFFICES ASSUME NEW d \in Conn PROVE AllTold(numbered, Written(c, f)[d])
  OBVIOUS
<1>1. wire \in [Conn -> Seq(Frame)] /\ AllTold(numbered, wire[d]) /\ AllTold(numbered, wire[c])
  BY DEF TypeOK, FramesTold
<1>2. AllTold(numbered, Append(wire[c], f))
  BY <1>1, ToldAppend
<1>3. Written(c, f)[d] \in {wire[d], Append(wire[c], f)}
  BY <1>1 DEF Written
<1>4. QED BY <1>1, <1>2, <1>3

\* Whatever a handler finds of a session was told.
LEMMA ToldFound ==
    ASSUME CopiesTold, SessionTypeOK, NEW w \in Worker, NEW s \in Session
    PROVE  AllTold(numbered, GetSession(w, s).replay)
<1>1. shared[s] \in SessionCopy
  BY DEF SessionTypeOK
<1>2. Hydrated(s).replay = shared[s].replay
  BY <1>1 DEF Hydrated, SessionCopy
<1>3. QED BY <1>2 DEF CopiesTold, GetSession

-----------------------------------------------------------------------------
(* Who knows a session                                                     *)

\* The initial state.
LEMMA InitKnown == ASSUME SessionManagerAssumption, GatewayAssumption, Init PROVE Known
<1>1. TabsTold /\ RequestsTold
  BY DEF Init, TabsTold, RequestsTold, NoRequest
<1>2. FramesTold
  BY DEF Init, FramesTold, AllTold
<1>3. CopiesTold
  BY DEF Init, SessionInit, CopiesTold, AllTold, NoCopy
<1>4. Created /\ Present
  BY DEF Init, SessionInit, Created, Present, Accepted, Greeting
<1>5. QED BY <1>1, <1>2, <1>3, <1>4 DEF Known

\* A step that gives no number, creates or resumes no session, and at most
\* drops frames.
LEMMA QuietKnown ==
    ASSUME Known,
           UNCHANGED <<numbered, csess, sessions, shared, tsess, registered>>,
           \A c \in Conn : /\ req'[c] \in {req[c], NoRequest}
                           /\ wire'[c] \in {wire[c], <<>>}
                           /\ tasks'[c] \in {tasks[c], <<>>}
                           /\ replayq'[c] \in {replayq[c], <<>>}
                           /\ Greeting(c)' => Greeting(c)
                           /\ Accepted(c)' <=> Accepted(c)
                           /\ state'[c] = "ready" => state[c] = "ready"
    PROVE  Known'
<1>1. TabsTold'
  BY DEF Known, TabsTold
<1>2. RequestsTold'
  BY DEF Known, RequestsTold, NoRequest
<1>3. FramesTold'
  <2>1. AllTold(numbered, <<>>)
    BY DEF AllTold
  <2>2. QED BY <2>1 DEF Known, FramesTold
<1>4. CopiesTold'
  BY DEF Known, CopiesTold
<1>5. Created'
  BY DEF Known, Created
<1>6. Present'
  BY DEF Known, Present
<1>7. QED BY <1>1, <1>2, <1>3, <1>4, <1>5, <1>6 DEF Known

\* The steps of that kind.
LEMMA QuietSteps ==
    ASSUME TypeInv, Known, NEW c \in Conn,
           \/ ReceiveRequest(c) \/ IdentifyRefused(c) \/ PresenceOnline(c) \/ LoopExit(c)
           \/ HeartbeatOnClosing(c) \/ HeartbeatClose(c) \/ HeartbeatClosed(c)
           \/ NoticeLoss(c) \/ WindowReset(c)
    PROVE  Known'
<1> USE DEF TypeInv, TypeOK, SessionTypeOK, Greeting, Accepted, sessionVars, connectionVars,
            managerVars, valkeyVars, loopVars, socketVars, sendVars, clientVars, eventVars
<1>1. CASE ReceiveRequest(c)
  BY <1>1, QuietKnown DEF ReceiveRequest, Request
<1>2. CASE IdentifyRefused(c)
  BY <1>2, QuietKnown DEF IdentifyRefused, CloseAndExit
<1>3. CASE PresenceOnline(c)
  BY <1>3, QuietKnown DEF PresenceOnline
<1>4. CASE LoopExit(c)
  BY <1>4, QuietKnown DEF LoopExit
<1>5. CASE HeartbeatOnClosing(c)
  BY <1>5, QuietKnown DEF HeartbeatOnClosing
<1>6. CASE HeartbeatClose(c)
  BY <1>6, QuietKnown DEF HeartbeatClose
<1>7. CASE HeartbeatClosed(c)
  BY <1>7, QuietKnown DEF HeartbeatClosed
<1>8. CASE NoticeLoss(c)
  BY <1>8, QuietKnown DEF NoticeLoss
<1>9. CASE WindowReset(c)
  BY <1>9, QuietKnown DEF WindowReset
<1>10. QED BY <1>1, <1>2, <1>3, <1>4, <1>5, <1>6, <1>7, <1>8, <1>9

\* A tab leaves its socket.
LEMMA LeaveKnown ==
    ASSUME TypeInv, Known, NEW t \in Tab, NEW how \in {"lost", "closed"}, Leave(t, how)
    PROVE  Known'
BY QuietKnown DEF Leave, TypeInv, TypeOK, SessionTypeOK, Greeting, Accepted, sessionVars,
   connectionVars, managerVars, valkeyVars, loopVars, sendVars, eventVars

\* The finally block removes the connection.
LEMMA FinallyKnown ==
    ASSUME TypeInv, Known, NEW c \in Conn, Finally(c)
    PROVE  Known'
<1> USE DEF TypeInv, TypeOK, SessionTypeOK
<1>1. UNCHANGED <<numbered, csess, sessions, shared, tsess, req, wire>>
  BY DEF Finally, clientVars
<1>2. TabsTold' /\ RequestsTold' /\ CopiesTold'
  BY <1>1 DEF Known, TabsTold, RequestsTold, CopiesTold
<1>3. FramesTold'
  <2>1. AllTold(numbered, <<>>)
    BY DEF AllTold
  <2>2. QED BY <1>1, <2>1 DEF Known, FramesTold, Finally
<1>4. Created'
  BY <1>1 DEF Known, Created, Greeting, Finally
<1>5. Present'
  BY DEF Known, Present, Accepted, Finally, RemoveConnection
<1>6. QED BY <1>2, <1>3, <1>4, <1>5 DEF Known

\* A connection is accepted; the client sends the session id it holds.
LEMMA ConnectKnown ==
    ASSUME TypeInv, Known, NEW t \in Tab, NEW c \in Conn, NEW w \in Worker, Connect(t, c, w)
    PROVE  Known'
<1> USE DEF TypeInv, TypeOK, SessionTypeOK
<1>1. UNCHANGED <<numbered, csess, sessions, shared, tsess, wire, tasks, replayq>>
  BY DEF Connect, AddConnection, sendVars, valkeyVars, eventVars
<1>2. TabsTold' /\ FramesTold' /\ CopiesTold'
  BY <1>1 DEF Known, TabsTold, FramesTold, CopiesTold
<1>3. RequestsTold'
  BY <1>1 DEF Known, RequestsTold, TabsTold, Connect, Resume, Identify
<1>4. Created'
  BY <1>1 DEF Known, Created, Greeting, Connect
<1>5. Present'
  BY DEF Known, Present, Accepted, Connect, AddConnection
<1>6. QED BY <1>2, <1>3, <1>4, <1>5 DEF Known

\* A tab takes a frame; the session id it keeps came with READY.
LEMMA ReceiveKnown ==
    ASSUME TypeInv, Known, NEW t \in Tab, Receive(t)
    PROVE  Known'
<1> DEFINE c == tconn[t]
<1> USE DEF TypeInv, TypeOK, SessionTypeOK
<1>1. c \in Conn /\ wire[c] # <<>>
  BY DEF Receive
<1>2. UNCHANGED <<numbered, csess, sessions, shared, tasks, replayq, pc, state, registered>>
  BY DEF Receive, sessionVars, connectionVars, managerVars, valkeyVars, loopVars, sendVars, eventVars
<1>3. /\ AllTold(numbered, Tail(wire[c]))
      /\ Head(wire[c]).t = "READY" => Announced(numbered, Head(wire[c]).sess)
  BY <1>1, ToldTake DEF Known, FramesTold
<1>4. TabsTold'
  BY <1>2, <1>3 DEF Known, TabsTold, Receive
<1>5. RequestsTold'
  BY <1>1, <1>2 DEF Known, RequestsTold, Receive, Identify
<1>6. FramesTold'
  BY <1>1, <1>2, <1>3 DEF Known, FramesTold, Receive
<1>7. CopiesTold' /\ Created' /\ Present'
  BY <1>2 DEF Known, CopiesTold, Created, Present, Accepted, Greeting
<1>8. QED BY <1>4, <1>5, <1>6, <1>7 DEF Known

\* A scheduled send, or a frame of a replay, is written.
LEMMA SendKnown ==
    ASSUME TypeInv, Known, NEW c \in Conn, TaskSend(c) \/ ReplaySend(c)
    PROVE  Known'
<1> USE DEF TypeInv, TypeOK, SessionTypeOK
<1>1. UNCHANGED <<numbered, csess, sessions, shared, tsess, req, state, registered>>
  BY DEF TaskSend, ReplaySend, sessionVars, connectionVars, managerVars, valkeyVars, clientVars,
         eventVars
<1>2. TabsTold' /\ RequestsTold' /\ CopiesTold'
  BY <1>1 DEF Known, TabsTold, RequestsTold, CopiesTold
<1>3. FramesTold'
  <2>1. CASE TaskSend(c)
    <3>1. tasks[c] # <<>> /\ tasks[c] \in Seq(Frame) /\ AllTold(numbered, tasks[c])
      BY <2>1, NumberedFrames DEF TaskSend, Known, FramesTold
    <3>2. AllTold(numbered, Tail(tasks[c]))
          /\ \A d \in Conn : AllTold(numbered, Written(c, Head(tasks[c]))[d])
      BY <3>1, ToldTake, ToldWritten DEF Known
    <3>3. QED BY <1>1, <2>1, <3>2 DEF TaskSend, Known, FramesTold
  <2>2. CASE ReplaySend(c)
    <3>1. replayq[c] # <<>>
      BY <2>2 DEF ReplaySend, HandshakeOrder, InOrder, Handled
    <3>2. replayq[c] \in Seq(Frame) /\ AllTold(numbered, replayq[c])
      BY <2>2, NumberedFrames DEF ReplaySend, Known, FramesTold
    <3>3. AllTold(numbered, Tail(replayq[c]))
          /\ \A d \in Conn : AllTold(numbered, Written(c, Head(replayq[c]))[d])
      BY <3>1, <3>2, ToldTake, ToldWritten DEF Known
    <3>4. QED BY <1>1, <2>2, <3>3 DEF ReplaySend, Known, FramesTold
  <2>3. QED BY <2>1, <2>2
<1>4. \A d \in Conn : (Greeting(d)' => Greeting(d)) /\ (Accepted(d)' <=> Accepted(d))
  BY DEF TaskSend, ReplaySend, loopVars, Greeting, Accepted, NextRead
<1>5. Created' /\ Present'
  BY <1>1, <1>4 DEF Known, Created, Present
<1>6. QED BY <1>2, <1>3, <1>5 DEF Known

\* The copy a refusal leaves behind was told.
LEMMA RefuseSessionTold ==
    ASSUME SessionTypeOK, CopiesTold, NEW w \in Worker, NEW s \in Session, NEW u,
           RefuseSession(w, s, u), UNCHANGED numbered
    PROVE  CopiesTold'
<1>1. AllTold(numbered, GetSession(w, s).replay)
  BY ToldFound
<1>2. AllTold(numbered, NoCopy.replay)
  BY DEF AllTold, NoCopy
<1>3. \A v \in Worker, r \in Session :
          sessions'[v][r] \in {sessions[v][r], NoCopy, GetSession(w, s)}
          /\ (sessions'[v][r] = sessions[v][r] \/ (v = w /\ r = s))
  BY DEF SessionTypeOK, RefuseSession
<1>4. \A r \in Session : shared'[r] \in {shared[r], NoCopy}
  BY DEF SessionTypeOK, RefuseSession
<1>5. QED BY <1>1, <1>2, <1>3, <1>4 DEF CopiesTold

\* A refused RESUME tells the client nothing.
LEMMA RefuseKnown ==
    ASSUME TypeInv, Known, NEW c \in Conn, ResumeUnauthorized(c) \/ ResumeRejected(c)
    PROVE  Known'
<1> USE DEF TypeInv, TypeOK, SessionTypeOK
<1>1. pc[c] = "resume" /\ Refuse(c)
  BY DEF ResumeUnauthorized, ResumeRejected
<1>2. UNCHANGED <<numbered, csess, tsess, tasks, replayq, state, registered>>
  BY <1>1 DEF Refuse, connectionVars, sendVars, clientVars, eventVars
<1>3. TabsTold' /\ RequestsTold'
  BY <1>1, <1>2 DEF Known, TabsTold, RequestsTold, Refuse, NoRequest
<1>4. FramesTold'
  <2>1. InvalidSession \in Frame /\ InvalidSession.t # "READY"
    BY DEF InvalidSession, Frame
  <2>2. \A d \in Conn : AllTold(numbered, Written(c, InvalidSession)[d])
    BY <2>1, ToldWritten DEF Known
  <2>3. QED BY <1>1, <1>2, <2>2 DEF Known, FramesTold, Refuse
<1>5. CopiesTold'
  <2>1. CASE ResumeUnauthorized(c)
    BY <1>2, <2>1 DEF ResumeUnauthorized, Known, CopiesTold
  <2>2. CASE ResumeRejected(c)
    <3>1. home[c] \in Worker /\ req[c].sess \in Session
      BY <1>1 DEF HandshakeOrder, InOrder, Handled, Request
    <3>2. RefuseSession(home[c], req[c].sess, req[c].user)
      BY <2>2 DEF ResumeRejected
    <3>3. QED BY <1>2, <3>1, <3>2, RefuseSessionTold DEF Known
  <2>3. QED BY <2>1, <2>2
<1>6. \A d \in Conn : (Greeting(d)' => Greeting(d)) /\ (Accepted(d)' <=> Accepted(d))
  BY <1>1 DEF Refuse, Greeting, Accepted, NextRead
<1>7. Created' /\ Present'
  BY <1>2, <1>6 DEF Known, Created, Present
<1>8. QED BY <1>3, <1>4, <1>5, <1>7 DEF Known

\* replay_events takes frames that were told.
LEMMA ReplayStartKnown ==
    ASSUME TypeInv, Known, NEW c \in Conn, ReplayStart(c)
    PROVE  Known'
<1> DEFINE copy == GetSession(home[c], csess[c])
           missed == Missed(copy, req[c].seq)
<1> USE DEF TypeInv, TypeOK, SessionTypeOK
<1>1. pc[c] = "resumed" /\ home[c] \in Worker /\ csess[c] \in Session
  BY DEF ReplayStart, HandshakeOrder, InOrder, Handled, Identified
<1>2. UNCHANGED <<numbered, csess, tsess, tasks, wire, state, registered, shared>>
  BY DEF ReplayStart, connectionVars, clientVars, eventVars, valkeyVars
<1>3. /\ sessions' = [sessions EXCEPT ![home[c]][csess[c]] = copy]
      /\ replayq' = [replayq EXCEPT ![c] = missed]
      /\ req' = [req EXCEPT ![c] = NoRequest]
      /\ pc' = [pc EXCEPT ![c] = IF missed = <<>> THEN NextRead(c) ELSE "replay"]
  BY DEF ReplayStart
<1>4. copy.replay \in Seq(Numbered) /\ AllTold(numbered, copy.replay)
  BY <1>1, ToldFound, GetSessionType DEF Known, SessionCopy
<1>5. AllTold(numbered, missed)
  <2>1. \A j \in DOMAIN missed : \E i \in DOMAIN copy.replay : missed[j] = copy.replay[i]
    BY <1>4, FramesAfterType DEF Missed
  <2>2. QED BY <1>4, <2>1 DEF AllTold
<1> HIDE DEF copy, missed
<1>6. TabsTold' /\ RequestsTold'
  BY <1>2, <1>3 DEF Known, TabsTold, RequestsTold, NoRequest
<1>7. FramesTold'
  BY <1>2, <1>3, <1>5 DEF Known, FramesTold
<1>8. CopiesTold'
  BY <1>1, <1>2, <1>3, <1>4 DEF Known, CopiesTold
<1>9. \A d \in Conn : (Greeting(d)' => Greeting(d)) /\ (Accepted(d)' <=> Accepted(d))
  BY <1>1, <1>3 DEF Greeting, Accepted, NextRead
<1>10. Created' /\ Present'
  BY <1>2, <1>9 DEF Known, Created, Present
<1>11. QED BY <1>6, <1>7, <1>8, <1>10 DEF Known

\* Saving a copy saves its frames.
LEMMA ToldPersisted ==
    ASSUME NEW N, NEW s \in Session, NEW copy \in SessionCopy,
           AllTold(N, copy.replay), AllTold(N, shared[s].replay)
    PROVE  AllTold(N, Persisted(s, copy).replay)
<1>1. Persisted(s, copy).replay \in {copy.replay, shared[s].replay}
  BY DEF Persisted, SessionCopy
<1>2. QED BY <1>1

\* create_session: the new session is known to nobody.
LEMMA IdentifyVerifiedKnown ==
    ASSUME SessionManagerAssumption, TypeInv, Known, NEW c \in Conn, IdentifyVerified(c)
    PROVE  Known'
<1> DEFINE created == [NoCopy EXCEPT !.held = TRUE, !.user = req[c].user, !.conn = c,
                                     !.fresh = TRUE]
<1> USE DEF TypeInv, TypeOK, SessionTypeOK
<1>1. pc[c] = "identify" /\ home[c] \in Worker /\ csess[c] = None /\ c # None
  <2>1. InOrder(c) /\ pc[c] = "identify"
    BY DEF IdentifyVerified, HandshakeOrder
  <2>2. req[c].op # "none" /\ home[c] \in Worker
    BY <2>1 DEF InOrder, Handled
  <2>3. csess[c] = None
    BY <2>1, <2>2 DEF InOrder, Identified
  <2>4. c # None
    BY RequestType DEF Session
  <2>5. QED BY <2>1, <2>2, <2>3, <2>4
<1>2. UNCHANGED <<numbered, tsess, wire, tasks, replayq, registered>>
  BY DEF IdentifyVerified, CreateSession, sendVars, clientVars, eventVars
<1>3. /\ sessions' = [sessions EXCEPT ![home[c]][c] = created]
      /\ shared' = [shared EXCEPT ![c] = Persisted(c, created)]
      /\ csess' = [csess EXCEPT ![c] = c]
      /\ state' = [state EXCEPT ![c] = "ready"]
      /\ pc' = [pc EXCEPT ![c] = "presence"]
      /\ req' = [req EXCEPT ![c] = NoRequest]
  BY DEF IdentifyVerified, CreateSession
<1>4. created \in SessionCopy /\ AllTold(numbered, created.replay)
  <2>1. req[c].user \in User \cup {NoOne}
    BY DEF Request
  <2>2. created \in SessionCopy
    BY <2>1, NoCopyType DEF SessionCopy
  <2>3. created.replay = <<>>
    BY DEF NoCopy
  <2>4. QED BY <2>2, <2>3 DEF AllTold
<1>5. AllTold(numbered, Persisted(c, created).replay)
  <2> HIDE DEF created
  <2>1. AllTold(numbered, shared[c].replay) /\ c \in Session
    BY DEF Known, CopiesTold, Session
  <2>2. QED BY <1>4, <2>1, ToldPersisted
<1> HIDE DEF created
<1>6. TabsTold' /\ RequestsTold' /\ FramesTold'
  BY <1>2, <1>3 DEF Known, TabsTold, RequestsTold, FramesTold, NoRequest
<1>7. CopiesTold'
  BY <1>1, <1>2, <1>3, <1>4, <1>5 DEF Known, CopiesTold, Session
<1>8. Created'
  <2>1. ~ Announced(numbered, c)
    BY <1>1 DEF Known, Created, Announced
  <2>2. \A d \in Conn : csess[d] # c
    BY <1>1 DEF Known, Created
  <2>3. \A x \in numbered : x.sess # c
    BY <1>1 DEF Known, Created
  <2>4. Created /\ csess'[c] = c /\ \A d \in Conn : d # c => csess'[d] = csess[d]
    BY <1>3 DEF Known
  <2>5. \A d \in Conn : csess'[d] # None => csess'[csess'[d]] = csess'[d]
    <3>1. \A d \in Conn : csess[d] # None => csess[d] \in Conn \ {c} /\ csess[csess[d]] = csess[d]
      BY <2>2, <2>4 DEF Created, Session
    <3>2. QED BY <2>4, <3>1
  <2>6. \A d \in Conn : csess'[d] \notin {None, d} => Announced(numbered, csess'[d])
    BY <2>4 DEF Created
  <2>7. \A d \in Conn : Greeting(d)' => csess'[d] = d /\ ~ Announced(numbered, d)
    BY <1>3, <2>1, <2>4 DEF Created, Greeting
  <2>8. \A x \in numbered : csess'[x.sess] = x.sess
    BY <2>3, <2>4 DEF Created, Session, Numbering
  <2>9. QED BY <1>2, <2>5, <2>6, <2>7, <2>8 DEF Created
<1>9. Present'
  BY <1>1, <1>2, <1>3 DEF Known, Present, Accepted
<1>10. QED BY <1>6, <1>7, <1>8, <1>9 DEF Known

\* resume_session: the session was announced to the client that resumes it.
LEMMA ResumeAcceptedKnown ==
    ASSUME SessionManagerAssumption, TypeInv, TypeInv', Known, NEW c \in Conn, ResumeAccepted(c)
    PROVE  Known'
<1> DEFINE w == home[c]
           s == req[c].sess
           found == GetSession(w, s)
           resumed == [found EXCEPT !.conn = c, !.sequence = ResumedSequence(found, req[c].seq),
                                    !.fresh = TRUE]
           f == [t |-> "RESUMED", s |-> cseq'[c], sess |-> s, e |-> None]
<1>0. TypeOK /\ SessionTypeOK /\ TypeOK' /\ SessionTypeOK'
  BY DEF TypeInv, TypeOK
<1>1. pc[c] = "resume" /\ w \in Worker /\ csess[c] = None /\ s \in Session /\ s # None
  <2>1. InOrder(c) /\ pc[c] = "resume" /\ req[c] \in Request
    BY <1>0 DEF ResumeAccepted, TypeInv, HandshakeOrder, TypeOK
  <2>2. req[c].op = "resume" /\ home[c] \in Worker
    BY <2>1 DEF InOrder, Handled
  <2>3. csess[c] = None
    BY <2>1, <2>2 DEF InOrder, Identified
  <2>4. s \in Session /\ s # None
    BY <2>1, <2>2 DEF Request
  <2>5. QED BY <2>1, <2>2, <2>3, <2>4
<1>2. UNCHANGED <<numbered, tsess, tasks, replayq, registered, req>>
  BY DEF ResumeAccepted, ResumeSession, sendVars, clientVars, eventVars
<1>3. /\ sessions' = [sessions EXCEPT ![w][s] = resumed]
      /\ shared' = [shared EXCEPT ![s] = Persisted(s, resumed)]
      /\ csess' = [csess EXCEPT ![c] = s]
      /\ pc' = [pc EXCEPT ![c] = "resumed"]
      /\ wire' = IF sock[c] = "open" THEN [wire EXCEPT ![c] = Append(@, f)] ELSE wire
      /\ \A d \in Conn : state'[d] = "ready" => d = c \/ state[d] = "ready"
  BY DEF ResumeAccepted, ResumeSession
<1>4. found \in SessionCopy /\ AllTold(numbered, found.replay)
  BY <1>0, <1>1, ToldFound, GetSessionType DEF Known
<1>5. resumed.replay = found.replay /\ sessions'[w][s] = resumed
      /\ resumed \in SessionCopy
  <2> HIDE DEF found
  <2>1. resumed.replay = found.replay
    BY <1>4 DEF SessionCopy
  <2> HIDE DEF resumed
  <2>2. sessions'[w][s] = resumed
    BY <1>0, <1>1, <1>3 DEF SessionTypeOK
  <2>3. sessions'[w][s] \in SessionCopy
    BY <1>0, <1>1 DEF SessionTypeOK
  <2>4. QED BY <2>1, <2>2, <2>3
<1> HIDE DEF found, resumed
<1>6. AllTold(numbered, Persisted(s, resumed).replay)
  <2>1. AllTold(numbered, shared[s].replay)
    BY <1>1 DEF Known, CopiesTold
  <2>2. QED BY <1>1, <1>4, <1>5, <2>1, ToldPersisted
<1>7. TabsTold' /\ RequestsTold'
  BY <1>2 DEF Known, TabsTold, RequestsTold
<1>8. FramesTold'
  <2>1. f \in Frame /\ f.t # "READY"
    BY <1>0, <1>1 DEF Frame, SessionTypeOK
  <2> HIDE DEF f
  <2>2. AllTold(numbered, Append(wire[c], f))
    BY <1>0, <2>1, ToldAppend DEF Known, FramesTold, TypeOK
  <2>3. \A d \in Conn : wire'[d] \in {wire[d], Append(wire[c], f)}
    BY <1>0, <1>3 DEF TypeOK
  <2>4. QED BY <1>2, <2>2, <2>3 DEF Known, FramesTold
<1>9. CopiesTold'
  <2>1. \A v \in Worker, r \in Session :
            sessions'[v][r] = IF v = w /\ r = s THEN resumed ELSE sessions[v][r]
    BY <1>0, <1>1, <1>3 DEF SessionTypeOK
  <2>2. \A r \in Session : shared'[r] = IF r = s THEN Persisted(s, resumed) ELSE shared[r]
    BY <1>0, <1>3 DEF SessionTypeOK
  <2>3. QED BY <1>2, <1>4, <1>5, <1>6, <2>1, <2>2 DEF Known, CopiesTold
<1>10. Created'
  <2>1. Announced(numbered, s)
    BY <1>1 DEF Known, RequestsTold
  <2>2. csess[s] = s /\ s # c
    BY <1>1, <2>1 DEF Known, Created, Announced
  <2>3. c # None
    BY RequestType DEF Session
  <2>4. \A x \in numbered : x.sess # c
    BY <1>1, <2>3 DEF Known, Created
  <2>5. \A d \in Conn : csess[d] # c
    BY <1>1, <2>3 DEF Known, Created
  <2>6. Created /\ csess'[c] = s /\ \A d \in Conn : d # c => csess'[d] = csess[d]
    BY <1>0, <1>3 DEF Known, SessionTypeOK
  <2>7. \A d \in Conn : csess'[d] # None => csess'[csess'[d]] = csess'[d]
    BY <1>0, <1>1, <2>2, <2>5, <2>6 DEF Created, Session, SessionTypeOK
  <2>8. \A d \in Conn : csess'[d] \notin {None, d} => Announced(numbered, csess'[d])
    BY <2>1, <2>6 DEF Created
  <2>9. \A d \in Conn : Greeting(d)' => csess'[d] = d /\ ~ Announced(numbered, d)
    <3>1. \A d \in Conn : pc'[d] = IF d = c THEN "resumed" ELSE pc[d]
      BY <1>0, <1>3 DEF TypeOK
    <3>2. QED BY <2>6, <3>1 DEF Created, Greeting
  <2>10. \A x \in numbered : csess'[x.sess] = x.sess
    <3>1. \A x \in numbered : x.sess \in Conn
      BY <1>0 DEF Session, Numbering, TypeOK
    <3>2. QED BY <2>4, <2>6, <3>1 DEF Created
  <2>11. QED BY <1>2, <2>7, <2>8, <2>9, <2>10 DEF Created
<1>11. Present'
  <2>1. \A d \in Conn : pc'[d] = IF d = c THEN "resumed" ELSE pc[d]
    BY <1>0, <1>3 DEF TypeOK
  <2>2. QED BY <1>1, <1>2, <1>3, <2>1 DEF Known, Present, Accepted
<1>12. QED BY <1>7, <1>8, <1>9, <1>10, <1>11 DEF Known

\* record_event buffers frames that were told.
LEMMA RecordEventsTold ==
    ASSUME SessionManagerAssumption, SessionTypeOK, CopiesTold, NEW w \in Worker,
           NEW new \in [Session -> Seq(Numbered)], RecordEvents(w, new),
           numbered \subseteq numbered', \A s \in Session : AllTold(numbered', new[s])
    PROVE  CopiesTold'
<1> DEFINE changed == {s \in Session : new[s] # <<>> /\ GetSession(w, s).held}
           after(s) == Recorded(GetSession(w, s), new[s])
<1>1. \A s \in Session : after(s) \in SessionCopy /\ AllTold(numbered', after(s).replay)
  <2> SUFFICES ASSUME NEW s \in Session
               PROVE  after(s) \in SessionCopy /\ AllTold(numbered', after(s).replay)
    OBVIOUS
  <2>1. GetSession(w, s) \in SessionCopy /\ AllTold(numbered', GetSession(w, s).replay)
    BY GetSessionType, ToldFound, ToldGrows
  <2>2. /\ after(s) \in SessionCopy
        /\ \A j \in DOMAIN after(s).replay :
              \/ \E i \in DOMAIN GetSession(w, s).replay : after(s).replay[j] = GetSession(w, s).replay[i]
              \/ \E i \in DOMAIN new[s] : after(s).replay[j] = new[s][i]
    BY <2>1, RecordedProperties
  <2>3. QED BY <2>1, <2>2 DEF AllTold
<1>0. \A q : AllTold(numbered, q) => AllTold(numbered', q)
  BY ToldGrows
<1>2. \A s \in Session : AllTold(numbered', sessions[w][s].replay) /\ AllTold(numbered', shared[s].replay)
  BY <1>0 DEF CopiesTold
<1>3. /\ sessions' = [sessions EXCEPT ![w] =
                [s \in Session |-> IF s \in changed THEN after(s) ELSE @[s]]]
      /\ shared' = [s \in Session |->
                IF s \in changed THEN Persisted(s, after(s)) ELSE shared[s]]
  BY DEF RecordEvents
<1> HIDE DEF changed, after
<1>4. \A s \in Session : AllTold(numbered', Persisted(s, after(s)).replay)
  BY <1>1, <1>2, ToldPersisted
<1>5. \A v \in Worker, s \in Session : AllTold(numbered', sessions'[v][s].replay)
  <2> SUFFICES ASSUME NEW v \in Worker, NEW s \in Session
               PROVE  AllTold(numbered', sessions'[v][s].replay)
    OBVIOUS
  <2>1. AllTold(numbered', sessions[v][s].replay)
    BY <1>0 DEF CopiesTold
  <2>2. QED BY <1>1, <1>3, <2>1 DEF SessionTypeOK
<1>6. QED BY <1>2, <1>3, <1>4, <1>5 DEF CopiesTold

\* READY announces the session.
LEMMA SendReadyKnown ==
    ASSUME SessionManagerAssumption, TypeInv, Known, NEW c \in Conn, SendReady(c)
    PROVE  Known'
<1> DEFINE f == [t |-> "READY", s |-> cseq[c] + 1, sess |-> csess[c], e |-> None]
           x == [sess |-> csess[c], n |-> cseq[c] + 1, e |-> None]
           new == [s \in Session |-> IF s = csess[c] THEN <<f>> ELSE <<>>]
<1>0. TypeOK /\ SessionTypeOK /\ csess[c] = c /\ c \in Session /\ pc[c] = "ready"
  BY DEF TypeInv, TypeOK, SendReady, Known, Created, Greeting, Session
<1>1. home[c] \in Worker /\ cseq[c] \in Nat /\ c # None
  BY <1>0, RequestType DEF TypeInv, HandshakeOrder, InOrder, Handled, SessionTypeOK
<1>2. /\ wire' = Written(c, f) /\ RecordEvents(home[c], new)
      /\ numbered' = numbered \cup {x}
      /\ pc' = [pc EXCEPT ![c] = NextRead(c)]
      /\ UNCHANGED <<csess, tsess, req, tasks, replayq, state, registered>>
  BY DEF SendReady, sendVars, clientVars
<1>3. f \in Numbered /\ f \in Frame /\ f.t = "READY" /\ f.sess = c /\ x.sess = c /\ x.e = None
  BY <1>0, <1>1 DEF Numbered, Frame
<1>4. new \in [Session -> Seq(Numbered)]
      /\ \A s \in Session : \A i \in DOMAIN new[s] : new[s][i] = f
  <2> HIDE DEF f
  <2>1. <<f>> \in Seq(Numbered) /\ <<>> \in Seq(Numbered)
    BY <1>3
  <2>2. \A i \in DOMAIN <<f>> : <<f>>[i] = f
    OBVIOUS
  <2>3. \A i \in DOMAIN <<>> : FALSE
    OBVIOUS
  <2>4. QED BY <2>1, <2>2, <2>3
<1> HIDE DEF f, x, new
<1>5. Announced(numbered', c) /\ numbered \subseteq numbered'
  BY <1>2, <1>3 DEF Announced
<1>6. /\ \A s : Announced(numbered, s) => Announced(numbered', s)
      /\ \A q : AllTold(numbered, q) => AllTold(numbered', q)
  BY <1>5, ToldGrows
<1>7. TabsTold' /\ RequestsTold'
  BY <1>2, <1>6 DEF Known, TabsTold, RequestsTold
<1>8. FramesTold'
  <2>1. \A d \in Conn : AllTold(numbered', wire[d])
    BY <1>6 DEF Known, FramesTold
  <2>2. AllTold(numbered', Append(wire[c], f))
    BY <1>0, <1>3, <1>5, <2>1, ToldAppend DEF TypeOK
  <2>3. \A d \in Conn : wire'[d] \in {wire[d], Append(wire[c], f)}
    BY <1>0, <1>2 DEF Written, TypeOK
  <2>4. QED BY <1>2, <1>6, <2>1, <2>2, <2>3 DEF Known, FramesTold
<1>9. CopiesTold'
  <2>1. \A s \in Session : AllTold(numbered', new[s])
    BY <1>3, <1>4, <1>5 DEF AllTold
  <2>2. QED BY <1>0, <1>1, <1>2, <1>4, <1>5, <2>1, RecordEventsTold DEF Known
<1>10. \A d \in Conn : pc'[d] = IF d = c THEN NextRead(c) ELSE pc[d]
  BY <1>0, <1>2 DEF TypeOK
<1>11. NextRead(c) \in {"exit", "receive"}
  BY DEF NextRead
<1>12. Created'
  <2>1. Created /\ csess' = csess
    BY <1>2 DEF Known
  <2>2. \A d \in Conn : Greeting(d)' => csess[d] = d /\ ~ Announced(numbered', d)
    <3> SUFFICES ASSUME NEW d \in Conn, Greeting(d)'
                 PROVE  csess[d] = d /\ ~ Announced(numbered', d)
      OBVIOUS
    <3>1. d # c /\ Greeting(d)
      BY <1>10, <1>11 DEF Greeting
    <3>2. QED BY <1>2, <1>3, <2>1, <3>1 DEF Created, Announced
  <2>3. \A y \in numbered' : csess[y.sess] = y.sess
    BY <1>0, <1>2, <1>3, <2>1 DEF Created
  <2>4. QED BY <1>6, <2>1, <2>2, <2>3 DEF Created
<1>13. Present'
  BY <1>0, <1>2, <1>10, <1>11 DEF Known, Present, Accepted
<1>14. QED BY <1>7, <1>8, <1>9, <1>12, <1>13 DEF Known

\* The connections dispatch_event serves on worker w and what it builds for
\* them, by session.
Targets(w) == {c \in ConnectionsFor(w, User) : WithinRate(c)}

EventFrame(w, c) == [t |-> "EVENT", s |-> cseq[c] + 1, sess |-> csess[c], e |-> cursor[w] + 1]

EventEntry(w, c) == [sess |-> csess[c], n |-> cseq[c] + 1, e |-> cursor[w] + 1]

NewFrames(w) ==
    [s \in Session |-> LET order == SetToSeq({c \in Targets(w) : csess[c] = s})
                       IN  [i \in DOMAIN order |-> EventFrame(w, order[i])]]

\* Every target gets one frame, in the list of its session.
LEMMA DispatchFrames ==
    ASSUME SessionManagerAssumption, TypeInv, NEW w \in Worker, cursor[w] < MaxEvent
    PROVE  /\ Targets(w) \in SUBSET Conn /\ cursor[w] + 1 \in Event /\ cursor[w] + 1 # None
           /\ \A c \in Targets(w) : /\ csess[c] \in Session /\ csess[c] # None /\ home[c] = w
                                    /\ cseq[c] \in Nat /\ state[c] = "ready"
                                    /\ EventFrame(w, c) \in Numbered
           /\ NewFrames(w) \in [Session -> Seq(Numbered)]
           /\ \A s \in Session : \A i \in DOMAIN NewFrames(w)[s] :
                 \E c \in Targets(w) : csess[c] = s /\ NewFrames(w)[s][i] = EventFrame(w, c)
           /\ \A c \in Targets(w) : \E i \in DOMAIN NewFrames(w)[csess[c]] :
                 NewFrames(w)[csess[c]][i] = EventFrame(w, c)
<1>1. cursor[w] + 1 \in Event /\ cursor[w] + 1 # None
  BY DEF TypeInv, TypeOK, Event, None, SessionManagerAssumption
<1>2. Targets(w) \in SUBSET Conn /\ IsFiniteSet(Targets(w))
  <2>1. Targets(w) \in SUBSET Conn
    BY DEF Targets, ConnectionsFor, TypeInv, TypeOK, SessionTypeOK
  <2>2. QED BY <2>1, ConnFinite, FS_Subset
<1>3. \A c \in Targets(w) : /\ csess[c] \in Session /\ csess[c] # None /\ home[c] = w
                            /\ cseq[c] \in Nat /\ state[c] = "ready"
  BY DEF Targets, ConnectionsFor, IsAuthenticated, TypeInv, TypeOK, SessionTypeOK,
         HandshakeOrder, InOrder, Identified
<1>4. \A c \in Targets(w) : EventFrame(w, c) \in Numbered
  BY <1>1, <1>3 DEF Numbered, Frame, EventFrame
<1>5. ASSUME NEW s \in Session
      PROVE  /\ NewFrames(w)[s] \in Seq(Numbered)
             /\ \A i \in DOMAIN NewFrames(w)[s] :
                   \E c \in Targets(w) : csess[c] = s /\ NewFrames(w)[s][i] = EventFrame(w, c)
             /\ \A c \in Targets(w) : csess[c] = s =>
                   \E i \in DOMAIN NewFrames(w)[s] : NewFrames(w)[s][i] = EventFrame(w, c)
  <2> DEFINE here == {c \in Targets(w) : csess[c] = s}
             order == SetToSeq(here)
  <2>1. IsFiniteSet(here)
    BY <1>2, FS_Subset
  <2>2. /\ order \in Seq(here)
        /\ \A c \in here : \E i \in DOMAIN order : order[i] = c
    <3> HIDE DEF here
    <3> QED BY <2>1, SetToSeqLists
  <2>3. NewFrames(w)[s] = [i \in DOMAIN order |-> EventFrame(w, order[i])]
    BY DEF NewFrames
  <2> HIDE DEF order
  <2>4. /\ DOMAIN order = 1 .. Len(order) /\ Len(order) \in Nat
        /\ \A i \in DOMAIN order : order[i] \in Targets(w) /\ csess[order[i]] = s
    <3>1. \A c \in here : c \in Targets(w) /\ csess[c] = s
      OBVIOUS
    <3> HIDE DEF here
    <3>2. QED BY <2>2, <3>1
  <2>5. NewFrames(w)[s] \in Seq(Numbered)
    BY <1>4, <2>3, <2>4
  <2>6. QED BY <2>2, <2>3, <2>4, <2>5
<1>6. NewFrames(w) = [s \in Session |-> NewFrames(w)[s]]
  BY DEF NewFrames
<1>7. NewFrames(w) \in [Session -> Seq(Numbered)]
  BY <1>5, <1>6
<1>8. QED BY <1>1, <1>2, <1>3, <1>4, <1>5, <1>7

\* dispatch_event announces nothing: its frames are not READY.
LEMMA DispatchKnown ==
    ASSUME SessionManagerAssumption, TypeInv, Known, NEW w \in Worker, Dispatch(w)
    PROVE  Known'
<1> DEFINE e  == cursor[w] + 1
           to == Targets(w)
           new == NewFrames(w)
<1>0. TypeOK /\ SessionTypeOK /\ cursor[w] < MaxEvent
  BY DEF TypeInv, TypeOK, Dispatch
<1>1. /\ to \in SUBSET Conn /\ e # None
      /\ \A c \in to : csess[c] \in Session /\ csess[c] # None /\ EventFrame(w, c) \in Numbered
  BY <1>0, DispatchFrames
<1>2. /\ new \in [Session -> Seq(Numbered)]
      /\ \A s \in Session : \A i \in DOMAIN new[s] : \E c \in to : new[s][i] = EventFrame(w, c)
  BY <1>0, DispatchFrames
<1>3. /\ tasks' = [c \in Conn |-> IF c \in to THEN Append(tasks[c], EventFrame(w, c)) ELSE tasks[c]]
      /\ RecordEvents(w, new)
      /\ numbered' = numbered \cup {EventEntry(w, c) : c \in to}
      /\ UNCHANGED <<csess, tsess, req, wire, replayq, state, registered, pc>>
  BY DEF Dispatch, NewFrames, Targets, EventFrame, EventEntry, loopVars, socketVars, clientVars
<1>4. \A c \in to : EventFrame(w, c).t # "READY" /\ EventEntry(w, c).sess = csess[c]
                    /\ EventEntry(w, c).e = e
  BY DEF EventFrame, EventEntry
<1> HIDE DEF e, to, new
<1>5. numbered \subseteq numbered' /\ \A s : Announced(numbered', s) <=> Announced(numbered, s)
  BY <1>1, <1>3, <1>4 DEF Announced
<1>6. \A q : AllTold(numbered, q) => AllTold(numbered', q)
  BY <1>5, ToldGrows
<1>7. TabsTold' /\ RequestsTold'
  BY <1>3, <1>5 DEF Known, TabsTold, RequestsTold
<1>8. FramesTold'
  <2>1. \A c \in Conn : /\ AllTold(numbered', wire[c]) /\ AllTold(numbered', replayq[c])
                        /\ AllTold(numbered', tasks[c]) /\ tasks[c] \in Seq(Frame)
    BY <1>0, <1>6, NumberedFrames DEF Known, FramesTold, TypeOK
  <2>2. \A c \in to : AllTold(numbered', Append(tasks[c], EventFrame(w, c)))
    <3> SUFFICES ASSUME NEW c \in to PROVE AllTold(numbered', Append(tasks[c], EventFrame(w, c)))
      OBVIOUS
    <3>1. EventFrame(w, c) \in Frame /\ EventFrame(w, c).t # "READY" /\ c \in Conn
      BY <1>1, <1>4 DEF Numbered
    <3>2. QED BY <2>1, <3>1, ToldAppend
  <2>3. QED BY <1>3, <2>1, <2>2 DEF FramesTold
<1>9. CopiesTold'
  <2>1. \A s \in Session : AllTold(numbered', new[s])
    BY <1>2, <1>4 DEF AllTold
  <2>2. QED BY <1>0, <1>2, <1>3, <1>5, <2>1, RecordEventsTold DEF Known
<1>10. Created'
  <2>1. \A c \in to : csess[csess[c]] = csess[c]
    BY <1>1 DEF Known, Created
  <2>2. \A x \in numbered' : csess[x.sess] = x.sess
    BY <1>3, <1>4, <2>1 DEF Known, Created
  <2>3. QED BY <1>3, <1>5, <2>2 DEF Known, Created, Greeting
<1>11. Present'
  BY <1>3 DEF Known, Present, Accepted
<1>12. QED BY <1>7, <1>8, <1>9, <1>10, <1>11 DEF Known

\* A dying worker forgets.
LEMMA CrashKnown ==
    ASSUME SessionManagerAssumption, TypeInv, Known, NEW w \in Worker, Crash(w)
    PROVE  Known'
<1>0. TypeOK /\ SessionTypeOK
  BY DEF TypeInv, TypeOK
<1>1. UNCHANGED <<numbered, csess, tsess, shared, wire>>
  BY DEF Crash, LoseWorker, clientVars, valkeyVars
<1>2. AllTold(numbered, <<>>) /\ AllTold(numbered, NoCopy.replay)
  BY DEF AllTold, NoCopy
<1>3. TabsTold'
  BY <1>1 DEF Known, TabsTold
<1>4. RequestsTold'
  BY <1>1 DEF Crash, Known, RequestsTold, NoRequest
<1>5. FramesTold'
  BY <1>1, <1>2 DEF Crash, Known, FramesTold
<1>6. CopiesTold'
  <2>1. \A v \in Worker, s \in Session : sessions'[v][s] \in {sessions[v][s], NoCopy}
    BY <1>0 DEF Crash, LoseWorker, SessionTypeOK
  <2>2. QED BY <1>1, <1>2, <2>1 DEF Known, CopiesTold
<1>7. Created'
  BY <1>1 DEF Crash, Known, Created, Greeting
<1>8. Present'
  <2>1. \A c \in Conn : pc[c] # "none" => home[c] \in Worker
    BY DEF TypeInv, HandshakeOrder, InOrder, Handled
  <2>2. QED BY <1>0, <2>1 DEF Crash, LoseWorker, Known, Present, Accepted, SessionTypeOK, TypeOK
<1>9. QED BY <1>3, <1>4, <1>5, <1>6, <1>7, <1>8 DEF Known

\* An expiry ages a worker's copy or removes a shared one.
LEMMA ExpireEffect ==
    ASSUME SessionTypeOK, Expire
    PROVE  /\ \A w \in Worker, s \in Session :
                 /\ sessions'[w][s].held = sessions[w][s].held
                 /\ sessions'[w][s].conn = sessions[w][s].conn
                 /\ sessions'[w][s].sequence = sessions[w][s].sequence
                 /\ sessions'[w][s].replay = sessions[w][s].replay
           /\ \A s \in Session : shared'[s] \in {shared[s], NoCopy}
<1>1. ASSUME NEW v \in Worker, NEW r \in Session, CopyExpires(v, r)
      PROVE  /\ \A w \in Worker, s \in Session :
                   sessions'[w][s] \in {sessions[w][s], [sessions[w][s] EXCEPT !.fresh = FALSE]}
             /\ shared' = shared
  BY <1>1 DEF CopyExpires, SessionTypeOK, valkeyVars
<1>2. ASSUME NEW r \in Session, SharedExpires(r)
      PROVE  /\ sessions' = sessions
             /\ \A s \in Session : shared'[s] \in {shared[s], NoCopy}
  BY <1>2 DEF SharedExpires, SessionTypeOK, managerVars
<1>3. \A w \in Worker, s \in Session :
          LET copy == [sessions[w][s] EXCEPT !.fresh = FALSE]
          IN  /\ copy.held = sessions[w][s].held /\ copy.conn = sessions[w][s].conn
              /\ copy.sequence = sessions[w][s].sequence /\ copy.replay = sessions[w][s].replay
  BY DEF SessionTypeOK, SessionCopy
<1>4. CASE \E v \in Worker, r \in Session : CopyExpires(v, r)
  <2>0. shared' = shared
    BY <1>1, <1>4
  <2> SUFFICES ASSUME NEW w \in Worker, NEW s \in Session
               PROVE  /\ sessions'[w][s].held = sessions[w][s].held
                      /\ sessions'[w][s].conn = sessions[w][s].conn
                      /\ sessions'[w][s].sequence = sessions[w][s].sequence
                      /\ sessions'[w][s].replay = sessions[w][s].replay
    BY <2>0
  <2>1. sessions'[w][s] \in {sessions[w][s], [sessions[w][s] EXCEPT !.fresh = FALSE]}
    BY <1>1, <1>4
  <2>2. CASE sessions'[w][s] = sessions[w][s]
    BY <2>2
  <2>3. CASE sessions'[w][s] = [sessions[w][s] EXCEPT !.fresh = FALSE]
    <3> DEFINE copy == [sessions[w][s] EXCEPT !.fresh = FALSE]
    <3>1. /\ copy.held = sessions[w][s].held /\ copy.conn = sessions[w][s].conn
          /\ copy.sequence = sessions[w][s].sequence /\ copy.replay = sessions[w][s].replay
      BY <1>3
    <3> HIDE DEF copy
    <3>2. sessions'[w][s] = copy
      BY <2>3 DEF copy
    <3>3. QED BY <3>1, <3>2
  <2>4. QED BY <2>1, <2>2, <2>3
<1>5. CASE \E r \in Session : SharedExpires(r)
  BY <1>2, <1>5
<1>6. CASE (\E c \in Conn : InfoExpires(c)) \/ (\E u \in User : MembersExpire(u))
  BY <1>6 DEF InfoExpires, MembersExpire, managerVars
<1>7. QED BY <1>4, <1>5, <1>6 DEF Expire

\* An expiry changes no frame.
LEMMA ExpireKnown ==
    ASSUME TypeInv, Known, Expire
    PROVE  Known'
<1>0. TypeOK /\ SessionTypeOK
  BY DEF TypeInv, TypeOK
<1>1. UNCHANGED <<numbered, csess, tsess, wire, tasks, replayq, req, pc, state, registered>>
  BY DEF Expire, CopyExpires, SharedExpires, InfoExpires, MembersExpire, loopVars, socketVars, sendVars, clientVars, eventVars,
         connectionVars, managerVars
<1>2. /\ \A w \in Worker, s \in Session : sessions'[w][s].replay = sessions[w][s].replay
      /\ \A s \in Session : shared'[s] \in {shared[s], NoCopy}
  BY <1>0, ExpireEffect
<1>3. CopiesTold'
  <2>1. AllTold(numbered, NoCopy.replay)
    BY DEF AllTold, NoCopy
  <2>2. QED BY <1>1, <1>2, <2>1 DEF Known, CopiesTold
<1>4. QED BY <1>1, <1>3 DEF Known, TabsTold, RequestsTold, FramesTold, Created, Present, Accepted,
                            Greeting

\* Every step keeps the session ids where READY brought them.
LEMMA StepKnown ==
    ASSUME SessionManagerAssumption, GatewayAssumption, TypeInv, TypeInv', Known, [Next]_vars
    PROVE  Known'
<1>1. CASE UNCHANGED vars
  <2>1. UNCHANGED <<numbered, csess, sessions, shared, tsess, wire, tasks, replayq, req, pc, state,
                    registered>>
    BY <1>1 DEF vars, sessionVars, connectionVars, managerVars, valkeyVars, loopVars, socketVars,
                sendVars, clientVars, eventVars
  <2>2. QED BY <2>1 DEF Known, TabsTold, RequestsTold, FramesTold, CopiesTold, Created, Present,
                        Accepted, Greeting
<1>2. ASSUME NEW t \in Tab, NEW c \in Conn, NEW w \in Worker, Connect(t, c, w)
      PROVE  Known'
  BY <1>2, ConnectKnown
<1>3. ASSUME NEW t \in Tab, Receive(t)
      PROVE  Known'
  BY <1>3, ReceiveKnown
<1>4. ASSUME NEW t \in Tab, NEW how \in {"lost", "closed"}, Leave(t, how)
      PROVE  Known'
  BY <1>4, LeaveKnown
<1>5. ASSUME NEW c \in Conn, ServerStep(c)
      PROVE  Known'
  BY <1>5, QuietSteps, IdentifyVerifiedKnown, SendReadyKnown, RefuseKnown, ResumeAcceptedKnown,
     ReplayStartKnown, SendKnown, FinallyKnown DEF ServerStep
<1>6. ASSUME NEW c \in Conn, MonitorStep(c) \/ TaskSend(c) \/ NoticeLoss(c) \/ WindowReset(c)
      PROVE  Known'
  BY <1>6, QuietSteps, SendKnown DEF MonitorStep
<1>7. ASSUME NEW w \in Worker, Dispatch(w) \/ Crash(w)
      PROVE  Known'
  BY <1>7, DispatchKnown, CrashKnown
<1>8. CASE Expire
  BY <1>8, ExpireKnown
<1>9. QED BY <1>1, <1>2, <1>3, <1>4, <1>5, <1>6, <1>7, <1>8 DEF Next

-----------------------------------------------------------------------------

\* A session's id is known to its own connection alone until its READY is
\* built, over all workers, reconnects and crashes: no client, request, frame
\* or buffered copy names a session between create_session and READY.
THEOREM SessionsAreSecret == Spec => [](TypeInv /\ Known)
<1>1. Init => TypeInv /\ Known
  BY InitType, InitKnown, SessionManagerAssumption, GatewayAssumption
<1>2. TypeInv /\ Known /\ [Next]_vars => (TypeInv /\ Known)'
  BY StepType, StepKnown, SessionManagerAssumption, GatewayAssumption
<1>3. QED BY <1>1, <1>2, PTL DEF Spec

-----------------------------------------------------------------------------
(* Which numbers a client can know                                         *)

Given(given, s, n) == \E x \in given : x.sess = s /\ x.n = n

\* The frames are of session s and carry numbers it was given.
AllGiven(given, s, frames) ==
    \A i \in DOMAIN frames :
        frames[i].t # "INVALID_SESSION" => frames[i].sess = s /\ Given(given, s, frames[i].s)

CopyGiven(given, s, copy) ==
    /\ AllGiven(given, s, copy.replay)
    /\ copy.sequence = 0 \/ Given(given, s, copy.sequence)

\* Whatever a connection still has to send is of the connection's session.
FramesGiven ==
    \A c \in Conn : /\ AllGiven(numbered, csess[c], wire[c])
                    /\ AllGiven(numbered, csess[c], tasks[c])
                    /\ AllGiven(numbered, csess[c], replayq[c])

CopiesGiven ==
    /\ \A w \in Worker, s \in Session : CopyGiven(numbered, s, sessions[w][s])
    /\ \A s \in Session : CopyGiven(numbered, s, shared[s])

RequestsGiven ==
    \A c \in Conn : req[c].op = "resume" => Given(numbered, req[c].sess, req[c].seq)

NumbersStartAtOne == \A x \in numbered : x.n # 0

\* A socket belongs to one tab.
OneTab ==
    /\ \A t \in Tab : tconn[t] # None => pc[tconn[t]] # "none"
    /\ \A t, u \in Tab : tconn[t] # None /\ tconn[t] = tconn[u] => t = u

\* The session a tab holds is its connection's, or the one it asks for.
Follows(t) ==
    tconn[t] # None /\ tsess[t] # None =>
        IF csess[tconn[t]] # None THEN tsess[t] = csess[tconn[t]]
        ELSE req[tconn[t]].op # "none" => req[tconn[t]].sess = tsess[t]

Heard == /\ KnownWasGiven /\ FramesGiven /\ CopiesGiven /\ RequestsGiven
         /\ NumbersStartAtOne /\ OneTab /\ \A t \in Tab : Follows(t)

\* What was given stays given.
LEMMA GivenGrows ==
    ASSUME NEW M, NEW N, M \subseteq N
    PROVE  /\ \A s, n : Given(M, s, n) => Given(N, s, n)
           /\ \A s, q : AllGiven(M, s, q) => AllGiven(N, s, q)
           /\ \A s, copy : CopyGiven(M, s, copy) => CopyGiven(N, s, copy)
<1>1. \A s, n : Given(M, s, n) => Given(N, s, n)
  BY DEF Given
<1>2. \A s, q : AllGiven(M, s, q) => AllGiven(N, s, q)
  BY <1>1 DEF AllGiven
<1>3. QED BY <1>1, <1>2 DEF CopyGiven

\* A frame is added.
LEMMA GivenAppend ==
    ASSUME NEW N, NEW s, NEW q \in Seq(Frame), AllGiven(N, s, q), NEW f \in Frame,
           f.t # "INVALID_SESSION" => f.sess = s /\ Given(N, s, f.s)
    PROVE  AllGiven(N, s, Append(q, f))
<1>1. \A i \in DOMAIN Append(q, f) : Append(q, f)[i] = f \/ (i \in DOMAIN q /\ Append(q, f)[i] = q[i])
  OBVIOUS
<1>2. QED BY <1>1 DEF AllGiven

\* A frame is taken.
LEMMA GivenTake ==
    ASSUME NEW N, NEW s, NEW q \in Seq(Frame), AllGiven(N, s, q), q # <<>>
    PROVE  /\ AllGiven(N, s, Tail(q))
           /\ Head(q) \in Frame
           /\ Head(q).t # "INVALID_SESSION" => Head(q).sess = s /\ Given(N, s, Head(q).s)
<1>1. \A i \in DOMAIN Tail(q) : i + 1 \in DOMAIN q /\ Tail(q)[i] = q[i + 1]
  OBVIOUS
<1>2. 1 \in DOMAIN q /\ Head(q) = q[1] /\ Head(q) \in Frame
  OBVIOUS
<1>3. QED BY <1>1, <1>2 DEF AllGiven

\* Before a connection has a session there is nothing of one to send on it.
LEMMA NothingYet ==
    ASSUME NEW N, NEW q \in Seq(Frame), AllGiven(N, None, q), NEW s
    PROVE  AllGiven(N, s, q)
<1>1. \A i \in DOMAIN q : q[i] \in Frame
  OBVIOUS
<1>2. QED BY <1>1 DEF AllGiven, Frame

\* send_json writes a frame of the connection's session.
LEMMA GivenWritten ==
    ASSUME TypeOK, FramesGiven, NEW c \in Conn, NEW f \in Frame,
           f.t # "INVALID_SESSION" => f.sess = csess[c] /\ Given(numbered, csess[c], f.s)
    PROVE  \A d \in Conn : AllGiven(numbered, csess[d], Written(c, f)[d])
<1> SUFFICES ASSUME NEW d \in Conn PROVE AllGiven(numbered, csess[d], Written(c, f)[d])
  OBVIOUS
<1>1. wire \in [Conn -> Seq(Frame)] /\ AllGiven(numbered, csess[d], wire[d])
      /\ AllGiven(numbered, csess[c], wire[c])
  BY DEF TypeOK, FramesGiven
<1>2. AllGiven(numbered, csess[c], Append(wire[c], f))
  BY <1>1, GivenAppend
<1>3. Written(c, f)[d] = wire[d] \/ (d = c /\ Written(c, f)[d] = Append(wire[c], f))
  BY <1>1 DEF Written
<1>4. QED BY <1>1, <1>2, <1>3

\* Whatever a handler finds of a session was given to it.
LEMMA GivenFound ==
    ASSUME CopiesGiven, SessionTypeOK, NEW w \in Worker, NEW s \in Session
    PROVE  CopyGiven(numbered, s, GetSession(w, s))
<1>1. shared[s] \in SessionCopy
  BY DEF SessionTypeOK
<1>2. Hydrated(s).replay = shared[s].replay /\ Hydrated(s).sequence = shared[s].sequence
  BY <1>1 DEF Hydrated, SessionCopy
<1>3. CopyGiven(numbered, s, Hydrated(s))
  BY <1>2 DEF CopiesGiven, CopyGiven
<1>4. QED BY <1>3 DEF CopiesGiven, GetSession

\* A session nobody holds was given nothing.
LEMMA GivenNoCopy == \A N, s : CopyGiven(N, s, NoCopy)
BY DEF CopyGiven, AllGiven, NoCopy

\* The initial state.
LEMMA InitHeard == ASSUME SessionManagerAssumption, GatewayAssumption, Init PROVE Heard
<1>1. KnownWasGiven /\ RequestsGiven /\ NumbersStartAtOne
  BY DEF Init, KnownWasGiven, RequestsGiven, NumbersStartAtOne, NoRequest
<1>2. FramesGiven
  BY DEF Init, FramesGiven, AllGiven
<1>3. CopiesGiven
  BY GivenNoCopy DEF Init, SessionInit, CopiesGiven
<1>4. OneTab /\ \A t \in Tab : Follows(t)
  BY DEF Init, OneTab, Follows
<1>5. QED BY <1>1, <1>2, <1>3, <1>4 DEF Heard

\* A step that gives no number, creates or resumes no session, at most drops
\* frames and answers requests, and at most lets tabs leave.
LEMMA QuietHeard ==
    ASSUME Heard,
           UNCHANGED <<numbered, csess, sessions, shared, tsess, tseq>>,
           \A c \in Conn : /\ req'[c] \in {req[c], NoRequest}
                           /\ wire'[c] \in {wire[c], <<>>}
                           /\ tasks'[c] \in {tasks[c], <<>>}
                           /\ replayq'[c] \in {replayq[c], <<>>}
                           /\ pc'[c] = "none" => pc[c] = "none",
           tconn \in [Tab -> Conn \cup {None}],
           \A t \in Tab : tconn'[t] \in {tconn[t], None}
    PROVE  Heard'
<1>1. KnownWasGiven' /\ NumbersStartAtOne' /\ CopiesGiven'
  BY DEF Heard, KnownWasGiven, NumbersStartAtOne, CopiesGiven
<1>2. RequestsGiven'
  BY DEF Heard, RequestsGiven, NoRequest
<1>3. FramesGiven'
  <2>1. \A N, s : AllGiven(N, s, <<>>)
    BY DEF AllGiven
  <2>2. QED BY <2>1 DEF Heard, FramesGiven
<1>4. OneTab'
  BY DEF Heard, OneTab
<1>5. ASSUME NEW t \in Tab PROVE Follows(t)'
  <2>1. CASE tconn'[t] = None
    BY <2>1 DEF Follows
  <2>2. CASE tconn'[t] = tconn[t] /\ tconn[t] \in Conn
    BY <2>2 DEF Heard, Follows, NoRequest
  <2>3. QED BY <2>1, <2>2
<1>6. QED BY <1>1, <1>2, <1>3, <1>4, <1>5 DEF Heard

\* The steps of that kind.
LEMMA QuietHeardSteps ==
    ASSUME TypeInv, Heard, NEW c \in Conn,
           \/ ReceiveRequest(c) \/ IdentifyRefused(c) \/ PresenceOnline(c) \/ LoopExit(c)
           \/ HeartbeatOnClosing(c) \/ HeartbeatClose(c) \/ HeartbeatClosed(c)
           \/ NoticeLoss(c) \/ WindowReset(c) \/ Finally(c)
    PROVE  Heard'
<1> USE DEF TypeInv, TypeOK, SessionTypeOK, sessionVars, connectionVars,
            managerVars, valkeyVars, loopVars, socketVars, sendVars, clientVars, eventVars
<1>1. CASE ReceiveRequest(c)
  BY <1>1, QuietHeard DEF ReceiveRequest, Request
<1>2. CASE IdentifyRefused(c)
  BY <1>2, QuietHeard DEF IdentifyRefused, CloseAndExit
<1>3. CASE PresenceOnline(c)
  BY <1>3, QuietHeard DEF PresenceOnline
<1>4. CASE LoopExit(c) \/ HeartbeatOnClosing(c)
  BY <1>4, QuietHeard DEF LoopExit, HeartbeatOnClosing
<1>5. CASE HeartbeatClose(c) \/ HeartbeatClosed(c)
  BY <1>5, QuietHeard DEF HeartbeatClose, HeartbeatClosed
<1>6. CASE NoticeLoss(c) \/ WindowReset(c)
  BY <1>6, QuietHeard DEF NoticeLoss, WindowReset
<1>7. CASE Finally(c)
  BY <1>7, QuietHeard DEF Finally
<1>8. QED BY <1>1, <1>2, <1>3, <1>4, <1>5, <1>6, <1>7

\* A tab leaves its socket, and what was on it is lost.
LEMMA LeaveHeard ==
    ASSUME TypeInv, Heard, NEW t \in Tab, NEW how \in {"lost", "closed"}, Leave(t, how)
    PROVE  Heard'
BY QuietHeard DEF Leave, TypeInv, TypeOK, SessionTypeOK, sessionVars, connectionVars,
   managerVars, valkeyVars, loopVars, sendVars, eventVars

\* A connection is accepted; the client resumes with what it received.
LEMMA ConnectHeard ==
    ASSUME SessionManagerAssumption, TypeInv, Heard,
           NEW t \in Tab, NEW c \in Conn, NEW w \in Worker, Connect(t, c, w)
    PROVE  Heard'
<1>0. TypeOK /\ SessionTypeOK /\ csess[c] = None
  BY DEF TypeInv, TypeOK, Connect, HandshakeOrder, InOrder, Identified
<1>1. /\ UNCHANGED <<numbered, csess, sessions, shared, tsess, tseq, wire, tasks, replayq>>
      /\ tconn[t] = None /\ pc[c] = "none"
      /\ tconn' = [tconn EXCEPT ![t] = c]
      /\ pc' = [pc EXCEPT ![c] = "receive"]
      /\ req' = [req EXCEPT ![c] = IF tsess[t] # None
                                   THEN Resume(UserOf[t], tsess[t], tseq[t])
                                   ELSE Identify(UserOf[t])]
  BY DEF Connect, AddConnection, sendVars, valkeyVars, eventVars
<1>2. KnownWasGiven' /\ NumbersStartAtOne' /\ CopiesGiven' /\ FramesGiven'
  BY <1>1 DEF Heard, KnownWasGiven, NumbersStartAtOne, CopiesGiven, FramesGiven
<1>3. /\ tsess[t] # None => Given(numbered, tsess[t], tseq[t])
      /\ req'[c].op = "resume" => tsess[t] # None /\ req'[c].seq = tseq[t]
      /\ req'[c].op = "resume" => req'[c].sess = tsess[t]
      /\ tsess[t] # None => req'[c].sess = tsess[t]
  BY <1>0, <1>1 DEF Heard, KnownWasGiven, Given, Resume, Identify, TypeOK
<1>4. RequestsGiven'
  BY <1>0, <1>1, <1>3 DEF Heard, RequestsGiven, TypeOK
<1>5. \A u \in Tab : tconn[u] # c /\ tconn'[u] = IF u = t THEN c ELSE tconn[u]
  <2>1. c # None
    BY RequestType DEF Session
  <2>2. /\ tconn'[t] = c /\ \A u \in Tab \ {t} : tconn'[u] = tconn[u]
        /\ tconn[t] = None
    <3>1. tconn \in [Tab -> Conn \cup {None}]
      BY <1>0 DEF TypeOK
    <3>2. QED BY ONLY <1>1, <3>1
  <2>3. \A u \in Tab : tconn[u] # c
    BY <1>1, <2>1 DEF Heard, OneTab
  <2>4. QED BY <2>2, <2>3
<1>6. OneTab'
  <2>1. \A d \in Conn : pc'[d] = IF d = c THEN "receive" ELSE pc[d]
    BY <1>0, <1>1 DEF TypeOK
  <2>2. \A u \in Tab : tconn'[u] # None => pc'[tconn'[u]] # "none"
    <3> SUFFICES ASSUME NEW u \in Tab, tconn'[u] # None PROVE pc'[tconn'[u]] # "none"
      OBVIOUS
    <3>1. CASE u = t
      BY ONLY <1>5, <2>1, <3>1
    <3>2. CASE u # t
      <4>1. tconn'[u] = tconn[u] /\ tconn[u] # c
        BY ONLY <1>5, <3>2
      <4>2. tconn[u] \in Conn /\ pc[tconn[u]] # "none"
        BY <1>0, <4>1 DEF Heard, OneTab, TypeOK
      <4>3. QED BY ONLY <2>1, <4>1, <4>2
    <3>3. QED BY <3>1, <3>2
  <2>3. \A u, v \in Tab : tconn'[u] # None /\ tconn'[u] = tconn'[v] => u = v
    BY <1>5 DEF Heard, OneTab
  <2>4. QED BY <2>2, <2>3 DEF OneTab
<1>7. ASSUME NEW u \in Tab PROVE Follows(u)'
  <2>1. CASE u = t
    BY <1>0, <1>1, <1>3, <1>5, <2>1 DEF Follows
  <2>2. CASE u # t
    <3>1. tconn'[u] = tconn[u] /\ tconn[u] # c
      BY <1>5, <2>2
    <3>2. tconn[u] # None => req'[tconn[u]] = req[tconn[u]]
      BY <1>0, <1>1, <3>1 DEF TypeOK
    <3>3. QED BY <1>1, <3>1, <3>2 DEF Heard, Follows
  <2>3. QED BY <2>1, <2>2
<1>8. QED BY <1>2, <1>4, <1>6, <1>7 DEF Heard

\* A tab takes a frame: it is of the session the tab holds, or READY.
LEMMA ReceiveHeard ==
    ASSUME SessionManagerAssumption, TypeInv, Heard, NEW t \in Tab, Receive(t)
    PROVE  Heard'
<1> DEFINE c == tconn[t]
           f == Head(wire[c])
<1>0. TypeOK /\ SessionTypeOK
  BY DEF TypeInv, TypeOK
<1>1. c \in Conn /\ c # None /\ wire[c] # <<>>
  BY <1>0 DEF Receive, TypeOK
<1>2. /\ UNCHANGED <<numbered, csess, sessions, shared, tasks, replayq, tconn, pc>>
      /\ wire' = [wire EXCEPT ![c] = Tail(@)]
      /\ tseq' = [tseq EXCEPT ![t] = IF f.s # 0 THEN f.s ELSE @]
      /\ tsess' = [tsess EXCEPT ![t] = IF f.t = "READY" THEN f.sess
                                       ELSE IF f.t = "INVALID_SESSION" THEN None
                                       ELSE @]
      /\ req' = [req EXCEPT ![c] = IF f.t = "INVALID_SESSION" THEN Identify(UserOf[t]) ELSE @]
  BY DEF Receive, sessionVars, connectionVars, managerVars, valkeyVars, loopVars, sendVars, eventVars
<1>3. /\ AllGiven(numbered, csess[c], Tail(wire[c])) /\ f \in Frame
      /\ f.t # "INVALID_SESSION" => f.sess = csess[c] /\ Given(numbered, csess[c], f.s)
  <2>1. wire[c] \in Seq(Frame) /\ AllGiven(numbered, csess[c], wire[c])
    BY <1>0, <1>1 DEF Heard, FramesGiven, TypeOK
  <2> HIDE DEF c
  <2>2. QED BY <1>1, <2>1, GivenTake
<1>4. f.t # "INVALID_SESSION" => csess[c] # None /\ f.s # 0
  BY <1>3 DEF Frame, Heard, NumbersStartAtOne, Given
<1>5. Follows(t) /\ (tsess[t] # None => Given(numbered, tsess[t], tseq[t]))
  BY DEF Heard, KnownWasGiven, Given
<1>6. f.t # "INVALID_SESSION" /\ tsess'[t] # None => tsess'[t] = csess[c] /\ tseq'[t] = f.s
  <2>1. f.t # "INVALID_SESSION" => tseq'[t] = f.s /\ tsess'[t] \in {tsess[t], f.sess}
    BY <1>0, <1>2, <1>4 DEF TypeOK
  <2>2. f.t # "INVALID_SESSION" /\ tsess[t] # None => tsess[t] = csess[c]
    BY <1>1, <1>4, <1>5 DEF Follows
  <2>3. QED BY <1>3, <2>1, <2>2
<1>7. f.t = "INVALID_SESSION" => tsess'[t] = None
  BY <1>0, <1>2 DEF TypeOK
<1>8. \A u \in Tab : u # t => tsess'[u] = tsess[u] /\ tseq'[u] = tseq[u]
  BY <1>0, <1>2 DEF TypeOK
<1>9. \A d \in Conn : d # c => req'[d] = req[d] /\ wire'[d] = wire[d]
  BY <1>0, <1>2 DEF TypeOK
<1> HIDE DEF f
<1>10. KnownWasGiven'
  <2>1. \A u \in Tab : tsess'[u] # None => Given(numbered, tsess'[u], tseq'[u])
    BY <1>3, <1>6, <1>7, <1>8 DEF Heard, KnownWasGiven, Given
  <2>2. QED BY <1>2, <2>1 DEF KnownWasGiven, Given
<1>11. FramesGiven'
  BY <1>0, <1>2, <1>3, <1>9 DEF Heard, FramesGiven, TypeOK
<1>12. RequestsGiven'
  <2>1. req'[c].op = "resume" => req'[c] = req[c]
    BY <1>0, <1>1, <1>2 DEF Identify, TypeOK
  <2>2. QED BY <1>2, <1>9, <2>1 DEF Heard, RequestsGiven
<1>13. NumbersStartAtOne' /\ OneTab' /\ CopiesGiven'
  BY <1>2 DEF Heard, NumbersStartAtOne, OneTab, CopiesGiven
<1>14. ASSUME NEW u \in Tab PROVE Follows(u)'
  <2>1. CASE u # t
    <3>1. tconn[u] # None => tconn[u] # c /\ tconn[u] \in Conn
      BY <1>0, <1>1, <2>1 DEF Heard, OneTab, TypeOK
    <3>2. QED BY <1>2, <1>8, <1>9, <2>1, <3>1 DEF Heard, Follows
  <2>2. CASE u = t
    BY <1>2, <1>4, <1>6, <1>7, <2>2 DEF Follows
  <2>3. QED BY <2>1, <2>2
<1>15. QED BY <1>10, <1>11, <1>12, <1>13, <1>14 DEF Heard

\* A scheduled send, or a frame of a replay, is written.
LEMMA SendHeard ==
    ASSUME TypeInv, Heard, NEW c \in Conn, TaskSend(c) \/ ReplaySend(c)
    PROVE  Heard'
<1>0. TypeOK /\ SessionTypeOK
  BY DEF TypeInv, TypeOK
<1>1. /\ UNCHANGED <<numbered, csess, sessions, shared, tsess, tseq, tconn, req>>
      /\ \A d \in Conn : pc'[d] = "none" => pc[d] = "none"
  BY <1>0 DEF TaskSend, ReplaySend, sessionVars, connectionVars, managerVars, valkeyVars, clientVars,
              eventVars, loopVars, NextRead, TypeOK
<1>2. KnownWasGiven' /\ NumbersStartAtOne' /\ CopiesGiven' /\ RequestsGiven' /\ OneTab'
  <2>1. OneTab'
    BY <1>0, <1>1 DEF Heard, OneTab, TypeOK
  <2>2. QED BY <1>1, <2>1 DEF Heard, KnownWasGiven, NumbersStartAtOne, CopiesGiven, RequestsGiven
<1>3. \A t \in Tab : Follows(t)'
  BY <1>1 DEF Heard, Follows
<1>4. FramesGiven'
  <2>1. CASE TaskSend(c)
    <3>1. tasks[c] # <<>> /\ tasks[c] \in Seq(Frame) /\ AllGiven(numbered, csess[c], tasks[c])
      BY <1>0, <2>1, NumberedFrames DEF TaskSend, Heard, FramesGiven, TypeOK
    <3>2. AllGiven(numbered, csess[c], Tail(tasks[c]))
          /\ \A d \in Conn : AllGiven(numbered, csess[d], Written(c, Head(tasks[c]))[d])
      BY <1>0, <3>1, GivenTake, GivenWritten DEF Heard
    <3>3. QED BY <1>0, <1>1, <2>1, <3>2 DEF TaskSend, Heard, FramesGiven, TypeOK
  <2>2. CASE ReplaySend(c)
    <3>1. replayq[c] # <<>>
      BY <2>2 DEF ReplaySend, TypeInv, HandshakeOrder, InOrder, Handled
    <3>2. replayq[c] \in Seq(Frame) /\ AllGiven(numbered, csess[c], replayq[c])
      BY <1>0, <2>2, NumberedFrames DEF ReplaySend, Heard, FramesGiven, TypeOK
    <3>3. AllGiven(numbered, csess[c], Tail(replayq[c]))
          /\ \A d \in Conn : AllGiven(numbered, csess[d], Written(c, Head(replayq[c]))[d])
      BY <1>0, <3>1, <3>2, GivenTake, GivenWritten DEF Heard
    <3>4. QED BY <1>0, <1>1, <2>2, <3>3 DEF ReplaySend, Heard, FramesGiven, TypeOK
  <2>3. QED BY <2>1, <2>2
<1>5. QED BY <1>2, <1>3, <1>4 DEF Heard

\* A refusal leaves the copy it found, or none.
LEMMA RefuseSessionGiven ==
    ASSUME SessionTypeOK, CopiesGiven, NEW w \in Worker, NEW s \in Session, NEW u,
           RefuseSession(w, s, u), UNCHANGED numbered
    PROVE  CopiesGiven'
<1>1. CopyGiven(numbered, s, GetSession(w, s))
  BY GivenFound
<1>2. \A v \in Worker, r \in Session :
          \/ sessions'[v][r] \in {sessions[v][r], NoCopy}
          \/ r = s /\ sessions'[v][r] = GetSession(w, s)
  BY DEF SessionTypeOK, RefuseSession
<1>3. \A r \in Session : shared'[r] \in {shared[r], NoCopy}
  BY DEF SessionTypeOK, RefuseSession
<1>4. QED BY <1>1, <1>2, <1>3, GivenNoCopy DEF CopiesGiven

\* A refused RESUME is answered without a number.
LEMMA RefuseHeard ==
    ASSUME TypeInv, Heard, NEW c \in Conn, ResumeUnauthorized(c) \/ ResumeRejected(c)
    PROVE  Heard'
<1>0. TypeOK /\ SessionTypeOK
  BY DEF TypeInv, TypeOK
<1>1. pc[c] = "resume" /\ Refuse(c)
  BY DEF ResumeUnauthorized, ResumeRejected
<1>2. /\ UNCHANGED <<numbered, csess, tsess, tseq, tconn, tasks, replayq>>
      /\ \A d \in Conn : pc'[d] = "none" => pc[d] = "none"
      /\ \A d \in Conn : req'[d] \in {req[d], NoRequest}
  BY <1>0, <1>1 DEF Refuse, connectionVars, sendVars, clientVars, eventVars, NextRead, TypeOK
<1>3. KnownWasGiven' /\ NumbersStartAtOne' /\ RequestsGiven' /\ OneTab'
  <2>1. OneTab'
    BY <1>0, <1>2 DEF Heard, OneTab, TypeOK
  <2>2. RequestsGiven'
    BY <1>2 DEF Heard, RequestsGiven, NoRequest
  <2>3. QED BY <1>2, <2>1, <2>2 DEF Heard, KnownWasGiven, NumbersStartAtOne
<1>4. \A t \in Tab : Follows(t)'
  BY <1>0, <1>2 DEF Heard, Follows, NoRequest, TypeOK
<1>5. FramesGiven'
  <2>1. InvalidSession \in Frame /\ InvalidSession.t = "INVALID_SESSION"
    BY DEF InvalidSession, Frame
  <2>2. \A d \in Conn : AllGiven(numbered, csess[d], Written(c, InvalidSession)[d])
    BY <1>0, <2>1, GivenWritten DEF Heard
  <2>3. QED BY <1>1, <1>2, <2>2 DEF Heard, FramesGiven, Refuse
<1>6. CopiesGiven'
  <2>1. CASE ResumeUnauthorized(c)
    BY <1>2, <2>1 DEF ResumeUnauthorized, Heard, CopiesGiven
  <2>2. CASE ResumeRejected(c)
    <3>1. home[c] \in Worker /\ req[c].sess \in Session
      <4>1. req[c].op = "resume" /\ home[c] \in Worker
        BY <1>1 DEF TypeInv, HandshakeOrder, InOrder, Handled
      <4>2. QED BY <1>0, <4>1 DEF TypeOK, Request
    <3>2. RefuseSession(home[c], req[c].sess, req[c].user)
      BY <2>2 DEF ResumeRejected
    <3>3. QED BY <1>0, <1>2, <3>1, <3>2, RefuseSessionGiven DEF Heard
  <2>3. QED BY <2>1, <2>2
<1>7. QED BY <1>3, <1>4, <1>5, <1>6 DEF Heard

\* replay_events takes frames the session was given.
LEMMA ReplayStartHeard ==
    ASSUME TypeInv, Heard, NEW c \in Conn, ReplayStart(c)
    PROVE  Heard'
<1> DEFINE copy == GetSession(home[c], csess[c])
           missed == Missed(copy, req[c].seq)
<1>0. TypeOK /\ SessionTypeOK
  BY DEF TypeInv, TypeOK
<1>1. pc[c] = "resumed" /\ home[c] \in Worker /\ csess[c] \in Session /\ csess[c] # None
  BY <1>0 DEF ReplayStart, TypeInv, HandshakeOrder, InOrder, Handled, Identified, SessionTypeOK
<1>2. UNCHANGED <<numbered, csess, tsess, tseq, tconn, tasks, wire, shared>>
  BY DEF ReplayStart, connectionVars, clientVars, eventVars, valkeyVars
<1>3. /\ sessions' = [sessions EXCEPT ![home[c]][csess[c]] = copy]
      /\ replayq' = [replayq EXCEPT ![c] = missed]
      /\ req' = [req EXCEPT ![c] = NoRequest]
      /\ pc' = [pc EXCEPT ![c] = IF missed = <<>> THEN NextRead(c) ELSE "replay"]
  BY DEF ReplayStart
<1>4. copy.replay \in Seq(Numbered) /\ CopyGiven(numbered, csess[c], copy)
  BY <1>0, <1>1, GivenFound, GetSessionType DEF Heard, SessionCopy
<1>5. AllGiven(numbered, csess[c], missed)
  <2>1. \A j \in DOMAIN missed : \E i \in DOMAIN copy.replay : missed[j] = copy.replay[i]
    BY <1>0, <1>4, FramesAfterType DEF Missed, TypeOK, Request
  <2>2. QED BY <1>4, <2>1 DEF AllGiven, CopyGiven
<1> HIDE DEF copy, missed
<1>6. /\ \A d \in Conn : pc'[d] = "none" => pc[d] = "none"
      /\ \A d \in Conn : req'[d] \in {req[d], NoRequest}
      /\ \A d \in Conn : replayq'[d] = IF d = c THEN missed ELSE replayq[d]
  BY <1>0, <1>3 DEF TypeOK, NextRead
<1>7. KnownWasGiven' /\ NumbersStartAtOne' /\ RequestsGiven'
  BY <1>2, <1>6 DEF Heard, KnownWasGiven, NumbersStartAtOne, RequestsGiven, NoRequest
<1>8. FramesGiven'
  BY <1>2, <1>5, <1>6 DEF Heard, FramesGiven
<1>9. CopiesGiven'
  <2>1. \A w \in Worker, s \in Session :
            sessions'[w][s] = sessions[w][s] \/ (s = csess[c] /\ sessions'[w][s] = copy)
    BY <1>0, <1>1, <1>3 DEF SessionTypeOK
  <2>2. QED BY <1>2, <1>4, <2>1 DEF Heard, CopiesGiven
<1>10. OneTab'
  BY <1>0, <1>2, <1>6 DEF Heard, OneTab, TypeOK
<1>11. \A t \in Tab : Follows(t)'
  BY <1>0, <1>2, <1>6 DEF Heard, Follows, NoRequest, TypeOK
<1>12. QED BY <1>7, <1>8, <1>9, <1>10, <1>11 DEF Heard

\* Saving a copy saves its frames and its number.
LEMMA GivenPersisted ==
    ASSUME NEW N, NEW s \in Session, NEW copy \in SessionCopy,
           CopyGiven(N, s, copy), CopyGiven(N, s, shared[s])
    PROVE  CopyGiven(N, s, Persisted(s, copy))
<1>1. CASE ValkeyAvailable
  <2>1. Persisted(s, copy).replay = copy.replay /\ Persisted(s, copy).sequence = copy.sequence
    BY <1>1 DEF Persisted, SessionCopy
  <2>2. QED BY <2>1 DEF CopyGiven
<1>2. CASE ~ ValkeyAvailable
  BY <1>2 DEF Persisted
<1>3. QED BY <1>1, <1>2

\* create_session: the new session was given nothing yet.
LEMMA IdentifyVerifiedHeard ==
    ASSUME SessionManagerAssumption, TypeInv, Heard, NEW c \in Conn, IdentifyVerified(c)
    PROVE  Heard'
<1> DEFINE created == [NoCopy EXCEPT !.held = TRUE, !.user = req[c].user, !.conn = c,
                                     !.fresh = TRUE]
<1>0. TypeOK /\ SessionTypeOK /\ c \in Session
  BY DEF TypeInv, TypeOK, Session
<1>1. /\ pc[c] = "identify" /\ home[c] \in Worker /\ csess[c] = None /\ c # None
      /\ req[c].op = "identify" /\ req[c].sess = None /\ req[c].user \in User
  <2>1. InOrder(c) /\ pc[c] = "identify"
    BY DEF IdentifyVerified, TypeInv, HandshakeOrder
  <2>2. req[c].op = "identify" /\ home[c] \in Worker
    BY <2>1 DEF InOrder, Handled
  <2>3. csess[c] = None
    BY <2>1, <2>2 DEF InOrder, Identified
  <2>4. c # None
    BY RequestType DEF Session
  <2>5. req[c].sess = None /\ req[c].user \in User
    BY <1>0, <2>2 DEF TypeOK, Request
  <2>6. QED BY <2>1, <2>2, <2>3, <2>4, <2>5
<1>2. UNCHANGED <<numbered, tsess, tseq, tconn, wire, tasks, replayq>>
  BY DEF IdentifyVerified, CreateSession, sendVars, clientVars, eventVars
<1>3. /\ sessions' = [sessions EXCEPT ![home[c]][c] = created]
      /\ shared' = [shared EXCEPT ![c] = Persisted(c, created)]
      /\ csess' = [csess EXCEPT ![c] = c]
      /\ pc' = [pc EXCEPT ![c] = "presence"]
      /\ req' = [req EXCEPT ![c] = NoRequest]
  BY DEF IdentifyVerified, CreateSession
<1>4. created \in SessionCopy /\ CopyGiven(numbered, c, created)
  <2>1. created \in SessionCopy
    BY <1>1, NoCopyType DEF SessionCopy
  <2>2. created.replay = <<>> /\ created.sequence = 0
    BY DEF NoCopy
  <2>3. QED BY <2>1, <2>2 DEF CopyGiven, AllGiven
<1> HIDE DEF created
<1>5. CopyGiven(numbered, c, Persisted(c, created))
  BY <1>0, <1>4, GivenPersisted DEF Heard, CopiesGiven
<1>6. /\ \A d \in Conn : csess'[d] = IF d = c THEN c ELSE csess[d]
      /\ \A d \in Conn : pc'[d] = "none" => pc[d] = "none"
      /\ \A d \in Conn : req'[d] = IF d = c THEN NoRequest ELSE req[d]
  BY <1>0, <1>3 DEF SessionTypeOK, TypeOK
<1>7. KnownWasGiven' /\ NumbersStartAtOne' /\ RequestsGiven'
  BY <1>2, <1>6 DEF Heard, KnownWasGiven, NumbersStartAtOne, RequestsGiven, NoRequest
<1>8. FramesGiven'
  <2>1. wire[c] \in Seq(Frame) /\ tasks[c] \in Seq(Frame) /\ replayq[c] \in Seq(Frame)
    BY <1>0, NumberedFrames DEF TypeOK
  <2>2. AllGiven(numbered, c, wire[c]) /\ AllGiven(numbered, c, tasks[c])
        /\ AllGiven(numbered, c, replayq[c])
    BY <1>1, <2>1, NothingYet DEF Heard, FramesGiven
  <2>3. QED BY <1>2, <1>6, <2>2 DEF Heard, FramesGiven
<1>9. CopiesGiven'
  <2>1. \A w \in Worker, s \in Session :
            sessions'[w][s] = sessions[w][s] \/ (s = c /\ sessions'[w][s] = created)
    BY <1>0, <1>1, <1>3 DEF SessionTypeOK
  <2>2. \A s \in Session : shared'[s] = IF s = c THEN Persisted(c, created) ELSE shared[s]
    BY <1>0, <1>3 DEF SessionTypeOK
  <2>3. QED BY <1>2, <1>4, <1>5, <2>1, <2>2 DEF Heard, CopiesGiven
<1>10. OneTab'
  BY <1>0, <1>2, <1>6 DEF Heard, OneTab, TypeOK
<1>11. ASSUME NEW t \in Tab PROVE Follows(t)'
  <2>1. CASE tconn[t] = c
    <3>1. tsess[t] = None
      BY <1>1, <2>1 DEF Heard, Follows
    <3>2. QED BY <1>2, <3>1 DEF Follows
  <2>2. CASE tconn[t] # c
    <3>1. tconn[t] # None => csess'[tconn[t]] = csess[tconn[t]] /\ req'[tconn[t]] = req[tconn[t]]
      BY <1>0, <1>6, <2>2 DEF TypeOK
    <3>2. QED BY <1>2, <3>1 DEF Heard, Follows
  <2>3. QED BY <2>1, <2>2
<1>12. QED BY <1>7, <1>8, <1>9, <1>10, <1>11 DEF Heard

\* resume_session: the number RESUMED carries is the client's or the
\* session's, and the session was given both.
LEMMA ResumeAcceptedHeard ==
    ASSUME SessionManagerAssumption, TypeInv, TypeInv', Heard, NEW c \in Conn, ResumeAccepted(c)
    PROVE  Heard'
<1> DEFINE w == home[c]
           s == req[c].sess
           found == GetSession(w, s)
           n == ResumedSequence(found, req[c].seq)
           resumed == [found EXCEPT !.conn = c, !.sequence = n, !.fresh = TRUE]
           f == [t |-> "RESUMED", s |-> cseq'[c], sess |-> s, e |-> None]
<1>0. TypeOK /\ SessionTypeOK /\ TypeOK' /\ SessionTypeOK'
  BY DEF TypeInv, TypeOK
<1>1. /\ pc[c] = "resume" /\ w \in Worker /\ csess[c] = None /\ s \in Session /\ s # None
      /\ req[c].op = "resume" /\ req[c].seq \in Nat
  <2>1. InOrder(c) /\ pc[c] = "resume" /\ req[c] \in Request
    BY <1>0 DEF ResumeAccepted, TypeInv, HandshakeOrder, TypeOK
  <2>2. req[c].op = "resume" /\ home[c] \in Worker
    BY <2>1 DEF InOrder, Handled
  <2>3. csess[c] = None
    BY <2>1, <2>2 DEF InOrder, Identified
  <2>4. s \in Session /\ s # None /\ req[c].seq \in Nat
    BY <2>1, <2>2 DEF Request
  <2>5. QED BY <2>1, <2>2, <2>3, <2>4
<1>2. UNCHANGED <<numbered, tsess, tseq, tconn, tasks, replayq, req>>
  BY DEF ResumeAccepted, ResumeSession, sendVars, clientVars, eventVars
<1>3. /\ sessions' = [sessions EXCEPT ![w][s] = resumed]
      /\ shared' = [shared EXCEPT ![s] = Persisted(s, resumed)]
      /\ csess' = [csess EXCEPT ![c] = s]
      /\ cseq' = [cseq EXCEPT ![c] = resumed.sequence]
      /\ pc' = [pc EXCEPT ![c] = "resumed"]
      /\ wire' = IF sock[c] = "open" THEN [wire EXCEPT ![c] = Append(@, f)] ELSE wire
  BY DEF ResumeAccepted, ResumeSession
<1>4. found \in SessionCopy /\ CopyGiven(numbered, s, found)
  BY <1>0, <1>1, GivenFound, GetSessionType DEF Heard
<1>5. n \in Nat /\ Given(numbered, s, n)
  <2>1. Given(numbered, s, req[c].seq)
    BY <1>1 DEF Heard, RequestsGiven
  <2>2. found.sequence \in Nat
    BY <1>4 DEF SessionCopy
  <2>3. found.sequence = 0 \/ Given(numbered, s, found.sequence)
    BY <1>4 DEF CopyGiven
  <2>4. req[c].seq # 0
    BY <2>1 DEF Heard, NumbersStartAtOne, Given
  <2>5. QED BY <1>1, <2>1, <2>2, <2>3, <2>4 DEF ResumedSequence, Larger
<1> HIDE DEF n, found
<1>6. resumed \in SessionCopy /\ resumed.sequence = n /\ CopyGiven(numbered, s, resumed)
  <2>1. resumed.sequence = n /\ resumed.replay = found.replay /\ resumed \in SessionCopy
    BY <1>4, <1>5 DEF SessionCopy
  <2>2. QED BY <1>4, <1>5, <2>1 DEF CopyGiven
<1> HIDE DEF resumed
<1>7. CopyGiven(numbered, s, Persisted(s, resumed))
  BY <1>1, <1>6, GivenPersisted DEF Heard, CopiesGiven
<1>8. /\ \A d \in Conn : csess'[d] = IF d = c THEN s ELSE csess[d]
      /\ \A d \in Conn : pc'[d] = "none" => pc[d] = "none"
      /\ cseq'[c] = n
  BY <1>0, <1>3, <1>6 DEF SessionTypeOK, TypeOK
<1>9. KnownWasGiven' /\ NumbersStartAtOne' /\ RequestsGiven'
  BY <1>2 DEF Heard, KnownWasGiven, NumbersStartAtOne, RequestsGiven
<1>10. FramesGiven'
  <2>1. wire[c] \in Seq(Frame) /\ tasks[c] \in Seq(Frame) /\ replayq[c] \in Seq(Frame)
    BY <1>0, NumberedFrames DEF TypeOK
  <2>2. AllGiven(numbered, s, wire[c]) /\ AllGiven(numbered, s, tasks[c])
        /\ AllGiven(numbered, s, replayq[c])
    BY <1>1, <2>1, NothingYet DEF Heard, FramesGiven
  <2>3. f \in Frame /\ f.sess = s /\ f.s = n
    BY <1>1, <1>5, <1>8 DEF Frame
  <2> HIDE DEF f
  <2>4. AllGiven(numbered, s, Append(wire[c], f))
    BY <1>5, <2>1, <2>2, <2>3, GivenAppend
  <2>5. \A d \in Conn : wire'[d] = wire[d] \/ (d = c /\ wire'[d] = Append(wire[c], f))
    BY <1>0, <1>3 DEF TypeOK
  <2>6. QED BY <1>2, <1>8, <2>2, <2>4, <2>5 DEF Heard, FramesGiven
<1>11. CopiesGiven'
  <2>1. \A v \in Worker, r \in Session :
            sessions'[v][r] = sessions[v][r] \/ (r = s /\ sessions'[v][r] = resumed)
    BY <1>0, <1>1, <1>3 DEF SessionTypeOK
  <2>2. \A r \in Session : shared'[r] = IF r = s THEN Persisted(s, resumed) ELSE shared[r]
    BY <1>0, <1>3 DEF SessionTypeOK
  <2>3. QED BY <1>2, <1>6, <1>7, <2>1, <2>2 DEF Heard, CopiesGiven
<1>12. OneTab'
  BY <1>0, <1>2, <1>8 DEF Heard, OneTab, TypeOK
<1>13. ASSUME NEW t \in Tab PROVE Follows(t)'
  <2>1. CASE tconn[t] = c
    <3>1. tsess[t] # None /\ c # None => tsess[t] = s
      BY <1>1, <2>1 DEF Heard, Follows
    <3>2. QED BY <1>1, <1>2, <1>8, <2>1, <3>1 DEF Follows
  <2>2. CASE tconn[t] # c
    <3>1. tconn[t] # None => csess'[tconn[t]] = csess[tconn[t]]
      BY <1>0, <1>8, <2>2 DEF TypeOK
    <3>2. QED BY <1>2, <3>1 DEF Heard, Follows
  <2>3. QED BY <2>1, <2>2
<1>14. QED BY <1>9, <1>10, <1>11, <1>12, <1>13 DEF Heard

\* record_event buffers the numbers the session was given, and counts to them.
LEMMA RecordEventsGiven ==
    ASSUME SessionManagerAssumption, SessionTypeOK, CopiesGiven, NEW w \in Worker,
           NEW new \in [Session -> Seq(Numbered)], RecordEvents(w, new),
           numbered \subseteq numbered', \A s \in Session : AllGiven(numbered', s, new[s])
    PROVE  CopiesGiven'
<1> DEFINE changed == {s \in Session : new[s] # <<>> /\ GetSession(w, s).held}
           after(s) == Recorded(GetSession(w, s), new[s])
<1>1. \A s \in Session : after(s) \in SessionCopy /\ CopyGiven(numbered', s, after(s))
  <2> SUFFICES ASSUME NEW s \in Session
               PROVE  after(s) \in SessionCopy /\ CopyGiven(numbered', s, after(s))
    OBVIOUS
  <2>1. GetSession(w, s) \in SessionCopy /\ CopyGiven(numbered', s, GetSession(w, s))
    BY GetSessionType, GivenFound, GivenGrows
  <2>2. /\ after(s) \in SessionCopy
        /\ \/ after(s).sequence = GetSession(w, s).sequence
           \/ \E i \in DOMAIN new[s] : after(s).sequence = new[s][i].s
        /\ \A j \in DOMAIN after(s).replay :
              \/ \E i \in DOMAIN GetSession(w, s).replay : after(s).replay[j] = GetSession(w, s).replay[i]
              \/ \E i \in DOMAIN new[s] : after(s).replay[j] = new[s][i]
    BY <2>1, RecordedProperties
  <2>3. \A i \in DOMAIN new[s] : Given(numbered', s, new[s][i].s)
    <3>1. \A i \in DOMAIN new[s] : new[s][i].t # "INVALID_SESSION"
      <4>1. new[s] \in Seq(Numbered)
        OBVIOUS
      <4>2. \A i \in DOMAIN new[s] : new[s][i] \in Numbered
        BY <4>1
      <4>3. QED BY <4>2 DEF Numbered
    <3>2. QED BY <3>1 DEF AllGiven
  <2>4. AllGiven(numbered', s, after(s).replay)
    BY <2>1, <2>2 DEF AllGiven, CopyGiven
  <2>5. after(s).sequence = 0 \/ Given(numbered', s, after(s).sequence)
    BY <2>1, <2>2, <2>3 DEF CopyGiven
  <2>6. QED BY <2>2, <2>4, <2>5 DEF CopyGiven
<1>2. \A s \in Session : /\ \A v \in Worker : CopyGiven(numbered', s, sessions[v][s])
                         /\ CopyGiven(numbered', s, shared[s])
  BY GivenGrows DEF CopiesGiven
<1>3. /\ sessions' = [sessions EXCEPT ![w] =
                [s \in Session |-> IF s \in changed THEN after(s) ELSE @[s]]]
      /\ shared' = [s \in Session |->
                IF s \in changed THEN Persisted(s, after(s)) ELSE shared[s]]
  BY DEF RecordEvents
<1> HIDE DEF changed, after
<1>4. \A s \in Session : CopyGiven(numbered', s, Persisted(s, after(s)))
  BY <1>1, <1>2, GivenPersisted
<1>5. \A v \in Worker, s \in Session : sessions'[v][s] \in {sessions[v][s], after(s)}
  BY <1>3 DEF SessionTypeOK
<1>6. \A s \in Session : shared'[s] \in {shared[s], Persisted(s, after(s))}
  BY <1>3
<1>7. QED BY <1>1, <1>2, <1>4, <1>5, <1>6 DEF CopiesGiven

\* What numbers a step gives, it leaves the known ones known.
LEMMA GivenMore ==
    ASSUME Heard, numbered \subseteq numbered', UNCHANGED <<tsess, tseq, req>>
    PROVE  KnownWasGiven' /\ RequestsGiven'
BY DEF Heard, KnownWasGiven, RequestsGiven, Given

\* READY carries the number it is given.
LEMMA SendReadyHeard ==
    ASSUME SessionManagerAssumption, TypeInv, Heard, NEW c \in Conn, SendReady(c)
    PROVE  Heard'
<1> DEFINE f == [t |-> "READY", s |-> cseq[c] + 1, sess |-> csess[c], e |-> None]
           x == [sess |-> csess[c], n |-> cseq[c] + 1, e |-> None]
           new == [s \in Session |-> IF s = csess[c] THEN <<f>> ELSE <<>>]
<1>0. TypeOK /\ SessionTypeOK
  BY DEF TypeInv, TypeOK
<1>1. home[c] \in Worker /\ cseq[c] \in Nat /\ csess[c] \in Session /\ csess[c] # None
  BY <1>0 DEF SendReady, TypeInv, HandshakeOrder, InOrder, Identified, Handled, SessionTypeOK
<1>2. /\ wire' = Written(c, f) /\ RecordEvents(home[c], new)
      /\ numbered' = numbered \cup {x}
      /\ pc' = [pc EXCEPT ![c] = NextRead(c)]
      /\ UNCHANGED <<csess, tsess, tseq, tconn, req, tasks, replayq>>
  BY DEF SendReady, sendVars, clientVars
<1>3. /\ f \in Numbered /\ f \in Frame /\ f.sess = csess[c] /\ f.s = cseq[c] + 1
      /\ x.sess = csess[c] /\ x.n = cseq[c] + 1
  BY <1>1 DEF Numbered, Frame
<1>4. new \in [Session -> Seq(Numbered)]
      /\ \A s \in Session : \A i \in DOMAIN new[s] : s = csess[c] /\ new[s][i] = f
  <2> HIDE DEF f
  <2>1. <<f>> \in Seq(Numbered) /\ <<>> \in Seq(Numbered)
    BY <1>3
  <2>2. \A i \in DOMAIN <<f>> : <<f>>[i] = f
    OBVIOUS
  <2>3. \A i \in DOMAIN <<>> : FALSE
    OBVIOUS
  <2>4. QED BY <2>1, <2>2, <2>3
<1> HIDE DEF f, x, new
<1>5. Given(numbered', csess[c], f.s) /\ numbered \subseteq numbered'
  BY <1>2, <1>3 DEF Given
<1>6. \A s, q : AllGiven(numbered, s, q) => AllGiven(numbered', s, q)
  BY <1>5, GivenGrows
<1>7. KnownWasGiven' /\ RequestsGiven'
  BY <1>2, <1>5, GivenMore
<1>8. NumbersStartAtOne'
  BY <1>1, <1>2, <1>3 DEF Heard, NumbersStartAtOne
<1>9. FramesGiven'
  <2>1. \A d \in Conn : AllGiven(numbered', csess[d], wire[d])
    BY <1>6 DEF Heard, FramesGiven
  <2>2. AllGiven(numbered', csess[c], Append(wire[c], f))
    BY <1>0, <1>3, <1>5, <2>1, GivenAppend DEF TypeOK
  <2>3. \A d \in Conn : wire'[d] = wire[d] \/ (d = c /\ wire'[d] = Append(wire[c], f))
    BY <1>0, <1>2 DEF Written, TypeOK
  <2>4. QED BY <1>2, <1>6, <2>1, <2>2, <2>3 DEF Heard, FramesGiven
<1>10. CopiesGiven'
  <2>1. \A s \in Session : AllGiven(numbered', s, new[s])
    BY <1>3, <1>4, <1>5 DEF AllGiven
  <2>2. QED BY <1>0, <1>1, <1>2, <1>4, <1>5, <2>1, RecordEventsGiven DEF Heard
<1>11. OneTab'
  <2>1. \A d \in Conn : pc'[d] = "none" => pc[d] = "none"
    BY <1>0, <1>2 DEF TypeOK, NextRead
  <2>2. QED BY <1>0, <1>2, <2>1 DEF Heard, OneTab, TypeOK
<1>12. \A t \in Tab : Follows(t)'
  BY <1>2 DEF Heard, Follows
<1>13. QED BY <1>7, <1>8, <1>9, <1>10, <1>11, <1>12 DEF Heard

\* dispatch_event gives the numbers its frames carry.
LEMMA DispatchHeard ==
    ASSUME SessionManagerAssumption, TypeInv, Heard, NEW w \in Worker, Dispatch(w)
    PROVE  Heard'
<1> DEFINE to == Targets(w)
           new == NewFrames(w)
<1>0. TypeOK /\ SessionTypeOK /\ cursor[w] < MaxEvent
  BY DEF TypeInv, TypeOK, Dispatch
<1>1. /\ to \in SUBSET Conn
      /\ \A c \in to : cseq[c] \in Nat /\ EventFrame(w, c) \in Numbered
      /\ new \in [Session -> Seq(Numbered)]
      /\ \A s \in Session : \A i \in DOMAIN new[s] :
            \E c \in to : csess[c] = s /\ new[s][i] = EventFrame(w, c)
  BY <1>0, DispatchFrames
<1>2. /\ tasks' = [c \in Conn |-> IF c \in to THEN Append(tasks[c], EventFrame(w, c)) ELSE tasks[c]]
      /\ RecordEvents(w, new)
      /\ numbered' = numbered \cup {EventEntry(w, c) : c \in to}
      /\ UNCHANGED <<csess, tsess, tseq, tconn, req, wire, replayq, pc>>
  BY DEF Dispatch, NewFrames, Targets, EventFrame, EventEntry, loopVars, socketVars, clientVars
<1>3. \A c \in to : /\ EventFrame(w, c).sess = csess[c] /\ EventFrame(w, c).s = cseq[c] + 1
                    /\ EventEntry(w, c).sess = csess[c] /\ EventEntry(w, c).n = cseq[c] + 1
  BY DEF EventFrame, EventEntry
<1> HIDE DEF to, new
<1>4. numbered \subseteq numbered'
      /\ \A c \in to : Given(numbered', csess[c], EventFrame(w, c).s)
  BY <1>2, <1>3 DEF Given
<1>5. \A s, q : AllGiven(numbered, s, q) => AllGiven(numbered', s, q)
  BY <1>4, GivenGrows
<1>6. KnownWasGiven' /\ RequestsGiven'
  BY <1>2, <1>4, GivenMore
<1>7. NumbersStartAtOne'
  <2>1. \A c \in to : EventEntry(w, c).n # 0
    BY <1>1, <1>3
  <2>2. QED BY <1>2, <2>1 DEF Heard, NumbersStartAtOne
<1>8. FramesGiven'
  <2>1. \A c \in Conn : /\ AllGiven(numbered', csess[c], wire[c])
                        /\ AllGiven(numbered', csess[c], replayq[c])
                        /\ AllGiven(numbered', csess[c], tasks[c]) /\ tasks[c] \in Seq(Frame)
    BY <1>0, <1>5, NumberedFrames DEF Heard, FramesGiven, TypeOK
  <2>2. \A c \in to : AllGiven(numbered', csess[c], Append(tasks[c], EventFrame(w, c)))
    <3> SUFFICES ASSUME NEW c \in to
                 PROVE  AllGiven(numbered', csess[c], Append(tasks[c], EventFrame(w, c)))
      OBVIOUS
    <3>1. EventFrame(w, c) \in Frame /\ c \in Conn
      BY <1>1 DEF Numbered
    <3>2. QED BY <1>3, <1>4, <2>1, <3>1, GivenAppend
  <2>3. QED BY <1>2, <2>1, <2>2 DEF FramesGiven
<1>9. CopiesGiven'
  <2>1. \A s \in Session : AllGiven(numbered', s, new[s])
    BY <1>1, <1>3, <1>4 DEF AllGiven
  <2>2. QED BY <1>0, <1>1, <1>2, <1>4, <2>1, RecordEventsGiven DEF Heard
<1>10. OneTab' /\ \A t \in Tab : Follows(t)'
  BY <1>2 DEF Heard, OneTab, Follows
<1>11. QED BY <1>6, <1>7, <1>8, <1>9, <1>10 DEF Heard

\* A dying worker forgets.
LEMMA CrashHeard ==
    ASSUME TypeInv, Heard, NEW w \in Worker, Crash(w)
    PROVE  Heard'
<1>0. TypeOK /\ SessionTypeOK
  BY DEF TypeInv, TypeOK
<1>1. UNCHANGED <<numbered, csess, tsess, tseq, tconn, shared, wire>>
  BY DEF Crash, LoseWorker, clientVars, valkeyVars
<1>2. \A c \in Conn : /\ pc'[c] = "none" => pc[c] = "none"
                      /\ req'[c] \in {req[c], NoRequest}
                      /\ tasks'[c] \in {tasks[c], <<>>} /\ replayq'[c] \in {replayq[c], <<>>}
  BY DEF Crash
<1>3. KnownWasGiven' /\ NumbersStartAtOne' /\ RequestsGiven'
  BY <1>1, <1>2 DEF Heard, KnownWasGiven, NumbersStartAtOne, RequestsGiven, NoRequest
<1>4. FramesGiven'
  <2>1. \A s : AllGiven(numbered, s, <<>>)
    BY DEF AllGiven
  <2>2. QED BY <1>1, <1>2, <2>1 DEF Heard, FramesGiven
<1>5. CopiesGiven'
  <2>1. \A v \in Worker, s \in Session : sessions'[v][s] \in {sessions[v][s], NoCopy}
    BY <1>0 DEF Crash, LoseWorker, SessionTypeOK
  <2>2. QED BY <1>1, <2>1, GivenNoCopy DEF Heard, CopiesGiven
<1>6. OneTab'
  BY <1>0, <1>1, <1>2 DEF Heard, OneTab, TypeOK
<1>7. \A t \in Tab : Follows(t)'
  BY <1>0, <1>1, <1>2 DEF Heard, Follows, NoRequest, TypeOK
<1>8. QED BY <1>3, <1>4, <1>5, <1>6, <1>7 DEF Heard

\* An expiry changes no number.
LEMMA ExpireHeard ==
    ASSUME TypeInv, Heard, Expire
    PROVE  Heard'
<1>0. SessionTypeOK
  BY DEF TypeInv, TypeOK
<1>1. UNCHANGED <<numbered, csess, tsess, tseq, tconn, wire, tasks, replayq, req, pc>>
  BY DEF Expire, CopyExpires, SharedExpires, InfoExpires, MembersExpire, loopVars, socketVars, sendVars, clientVars, eventVars,
         connectionVars, managerVars
<1>2. /\ \A w \in Worker, s \in Session : /\ sessions'[w][s].replay = sessions[w][s].replay
                                          /\ sessions'[w][s].sequence = sessions[w][s].sequence
      /\ \A s \in Session : shared'[s] \in {shared[s], NoCopy}
  BY <1>0, ExpireEffect
<1>3. CopiesGiven'
  BY <1>1, <1>2, GivenNoCopy DEF Heard, CopiesGiven, CopyGiven
<1>4. QED BY <1>1, <1>3 DEF Heard, KnownWasGiven, FramesGiven, RequestsGiven, NumbersStartAtOne,
                            OneTab, Follows

\* Every step keeps numbers where the session was given them.
LEMMA StepHeard ==
    ASSUME SessionManagerAssumption, TypeInv, TypeInv', Heard, [Next]_vars
    PROVE  Heard'
<1>1. CASE UNCHANGED vars
  <2>1. UNCHANGED <<numbered, csess, sessions, shared, tsess, tseq, tconn, wire, tasks, replayq,
                    req, pc>>
    BY <1>1 DEF vars, sessionVars, connectionVars, managerVars, valkeyVars, loopVars, socketVars,
                sendVars, clientVars, eventVars
  <2>2. QED BY <2>1 DEF Heard, KnownWasGiven, FramesGiven, CopiesGiven, RequestsGiven,
                        NumbersStartAtOne, OneTab, Follows
<1>2. ASSUME NEW t \in Tab, NEW c \in Conn, NEW w \in Worker, Connect(t, c, w)
      PROVE  Heard'
  BY <1>2, ConnectHeard
<1>3. ASSUME NEW t \in Tab, Receive(t)
      PROVE  Heard'
  BY <1>3, ReceiveHeard
<1>4. ASSUME NEW t \in Tab, NEW how \in {"lost", "closed"}, Leave(t, how)
      PROVE  Heard'
  BY <1>4, LeaveHeard
<1>5. ASSUME NEW c \in Conn, ServerStep(c)
      PROVE  Heard'
  BY <1>5, QuietHeardSteps, IdentifyVerifiedHeard, SendReadyHeard, RefuseHeard,
     ResumeAcceptedHeard, ReplayStartHeard, SendHeard DEF ServerStep
<1>6. ASSUME NEW c \in Conn, MonitorStep(c) \/ TaskSend(c) \/ NoticeLoss(c) \/ WindowReset(c)
      PROVE  Heard'
  BY <1>6, QuietHeardSteps, SendHeard DEF MonitorStep
<1>7. ASSUME NEW w \in Worker, Dispatch(w) \/ Crash(w)
      PROVE  Heard'
  BY <1>7, DispatchHeard, CrashHeard
<1>8. CASE Expire
  BY <1>8, ExpireHeard
<1>9. QED BY <1>1, <1>2, <1>3, <1>4, <1>5, <1>6, <1>7, <1>8 DEF Next

-----------------------------------------------------------------------------

\* The inductive invariant behind KnownNumbers: what is buffered, scheduled,
\* written or asked for is of its connection's session and was given to it.
THEOREM HeardInvariant == Spec => [](TypeInv /\ Heard)
<1>1. Init => TypeInv /\ Heard
  BY InitType, InitHeard, SessionManagerAssumption, GatewayAssumption
<1>2. TypeInv /\ Heard /\ [Next]_vars => (TypeInv /\ Heard)'
  BY StepType, StepHeard, SessionManagerAssumption, GatewayAssumption
<1>3. QED BY <1>1, <1>2, PTL DEF Spec

\* Whatever worker answers, however stale its copy of the session, the number
\* a client holds and resumes with is one its session was given (ResumeSession's
\* max(), the replay, READY and the dispatched events).
THEOREM KnownNumbers == Spec => []KnownWasGiven
<1>1. TypeInv /\ Heard => KnownWasGiven
  BY DEF Heard
<1>2. QED BY <1>1, HeardInvariant, PTL
=============================================================================
