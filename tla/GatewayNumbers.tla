--------------------------- MODULE GatewayNumbers ---------------------------
(***************************************************************************)
(* With one worker process, however often clients reconnect and the worker *)
(* dies: a session's numbers are never given twice, a session has one      *)
(* ready connection, the gateway implements SessionStream, and what the    *)
(* server retains of a served client's session is coming to it.            *)
(***************************************************************************)
EXTENDS GatewayKnown

OneWorker == \A v, w \in Worker : v = w

\* c may still give numbers of its session.
Builds(c) == Greeting(c) \/ state[c] = "ready"

Bounded(given, s, n) == \A x \in given : x.sess = s => x.n <= n

\* One connection at most gives numbers of a session, above all given so far.
\* The worker's copy points to it; where the worker has none there is none
\* to hydrate either.
Owns(c) ==
    /\ Bounded(numbered, csess[c], cseq[c])
    /\ IF sessions[home[c]][csess[c]].held
       THEN sessions[home[c]][csess[c]].conn = c
       ELSE ~ shared[csess[c]].held

Owners ==
    /\ \A c \in Conn : Builds(c) => Owns(c)
    /\ \A c, d \in Conn : Builds(c) /\ Builds(d) /\ csess[c] = csess[d] => c = d

\* Both copies of a session are at least at its last number.
Copies ==
    /\ \A w \in Worker, s \in Session :
          sessions[w][s].held => Bounded(numbered, s, sessions[w][s].sequence)
    /\ \A s \in Session :
          shared[s].held => ValkeyAvailable /\ Bounded(numbered, s, shared[s].sequence)

NumberInv == OneWorker /\ Owners /\ Copies /\ NumberUnique

-----------------------------------------------------------------------------
(* Steps that give no number                                               *)

\* Every connection that may give numbers is on the worker.
LEMMA BuilderHome ==
    ASSUME TypeInv, Known, NEW c \in Conn, Builds(c)
    PROVE  home[c] \in Worker /\ csess[c] \in Session /\ csess[c] # None
<1>1. pc[c] # "none"
  BY DEF Known, Present, Accepted, Builds, Greeting
<1>2. home[c] \in Worker /\ csess[c] # None
  BY <1>1 DEF TypeInv, HandshakeOrder, InOrder, Handled, Identified, Builds, Greeting
<1>3. QED BY <1>2 DEF TypeInv, TypeOK, SessionTypeOK

\* The initial state.
LEMMA InitNumbers == ASSUME OneWorker, Init PROVE NumberInv
BY DEF Init, SessionInit, NumberInv, Owners, Copies, NumberUnique, Builds, Greeting, NoCopy

\* A step that leaves numbers and copies alone, and makes no builder.
LEMMA QuietNumbers ==
    ASSUME NumberInv, UNCHANGED <<numbered, csess, cseq, sessions, shared>>,
           \A c \in Conn : Builds(c)' => Builds(c) /\ home'[c] = home[c]
    PROVE  NumberInv'
<1>1. OneWorker' /\ NumberUnique' /\ Copies'
  BY DEF NumberInv, OneWorker, NumberUnique, Copies
<1>2. \A c \in Conn : Builds(c)' => Owns(c)'
  BY DEF NumberInv, Owners, Owns
<1>3. \A c, d \in Conn : Builds(c)' /\ Builds(d)' /\ csess'[c] = csess'[d] => c = d
  BY DEF NumberInv, Owners
<1>4. QED BY <1>1, <1>2, <1>3 DEF NumberInv, Owners

\* The steps of that kind.
LEMMA QuietNumberSteps ==
    ASSUME TypeInv, NumberInv, NEW c \in Conn,
           \/ ReceiveRequest(c) \/ IdentifyRefused(c) \/ PresenceOnline(c) \/ LoopExit(c)
           \/ HeartbeatOnClosing(c) \/ HeartbeatClose(c) \/ HeartbeatClosed(c)
           \/ NoticeLoss(c) \/ WindowReset(c) \/ TaskSend(c) \/ ReplaySend(c)
           \/ ResumeUnauthorized(c) \/ Finally(c)
    PROVE  NumberInv'
<1> USE DEF TypeInv, TypeOK, SessionTypeOK, Builds, Greeting, sessionVars, connectionVars,
            managerVars, valkeyVars, loopVars, socketVars, sendVars, clientVars, eventVars
<1>1. CASE ReceiveRequest(c)
  BY <1>1, QuietNumbers DEF ReceiveRequest, Request
<1>2. CASE IdentifyRefused(c)
  BY <1>2, QuietNumbers DEF IdentifyRefused, CloseAndExit
<1>3. CASE PresenceOnline(c)
  BY <1>3, QuietNumbers DEF PresenceOnline
<1>4. CASE LoopExit(c) \/ HeartbeatOnClosing(c)
  BY <1>4, QuietNumbers DEF LoopExit, HeartbeatOnClosing
<1>5. CASE HeartbeatClose(c) \/ HeartbeatClosed(c)
  BY <1>5, QuietNumbers DEF HeartbeatClose, HeartbeatClosed
<1>6. CASE NoticeLoss(c) \/ WindowReset(c)
  BY <1>6, QuietNumbers DEF NoticeLoss, WindowReset
<1>7. CASE TaskSend(c)
  BY <1>7, QuietNumbers DEF TaskSend
<1>8. CASE ReplaySend(c)
  BY <1>8, QuietNumbers DEF ReplaySend, NextRead
<1>9. CASE ResumeUnauthorized(c)
  BY <1>9, QuietNumbers DEF ResumeUnauthorized, Refuse, NextRead
<1>10. CASE Finally(c)
  BY <1>10, QuietNumbers DEF Finally
<1>11. QED BY <1>1, <1>2, <1>3, <1>4, <1>5, <1>6, <1>7, <1>8, <1>9, <1>10

\* What the client does gives no number.
LEMMA ClientNumbers ==
    ASSUME TypeInv, Known, NumberInv, NEW t \in Tab,
           \/ \E c \in Conn, w \in Worker : Connect(t, c, w)
           \/ Receive(t)
           \/ \E how \in {"lost", "closed"} : Leave(t, how)
    PROVE  NumberInv'
<1> USE DEF TypeInv, TypeOK, SessionTypeOK, Builds, Greeting, sessionVars, connectionVars,
            managerVars, valkeyVars, loopVars, socketVars, sendVars, clientVars, eventVars
<1>1. ASSUME NEW c \in Conn, NEW w \in Worker, Connect(t, c, w) PROVE NumberInv'
  BY <1>1, QuietNumbers DEF Connect, AddConnection
<1>2. CASE Receive(t)
  BY <1>2, QuietNumbers DEF Receive
<1>3. ASSUME NEW how \in {"lost", "closed"}, Leave(t, how) PROVE NumberInv'
  BY <1>3, QuietNumbers DEF Leave
<1>4. QED BY <1>1, <1>2, <1>3

\* An expired copy keeps its number and its connection.
LEMMA ExpireNumbers ==
    ASSUME TypeInv, Known, NumberInv, Expire
    PROVE  NumberInv'
<1>1. UNCHANGED <<numbered, csess, cseq, home, pc, state>>
  BY DEF Expire, CopyExpires, SharedExpires, InfoExpires, MembersExpire, loopVars, eventVars, connectionVars
<1>2. /\ \A w \in Worker, s \in Session :
            /\ sessions'[w][s].held = sessions[w][s].held
            /\ sessions'[w][s].conn = sessions[w][s].conn
            /\ sessions'[w][s].sequence = sessions[w][s].sequence
      /\ \A s \in Session : shared'[s] = shared[s] \/ ~ shared'[s].held
  BY ExpireEffect DEF TypeInv, TypeOK, NoCopy
<1>3. OneWorker' /\ NumberUnique'
  BY <1>1 DEF NumberInv, OneWorker, NumberUnique
<1>4. Copies'
  BY <1>1, <1>2 DEF NumberInv, Copies
<1>5. \A c \in Conn : Builds(c)' <=> Builds(c)
  BY <1>1 DEF Builds, Greeting
<1>6. \A c \in Conn : Builds(c) => Owns(c)'
  BY <1>1, <1>2, BuilderHome DEF NumberInv, Owners, Owns
<1>7. QED BY <1>1, <1>3, <1>4, <1>5, <1>6 DEF NumberInv, Owners

\* A dying worker takes every builder with it; the shared copies stay.
LEMMA CrashNumbers ==
    ASSUME SessionManagerAssumption, TypeInv, Known, NumberInv, NEW w \in Worker, Crash(w)
    PROVE  NumberInv'
<1>1. UNCHANGED <<numbered, csess, cseq, home, shared>>
  BY DEF Crash, LoseWorker, valkeyVars
<1>2. \A v \in Worker, s \in Session : ~ sessions'[v][s].held
  BY DEF Crash, LoseWorker, NoCopy, NumberInv, OneWorker, TypeInv, TypeOK, SessionTypeOK
<1>3. \A c \in Conn : ~ Builds(c)'
  <2> SUFFICES ASSUME NEW c \in Conn, Builds(c)' PROVE FALSE
    OBVIOUS
  <2>1. home[c] # w /\ Builds(c)
    BY DEF Crash, LoseWorker, Builds, Greeting
  <2>2. QED BY <2>1, BuilderHome DEF NumberInv, OneWorker
<1>4. QED BY <1>1, <1>2, <1>3 DEF NumberInv, OneWorker, NumberUnique, Copies, Owners

-----------------------------------------------------------------------------
(* Copies that are found                                                   *)

\* The copy a handler finds is at the session's last number and points to
\* the session's builder, if there is one.
LEMMA FoundCopy ==
    ASSUME TypeInv, Known, NumberInv, NEW w \in Worker, NEW s \in Session
    PROVE  LET found == GetSession(w, s)
           IN  /\ found \in SessionCopy
               /\ found.held => Bounded(numbered, s, found.sequence)
               /\ \A d \in Conn : Builds(d) /\ csess[d] = s =>
                     /\ found.held => found.conn = d /\ sessions[w][s].held
                     /\ ~ found.held => ~ sessions[w][s].held /\ ~ shared[s].held
               /\ found.held => sessions[w][s].held \/ (shared[s].held /\ found.conn = None)
<1> DEFINE found == GetSession(w, s)
<1>0. SessionTypeOK
  BY DEF TypeInv, TypeOK
<1>1. found \in SessionCopy
  BY <1>0, GetSessionType
<1>2. CASE sessions[w][s].held
  <2>1. found = sessions[w][s]
    BY <1>2 DEF GetSession
  <2>2. \A d \in Conn : Builds(d) /\ csess[d] = s => sessions[w][s].conn = d
    <3> SUFFICES ASSUME NEW d \in Conn, Builds(d), csess[d] = s PROVE sessions[w][s].conn = d
      OBVIOUS
    <3>1. home[d] = w
      BY BuilderHome DEF NumberInv, OneWorker
    <3>2. Owns(d)
      BY DEF NumberInv, Owners
    <3>3. QED BY <1>2, <3>1, <3>2 DEF Owns
  <2>3. Bounded(numbered, s, sessions[w][s].sequence)
    BY <1>2 DEF NumberInv, Copies
  <2>4. QED BY <1>1, <1>2, <2>1, <2>2, <2>3
<1>3. CASE ~ sessions[w][s].held
  <2>1. found = Hydrated(s)
    BY <1>3 DEF GetSession
  <2>2. found.held = shared[s].held /\ found.conn = None /\ found.sequence = shared[s].sequence
    BY <1>0, <2>1 DEF Hydrated, SessionTypeOK, SessionCopy
  <2>3. \A d \in Conn : Builds(d) /\ csess[d] = s => ~ shared[s].held
    <3> SUFFICES ASSUME NEW d \in Conn, Builds(d), csess[d] = s PROVE ~ shared[s].held
      OBVIOUS
    <3>1. home[d] = w
      BY BuilderHome DEF NumberInv, OneWorker
    <3>2. Owns(d)
      BY DEF NumberInv, Owners
    <3>3. QED BY <1>3, <3>1, <3>2 DEF Owns
  <2>4. shared[s].held => Bounded(numbered, s, shared[s].sequence)
    BY DEF NumberInv, Copies
  <2>5. QED BY <1>1, <1>3, <2>2, <2>3, <2>4
<1>4. QED BY <1>2, <1>3

\* A step that puts the copy it found, or nothing, in the place of a session.
LEMMA HydratedNumbers ==
    ASSUME TypeInv, Known, NumberInv, NEW w \in Worker, NEW s \in Session,
           UNCHANGED <<numbered, csess, cseq, home>>,
           \A c \in Conn : Builds(c)' => Builds(c),
           \/ /\ sessions' = [sessions EXCEPT ![w][s] = GetSession(w, s)]
              /\ shared' = shared
           \/ /\ sessions' = [sessions EXCEPT ![w][s] = NoCopy]
              /\ shared' = [shared EXCEPT ![s] = NoCopy]
    PROVE  NumberInv'
<1> DEFINE found == GetSession(w, s)
<1>0. SessionTypeOK /\ ~ NoCopy.held
  BY DEF TypeInv, TypeOK, NoCopy
<1>1. /\ found.held => Bounded(numbered, s, found.sequence)
      /\ \A d \in Conn : Builds(d) /\ csess[d] = s =>
            IF found.held THEN found.conn = d ELSE ~ shared[s].held
  BY FoundCopy
<1>2. /\ \A v \in Worker, r \in Session : <<v, r>> # <<w, s>> => sessions'[v][r] = sessions[v][r]
      /\ \A r \in Session \ {s} : shared'[r] = shared[r]
      /\ \/ sessions'[w][s] = found /\ shared'[s] = shared[s]
         \/ ~ sessions'[w][s].held /\ ~ shared'[s].held
  BY <1>0 DEF SessionTypeOK
<1> HIDE DEF found
<1>3. OneWorker' /\ NumberUnique' /\ \A v \in Worker : v = w
  BY DEF NumberInv, OneWorker, NumberUnique
<1>4. Copies'
  <2>1. ASSUME NEW v \in Worker, NEW r \in Session, sessions'[v][r].held
        PROVE  Bounded(numbered, r, sessions'[v][r].sequence)
    BY <1>1, <1>2, <2>1 DEF NumberInv, Copies
  <2>2. ASSUME NEW r \in Session, shared'[r].held
        PROVE  ValkeyAvailable /\ Bounded(numbered, r, shared'[r].sequence)
    BY <1>2, <2>2 DEF NumberInv, Copies
  <2>3. QED BY <2>1, <2>2 DEF Copies
<1>5. \A c \in Conn : Builds(c)' => Owns(c)'
  <2> SUFFICES ASSUME NEW c \in Conn, Builds(c)' PROVE Owns(c)'
    OBVIOUS
  <2>1. Builds(c) /\ Owns(c) /\ csess[c] \in Session /\ home[c] = w
    BY <1>3, BuilderHome DEF NumberInv, Owners
  <2>2. CASE csess[c] = s
    BY <1>1, <1>2, <2>1, <2>2 DEF Owns
  <2>3. CASE csess[c] # s
    <3>1. sessions'[w][csess[c]] = sessions[w][csess[c]] /\ shared'[csess[c]] = shared[csess[c]]
      BY <1>2, <2>1, <2>3
    <3>2. QED BY <2>1, <3>1 DEF Owns
  <2>4. QED BY <2>2, <2>3
<1>6. QED BY <1>3, <1>4, <1>5 DEF NumberInv, Owners

\* replay_events and a refused RESUME touch no copy a builder relies on.
LEMMA ReplayStartNumbers ==
    ASSUME TypeInv, Known, NumberInv, NEW c \in Conn, ReplayStart(c)
    PROVE  NumberInv'
<1>1. pc[c] = "resumed" /\ home[c] \in Worker /\ csess[c] \in Session
  BY DEF ReplayStart, TypeInv, TypeOK, SessionTypeOK, HandshakeOrder, InOrder, Handled, Identified
<1>2. /\ sessions' = [sessions EXCEPT ![home[c]][csess[c]] = GetSession(home[c], csess[c])]
      /\ UNCHANGED <<numbered, csess, cseq, home, shared, state>>
  BY DEF ReplayStart, connectionVars, valkeyVars, eventVars
<1>3. \A d \in Conn : Builds(d)' => Builds(d)
  BY <1>2 DEF ReplayStart, Builds, Greeting, NextRead, TypeInv, TypeOK
<1>4. QED BY <1>1, <1>2, <1>3, HydratedNumbers

\* The same of a RESUME that can_resume_session refuses.
LEMMA ResumeRejectedNumbers ==
    ASSUME TypeInv, Known, NumberInv, NEW c \in Conn, ResumeRejected(c)
    PROVE  NumberInv'
<1> DEFINE w == home[c]
           s == req[c].sess
<1>1. pc[c] = "resume" /\ w \in Worker /\ s \in Session
  BY DEF ResumeRejected, TypeInv, TypeOK, HandshakeOrder, InOrder, Handled, Request
<1>2. UNCHANGED <<numbered, csess, cseq, home, state>>
  BY DEF ResumeRejected, Refuse, connectionVars, eventVars
<1>3. \A d \in Conn : Builds(d)' => Builds(d)
  BY <1>2 DEF ResumeRejected, Refuse, Builds, Greeting, NextRead, TypeInv, TypeOK
<1>4. \/ /\ sessions' = [sessions EXCEPT ![w][s] = GetSession(w, s)]
         /\ shared' = [shared EXCEPT ![s] = @]
      \/ /\ sessions' = [sessions EXCEPT ![w][s] = NoCopy]
         /\ shared' = [shared EXCEPT ![s] = NoCopy]
  BY DEF ResumeRejected, RefuseSession
<1>5. [shared EXCEPT ![s] = @] = shared
  BY DEF TypeInv, TypeOK, SessionTypeOK
<1>6. QED BY <1>1, <1>2, <1>3, <1>4, <1>5, HydratedNumbers

-----------------------------------------------------------------------------
(* Steps that give numbers                                                 *)

\* record_event raises both copies of a session it finds to the numbers it
\* recorded, and leaves the others alone.
LEMMA RecordEventsEffect ==
    ASSUME SessionManagerAssumption, SessionTypeOK, NEW w \in Worker,
           NEW new \in [Session -> Seq(Numbered)], RecordEvents(w, new),
           NEW s \in Session, NEW found, found = GetSession(w, s)
    PROVE  IF new[s] # <<>> /\ found.held
           THEN /\ sessions'[w][s].held /\ sessions'[w][s].conn = found.conn
                /\ sessions'[w][s].sequence \in Nat
                /\ sessions'[w][s].sequence >= found.sequence
                /\ \A i \in DOMAIN new[s] : sessions'[w][s].sequence >= new[s][i].s
                /\ IF ValkeyAvailable
                   THEN shared'[s].held /\ shared'[s].sequence = sessions'[w][s].sequence
                   ELSE shared'[s] = shared[s]
           ELSE sessions'[w][s] = sessions[w][s] /\ shared'[s] = shared[s]
<1> DEFINE after == Recorded(found, new[s])
<1>1. found \in SessionCopy /\ new[s] \in Seq(Numbered)
  BY GetSessionType
<1>2. /\ after \in SessionCopy /\ after.held = found.held /\ after.conn = found.conn
      /\ after.sequence >= found.sequence
      /\ \A i \in DOMAIN new[s] : after.sequence >= new[s][i].s
  BY <1>1, RecordedProperties
<1>3. IF new[s] # <<>> /\ found.held
      THEN sessions'[w][s] = after /\ shared'[s] = Persisted(s, after)
      ELSE sessions'[w][s] = sessions[w][s] /\ shared'[s] = shared[s]
  BY DEF RecordEvents, SessionTypeOK
<1> HIDE DEF after
<1>4. CASE new[s] # <<>> /\ found.held
  <2>1. sessions'[w][s] = after /\ shared'[s] = Persisted(s, after)
    BY <1>3, <1>4
  <2>2. after.sequence \in Nat
    BY <1>2 DEF SessionCopy
  <2>3. IF ValkeyAvailable
        THEN shared'[s].held = after.held /\ shared'[s].sequence = after.sequence
        ELSE shared'[s] = shared[s]
    BY <1>2, <2>1 DEF Persisted, SessionCopy
  <2>4. /\ sessions'[w][s].held /\ sessions'[w][s].conn = found.conn
        /\ sessions'[w][s].sequence \in Nat
        /\ sessions'[w][s].sequence >= found.sequence
        /\ \A i \in DOMAIN new[s] : sessions'[w][s].sequence >= new[s][i].s
    BY <1>2, <1>4, <2>1, <2>2
  <2>5. IF ValkeyAvailable
        THEN shared'[s].held /\ shared'[s].sequence = sessions'[w][s].sequence
        ELSE shared'[s] = shared[s]
    BY <1>2, <1>4, <2>1, <2>3
  <2>6. QED BY <1>4, <2>4, <2>5
<1>5. CASE ~ (new[s] # <<>> /\ found.held)
  <2>1. sessions'[w][s] = sessions[w][s] /\ shared'[s] = shared[s]
    BY <1>3, <1>5
  <2>2. QED BY <1>5, <2>1
<1>6. QED BY <1>4, <1>5

\* What READY and dispatch_event do: the connections of T, on worker w, take
\* their next numbers, new being the frames built for each session.
Gives(w, T, entry, new) ==
    /\ T \in SUBSET Conn /\ \A c \in T : Builds(c) /\ home[c] = w
    /\ \A c \in T : entry[c].sess = csess[c] /\ entry[c].n = cseq[c] + 1
    /\ \A x : x \in numbered' <=> x \in numbered \/ \E c \in T : x = entry[c]
    /\ \A c \in Conn : cseq'[c] = IF c \in T THEN cseq[c] + 1 ELSE cseq[c]
    /\ UNCHANGED <<csess, home>>
    /\ \A c \in Conn : Builds(c)' => Builds(c)
    /\ new \in [Session -> Seq(Numbered)] /\ RecordEvents(w, new)
    /\ \A s \in Session : new[s] # <<>> => \E c \in T : csess[c] = s
    /\ \A c \in T : \E i \in DOMAIN new[csess[c]] : new[csess[c]][i].s = cseq[c] + 1

\* Such a step keeps the numbers unique.
LEMMA NumberingStep ==
    ASSUME SessionManagerAssumption, TypeInv, Known, NumberInv,
           NEW w \in Worker, NEW T, NEW entry, NEW new, Gives(w, T, entry, new)
    PROVE  NumberInv'
<1>0. /\ SessionTypeOK /\ OneWorker /\ \A v \in Worker : v = w
      /\ cseq \in [Conn -> Nat] /\ \A x \in numbered : x.n \in Nat
  BY DEF NumberInv, OneWorker, TypeInv, TypeOK, SessionTypeOK, Numbering
<1> USE DEF Gives
<1>1. \A c, d \in Conn : Builds(c) /\ Builds(d) /\ csess[c] = csess[d] => c = d
  BY DEF NumberInv, Owners
<1>2. \A c \in Conn : Builds(c) =>
          Owns(c) /\ csess[c] \in Session /\ Bounded(numbered, csess[c], cseq[c])
  BY BuilderHome DEF NumberInv, Owners, Owns
<1>3. \A c \in Conn : Builds(c) => Bounded(numbered', csess[c], cseq'[c])
  <2> SUFFICES ASSUME NEW c \in Conn, Builds(c), NEW x \in numbered', x.sess = csess[c]
               PROVE  x.n <= cseq'[c]
    BY DEF Bounded
  <2>1. CASE x \in numbered
    BY <1>0, <1>2, <2>1 DEF Bounded
  <2>2. CASE \E d \in T : x = entry[d]
    <3>1. PICK d \in T : x = entry[d]
      BY <2>2
    <3>2. d = c
      BY <1>1, <3>1
    <3>3. QED BY <1>0, <3>1, <3>2
  <2>3. QED BY <2>1, <2>2
<1>4. \A s \in Session : (\A c \in T : csess[c] # s) => new[s] = <<>>
          /\ \A n : Bounded(numbered, s, n) => Bounded(numbered', s, n)
  BY DEF Bounded
<1>5. \A c \in T : new[csess[c]] # <<>> /\ csess[c] \in Session /\ Builds(c) /\ home[c] = w
                   /\ cseq'[c] = cseq[c] + 1 /\ Bounded(numbered', csess[c], cseq'[c])
  <2> SUFFICES ASSUME NEW c \in T PROVE new[csess[c]] # <<>>
    BY <1>2, <1>3
  <2>1. \E i \in DOMAIN new[csess[c]] : TRUE
    OBVIOUS
  <2>2. \A i : i \notin DOMAIN <<>>
    OBVIOUS
  <2>3. QED BY <2>1, <2>2
<1>6. ASSUME NEW s \in Session
      PROVE  /\ sessions'[w][s].held => /\ Bounded(numbered', s, sessions'[w][s].sequence)
                                        /\ sessions'[w][s].conn = GetSession(w, s).conn
                                        /\ GetSession(w, s).held
             /\ shared'[s].held => ValkeyAvailable /\ Bounded(numbered', s, shared'[s].sequence)
             /\ (\E c \in Conn : Builds(c) /\ csess[c] = s) =>
                   \/ sessions'[w][s].held
                   \/ ~ sessions'[w][s].held /\ ~ shared'[s].held
  <2> DEFINE found == GetSession(w, s)
  <2>1. /\ found \in SessionCopy
        /\ found.held => Bounded(numbered, s, found.sequence)
        /\ \A d \in Conn : Builds(d) /\ csess[d] = s =>
              /\ found.held => found.conn = d /\ sessions[w][s].held
              /\ ~ found.held => ~ sessions[w][s].held /\ ~ shared[s].held
    BY FoundCopy
  <2>2. IF new[s] # <<>> /\ found.held
        THEN /\ sessions'[w][s].held /\ sessions'[w][s].conn = found.conn
             /\ sessions'[w][s].sequence \in Nat
             /\ sessions'[w][s].sequence >= found.sequence
             /\ \A i \in DOMAIN new[s] : sessions'[w][s].sequence >= new[s][i].s
             /\ IF ValkeyAvailable
                THEN shared'[s].held /\ shared'[s].sequence = sessions'[w][s].sequence
                ELSE shared'[s] = shared[s]
        ELSE sessions'[w][s] = sessions[w][s] /\ shared'[s] = shared[s]
    <3>1. found = GetSession(w, s)
      OBVIOUS
    <3>2. SessionTypeOK /\ new \in [Session -> Seq(Numbered)] /\ RecordEvents(w, new)
      BY <1>0
    <3> HIDE DEF found
    <3>3. QED
      BY <3>1, <3>2, RecordEventsEffect
  <2>3. sessions[w][s].held => found = sessions[w][s]
    BY DEF GetSession
  <2>4. /\ sessions[w][s].held => Bounded(numbered, s, sessions[w][s].sequence)
        /\ shared[s].held => ValkeyAvailable /\ Bounded(numbered, s, shared[s].sequence)
    BY DEF NumberInv, Copies
  <2> HIDE DEF found
  <2>5. CASE \A c \in T : csess[c] # s
    BY <1>4, <2>1, <2>2, <2>3, <2>4, <2>5 DEF found
  <2>6. CASE \E c \in T : csess[c] = s
    <3>1. PICK c \in T : csess[c] = s
      BY <2>6
    <3>2. CASE found.held
      <4>1. Bounded(numbered', s, sessions'[w][s].sequence)
        <5>1. sessions'[w][s].sequence \in Nat /\ sessions'[w][s].sequence >= cseq[c] + 1
          BY <1>5, <2>2, <3>1, <3>2
        <5>2. \A x \in numbered' : x.sess = s => x.n <= cseq[c] + 1 /\ x.n \in Nat
          <6>1. \A d \in T : entry[d].n \in Nat
            BY <1>0
          <6>2. QED BY <1>0, <1>5, <3>1, <6>1 DEF Bounded
        <5>3. QED BY <1>0, <5>1, <5>2 DEF Bounded
      <4>2. ~ ValkeyAvailable => ~ shared'[s].held
        BY <1>5, <2>2, <2>4, <3>1, <3>2
      <4>3. QED BY <1>5, <2>2, <3>1, <3>2, <4>1, <4>2 DEF found
    <3>3. CASE ~ found.held
      <4>1. ~ sessions'[w][s].held /\ ~ shared'[s].held
        BY <1>5, <2>1, <2>2, <3>1, <3>3
      <4>2. QED BY <4>1
    <3>4. QED BY <3>2, <3>3
  <2>7. QED BY <2>5, <2>6
<1>7. Copies'
  BY <1>0, <1>6 DEF Copies
<1>8. \A c \in Conn : Builds(c)' => Owns(c)'
  <2> SUFFICES ASSUME NEW c \in Conn, Builds(c)' PROVE Owns(c)'
    OBVIOUS
  <2>1. Builds(c) /\ csess[c] \in Session /\ home[c] = w
    BY <1>0, <1>2, BuilderHome
  <2>2. GetSession(w, csess[c]).held => GetSession(w, csess[c]).conn = c
    BY <2>1, FoundCopy
  <2>3. IF sessions'[w][csess[c]].held THEN sessions'[w][csess[c]].conn = c
                                       ELSE ~ shared'[csess[c]].held
    BY <1>6, <2>1, <2>2
  <2>4. Bounded(numbered', csess[c], cseq'[c])
    BY <1>3, <2>1
  <2>5. QED BY <2>1, <2>3, <2>4 DEF Owns
<1>9. NumberUnique'
  <2>1. \A a, b \in numbered : a.sess = b.sess /\ a.n = b.n => a = b
    BY DEF NumberInv, NumberUnique
  <2>2. \A a \in numbered, c \in T : ~ (a.sess = entry[c].sess /\ a.n = entry[c].n)
    BY <1>0, <1>2, <1>5 DEF Bounded
  <2>3. \A c, d \in T : entry[c].sess = entry[d].sess => c = d
    BY <1>1, <1>5
  <2>4. QED BY <2>1, <2>2, <2>3 DEF NumberUnique
<1>10. QED BY <1>0, <1>1, <1>7, <1>8, <1>9 DEF NumberInv, Owners, OneWorker

\* READY takes the next number of a session only its connection knows.
LEMMA SendReadyGives ==
    ASSUME SessionManagerAssumption, TypeInv, Known, NumberInv, NEW c \in Conn, SendReady(c)
    PROVE  /\ home[c] \in Worker
           /\ \E entry, new :
                 /\ Gives(home[c], {c}, entry, new) /\ \A d \in {c} : entry[d].e = None
                 /\ \A s \in Session : \A i \in DOMAIN new[s] : new[s][i].e = None
<1> DEFINE f == [t |-> "READY", s |-> cseq[c] + 1, sess |-> csess[c], e |-> None]
           x == [sess |-> csess[c], n |-> cseq[c] + 1, e |-> None]
           new == [s \in Session |-> IF s = csess[c] THEN <<f>> ELSE <<>>]
           entry == [d \in {c} |-> x]
<1>0. TypeOK /\ SessionTypeOK /\ Builds(c)
  BY DEF TypeInv, TypeOK, SendReady, Builds, Greeting
<1>1. home[c] \in Worker /\ cseq[c] \in Nat /\ csess[c] \in Session /\ csess[c] # None
  BY <1>0, BuilderHome DEF SessionTypeOK
<1>2. /\ RecordEvents(home[c], new) /\ numbered' = numbered \cup {x}
      /\ \A d \in Conn : cseq'[d] = IF d = c THEN cseq[c] + 1 ELSE cseq[d]
      /\ pc' = [pc EXCEPT ![c] = NextRead(c)]
      /\ UNCHANGED <<csess, home, state>>
  BY <1>0 DEF SendReady, SessionTypeOK
<1>3. f \in Numbered /\ f.s = cseq[c] + 1 /\ x.sess = csess[c] /\ x.n = cseq[c] + 1
  BY <1>1 DEF Numbered, Frame
<1>4. /\ new \in [Session -> Seq(Numbered)]
      /\ \A s \in Session : new[s] # <<>> => s = csess[c]
      /\ \E i \in DOMAIN new[csess[c]] : new[csess[c]][i] = f
  <2> HIDE DEF f
  <2>1. <<f>> \in Seq(Numbered) /\ <<>> \in Seq(Numbered) /\ 1 \in DOMAIN <<f>> /\ <<f>>[1] = f
    BY <1>3
  <2>2. QED BY <1>1, <2>1
<1>5. \A d \in Conn : Builds(d)' => Builds(d)
  BY <1>0, <1>2 DEF Builds, Greeting, NextRead, TypeOK
<1>6. entry[c] = x /\ \A y : y \in numbered' <=> y \in numbered \/ \E d \in {c} : y = entry[d]
  BY <1>2
<1> HIDE DEF f, x, new, entry
<1>7. {c} \in SUBSET Conn
  OBVIOUS
<1>8. \A d \in {c} : /\ Builds(d) /\ home[d] = home[c]
                     /\ entry[d].sess = csess[d] /\ entry[d].n = cseq[d] + 1
                     /\ \E i \in DOMAIN new[csess[d]] : new[csess[d]][i].s = cseq[d] + 1
  BY <1>0, <1>3, <1>4, <1>6
<1>9. \A s \in Session : new[s] # <<>> => \E d \in {c} : csess[d] = s
  BY <1>4
<1>10. \A d \in Conn : cseq'[d] = IF d \in {c} THEN cseq[d] + 1 ELSE cseq[d]
  BY <1>2
<1>11. Gives(home[c], {c}, entry, new)
  BY <1>2, <1>4, <1>5, <1>6, <1>7, <1>8, <1>9, <1>10 DEF Gives
<1>12. \A d \in {c} : entry[d].e = None
  BY <1>6 DEF x
<1>13. \A s \in Session : \A i \in DOMAIN new[s] : new[s][i].e = None
  <2>1. \A s \in Session : new[s] = <<f>> \/ new[s] = <<>>
    BY DEF new
  <2>2. f.e = None
    BY DEF f
  <2>3. QED BY <2>1, <2>2
<1>14. QED BY <1>1, <1>11, <1>12, <1>13

\* dispatch_event numbers one frame for each ready connection it serves.
LEMMA DispatchGives ==
    ASSUME SessionManagerAssumption, TypeInv, Known, NumberInv, NEW w \in Worker, Dispatch(w)
    PROVE  \E entry : /\ Gives(w, Targets(w), entry, NewFrames(w))
                      /\ \A c \in Targets(w) : entry[c].e = cursor[w] + 1
<1> DEFINE T == Targets(w)
           new == NewFrames(w)
           entry == [c \in T |-> EventEntry(w, c)]
<1>0. TypeOK /\ SessionTypeOK /\ cursor[w] < MaxEvent
  BY DEF TypeInv, TypeOK, Dispatch
<1>1. /\ T \in SUBSET Conn
      /\ \A c \in T : home[c] = w /\ state[c] = "ready"
      /\ new \in [Session -> Seq(Numbered)]
      /\ \A s \in Session : \A i \in DOMAIN new[s] : \E c \in T : csess[c] = s
      /\ \A c \in T : csess[c] \in Session /\
            \E i \in DOMAIN new[csess[c]] : new[csess[c]][i] = EventFrame(w, c)
  BY <1>0, DispatchFrames
<1>2. /\ cseq' = [c \in Conn |-> IF c \in T THEN cseq[c] + 1 ELSE cseq[c]]
      /\ RecordEvents(w, new)
      /\ numbered' = numbered \cup {EventEntry(w, c) : c \in T}
      /\ UNCHANGED <<csess, home, state, pc>>
  BY DEF Dispatch, NewFrames, Targets, EventFrame, EventEntry, loopVars
<1>3. \A c \in T : EventFrame(w, c).s = cseq[c] + 1 /\ entry[c] = EventEntry(w, c)
                   /\ EventEntry(w, c).sess = csess[c] /\ EventEntry(w, c).n = cseq[c] + 1
                   /\ EventEntry(w, c).e = cursor[w] + 1
  BY DEF EventFrame, EventEntry
<1>4. \A x : x \in numbered' <=> x \in numbered \/ \E c \in T : x = entry[c]
  BY <1>2, <1>3
<1> HIDE DEF T, new, entry
<1>5. \A c \in T : Builds(c) /\ home[c] = w
  BY <1>1 DEF Builds
<1>6. \A c \in Conn : Builds(c)' => Builds(c)
  BY <1>2 DEF Builds, Greeting
<1>7. \A s \in Session : new[s] # <<>> => \E c \in T : csess[c] = s
  <2> SUFFICES ASSUME NEW s \in Session, new[s] # <<>> PROVE \E c \in T : csess[c] = s
    OBVIOUS
  <2>1. new[s] \in Seq(Numbered)
    BY <1>1
  <2>2. 1 \in DOMAIN new[s]
    BY <2>1
  <2>3. QED BY <1>1, <2>2
<1>8. \A c \in T : \E i \in DOMAIN new[csess[c]] : new[csess[c]][i].s = cseq[c] + 1
  BY <1>1, <1>3
<1>9. /\ \A c \in T : entry[c].sess = csess[c] /\ entry[c].n = cseq[c] + 1
      /\ \A c \in Conn : cseq'[c] = IF c \in T THEN cseq[c] + 1 ELSE cseq[c]
  BY <1>2, <1>3
<1>10. Gives(w, T, entry, new)
  BY <1>1, <1>2, <1>4, <1>5, <1>6, <1>7, <1>8, <1>9 DEF Gives
<1>11. \A c \in T : entry[c].e = cursor[w] + 1
  BY <1>3
<1>12. QED BY <1>10, <1>11 DEF T, new

\* Both keep the numbers unique.
LEMMA GivingNumbers ==
    ASSUME SessionManagerAssumption, TypeInv, Known, NumberInv,
           (\E c \in Conn : SendReady(c)) \/ \E w \in Worker : Dispatch(w)
    PROVE  NumberInv'
<1>1. ASSUME NEW c \in Conn, SendReady(c) PROVE NumberInv'
  <2>1. PICK T, entry, new : Gives(home[c], T, entry, new) /\ home[c] \in Worker
    BY <1>1, SendReadyGives
  <2>2. QED BY <2>1, NumberingStep
<1>2. ASSUME NEW w \in Worker, Dispatch(w) PROVE NumberInv'
  <2>1. PICK T, entry, new : Gives(w, T, entry, new)
    BY <1>2, DispatchGives
  <2>2. QED BY <2>1, NumberingStep
<1>3. QED BY <1>1, <1>2

-----------------------------------------------------------------------------
(* Steps that make a connection a session's builder                        *)

\* create_session: no number of the new session exists.
LEMMA IdentifyVerifiedNumbers ==
    ASSUME SessionManagerAssumption, TypeInv, Known, NumberInv, NEW c \in Conn, IdentifyVerified(c)
    PROVE  NumberInv'
<1> DEFINE w == home[c]
           created == [NoCopy EXCEPT !.held = TRUE, !.user = req[c].user, !.conn = c,
                                     !.fresh = TRUE]
<1>0. TypeOK /\ SessionTypeOK
  BY DEF TypeInv, TypeOK
<1>1. pc[c] = "identify" /\ w \in Worker /\ csess[c] = None /\ c # None /\ c \in Session
  BY RequestType DEF IdentifyVerified, TypeInv, HandshakeOrder, InOrder, Handled, Identified, Session
<1>2. /\ sessions' = [sessions EXCEPT ![w][c] = created]
      /\ shared' = [shared EXCEPT ![c] = Persisted(c, created)]
      /\ csess' = [csess EXCEPT ![c] = c]
      /\ state' = [state EXCEPT ![c] = "ready"]
      /\ pc' = [pc EXCEPT ![c] = "presence"]
      /\ UNCHANGED <<numbered, home, cseq>>
  BY DEF IdentifyVerified, CreateSession, eventVars
<1>3. created.held /\ created.conn = c
      /\ (Persisted(c, created).held => ValkeyAvailable)
  <2>1. created.held /\ created.conn = c
    BY DEF NoCopy
  <2>2. shared[c].held => ValkeyAvailable
    BY <1>1 DEF NumberInv, Copies
  <2>3. QED BY <2>1, <2>2 DEF Persisted
<1> HIDE DEF created
<1>4. (\A x \in numbered : x.sess # c) /\ \A d \in Conn : csess[d] # c
  BY <1>1 DEF Known, Created
<1>5. \A n : Bounded(numbered, c, n)
  BY <1>4 DEF Bounded
<1>6. /\ \A v \in Worker, r \in Session : r # c => sessions'[v][r] = sessions[v][r]
      /\ \A r \in Session : r # c => shared'[r] = shared[r]
      /\ sessions'[w][c] = created /\ shared'[c] = Persisted(c, created)
      /\ csess'[c] = c /\ \A d \in Conn : d # c => csess'[d] = csess[d]
  BY <1>0, <1>1, <1>2 DEF SessionTypeOK
<1>7. \A d \in Conn : d # c /\ Builds(d)' => Builds(d)
  BY <1>0, <1>2 DEF Builds, Greeting, TypeOK, SessionTypeOK
<1>8. OneWorker' /\ NumberUnique' /\ \A v \in Worker : v = w
  BY <1>1, <1>2 DEF NumberInv, OneWorker, NumberUnique
<1>9. Copies'
  <2>1. ASSUME NEW v \in Worker, NEW r \in Session, sessions'[v][r].held
        PROVE  Bounded(numbered, r, sessions'[v][r].sequence)
    BY <1>5, <1>6, <2>1 DEF NumberInv, Copies
  <2>2. ASSUME NEW r \in Session, shared'[r].held
        PROVE  ValkeyAvailable /\ Bounded(numbered, r, shared'[r].sequence)
    BY <1>3, <1>5, <1>6, <2>2 DEF NumberInv, Copies
  <2>3. QED BY <1>2, <2>1, <2>2 DEF Copies
<1>10. \A d \in Conn : Builds(d)' => Owns(d)'
  <2> SUFFICES ASSUME NEW d \in Conn, Builds(d)' PROVE Owns(d)'
    OBVIOUS
  <2>1. CASE d = c
    BY <1>2, <1>3, <1>5, <1>6, <2>1 DEF Owns
  <2>2. CASE d # c
    <3>1. Builds(d) /\ Owns(d) /\ csess[d] \in Session /\ csess[d] # c /\ home[d] \in Worker
      BY <1>4, <1>7, <2>2, BuilderHome DEF NumberInv, Owners
    <3>2. QED BY <1>2, <1>6, <2>2, <3>1 DEF Owns
  <2>3. QED BY <2>1, <2>2
<1>11. \A d, e \in Conn : Builds(d)' /\ Builds(e)' /\ csess'[d] = csess'[e] => d = e
  BY <1>4, <1>6, <1>7 DEF NumberInv, Owners
<1>12. QED BY <1>8, <1>9, <1>10, <1>11 DEF NumberInv, Owners

\* resume_session: the connection that built the session's numbers, if there
\* is one, is disconnected, and the new one starts at the session's last.
LEMMA ResumeAcceptedNumbers ==
    ASSUME SessionManagerAssumption, TypeInv, Known, NumberInv, NEW c \in Conn, ResumeAccepted(c)
    PROVE  NumberInv'
<1> DEFINE w == home[c]
           s == req[c].sess
           found == GetSession(w, s)
           resumed == [found EXCEPT !.conn = c, !.sequence = ResumedSequence(found, req[c].seq),
                                    !.fresh = TRUE]
<1>0. TypeOK /\ SessionTypeOK
  BY DEF TypeInv, TypeOK
<1>1. pc[c] = "resume" /\ w \in Worker /\ csess[c] = None /\ s \in Session /\ s # None
      /\ req[c].seq \in Nat
  <2>1. InOrder(c) /\ pc[c] = "resume" /\ req[c] \in Request
    BY <1>0 DEF ResumeAccepted, TypeInv, HandshakeOrder, TypeOK
  <2>2. req[c].op = "resume" /\ home[c] \in Worker
    BY <2>1 DEF InOrder, Handled
  <2>3. csess[c] = None
    BY <2>1, <2>2 DEF InOrder, Identified
  <2>4. QED BY <2>1, <2>2, <2>3 DEF Request
<1>2. /\ sessions' = [sessions EXCEPT ![w][s] = resumed]
      /\ shared' = [shared EXCEPT ![s] = Persisted(s, resumed)]
      /\ csess' = [csess EXCEPT ![c] = s]
      /\ cseq' = [cseq EXCEPT ![c] = resumed.sequence]
      /\ state' = [d \in Conn |-> IF d = c THEN "ready"
                                  ELSE IF d = found.conn /\ HeldHere(d, w) THEN "disconnected"
                                  ELSE state[d]]
      /\ pc' = [pc EXCEPT ![c] = "resumed"]
      /\ UNCHANGED <<numbered, home>>
      /\ found.held
  BY DEF ResumeAccepted, ResumeSession, CanResume, eventVars
<1>3. /\ found \in SessionCopy /\ Bounded(numbered, s, found.sequence)
      /\ \A d \in Conn : Builds(d) /\ csess[d] = s => found.conn = d
  BY <1>1, <1>2, FoundCopy
<1>4. /\ resumed.held /\ resumed.conn = c
      /\ Bounded(numbered, s, resumed.sequence)
      /\ IF ValkeyAvailable THEN Persisted(s, resumed).sequence = resumed.sequence
                            ELSE Persisted(s, resumed) = shared[s]
  <2> HIDE DEF found
  <2>1. found.sequence \in Nat /\ \A x \in numbered : x.n \in Nat
    BY <1>0, <1>3 DEF SessionCopy, TypeOK, Numbering
  <2>2. ResumedSequence(found, req[c].seq) \in Nat
        /\ ResumedSequence(found, req[c].seq) >= found.sequence
    BY <1>1, <2>1 DEF ResumedSequence, Larger
  <2>3. \A n \in Nat : LET copy == [found EXCEPT !.conn = c, !.sequence = n, !.fresh = TRUE]
                       IN  /\ copy \in SessionCopy
                           /\ copy.held = found.held /\ copy.conn = c /\ copy.sequence = n
    BY <1>3 DEF SessionCopy
  <2>4. /\ resumed \in SessionCopy /\ resumed.held /\ resumed.conn = c
        /\ resumed.sequence = ResumedSequence(found, req[c].seq)
    BY <1>2, <2>2, <2>3
  <2> HIDE DEF resumed
  <2>5. Bounded(numbered, s, resumed.sequence)
    BY <1>3, <2>1, <2>2, <2>4 DEF Bounded
  <2>6. IF ValkeyAvailable THEN Persisted(s, resumed).sequence = resumed.sequence
                           ELSE Persisted(s, resumed) = shared[s]
    BY <2>4 DEF Persisted, SessionCopy
  <2>7. QED BY <2>4, <2>5, <2>6
<1> HIDE DEF found, resumed
<1>5. /\ sessions'[w][s] = resumed /\ shared'[s] = Persisted(s, resumed)
      /\ \A v \in Worker, r \in Session : r # s => sessions'[v][r] = sessions[v][r]
      /\ \A r \in Session : r # s => shared'[r] = shared[r]
      /\ csess'[c] = s /\ cseq'[c] = resumed.sequence
      /\ \A d \in Conn : d # c => csess'[d] = csess[d] /\ cseq'[d] = cseq[d]
  BY <1>0, <1>1, <1>2 DEF SessionTypeOK
<1>6. \A d \in Conn : d # c /\ Builds(d)' => Builds(d)
  BY <1>0, <1>2 DEF Builds, Greeting, TypeOK
<1>7. \A d \in Conn : Builds(d)' /\ csess'[d] = s => d = c
  <2> SUFFICES ASSUME NEW d \in Conn, Builds(d)', csess[d] = s, d # c PROVE FALSE
    BY <1>5
  <2>1. Builds(d) /\ found.conn = d
    BY <1>3, <1>6
  <2>2. d \in registered
    BY <2>1 DEF Known, Present, Builds, Greeting, Accepted
  <2>3. home[d] = w
    BY <1>1, <2>1, BuilderHome DEF NumberInv, OneWorker
  <2>4. state'[d] = "disconnected" /\ pc'[d] = pc[d]
    BY <1>0, <1>2, <2>1, <2>2, <2>3 DEF HeldHere, TypeOK
  <2>5. Greeting(d)
    BY <2>4 DEF Builds, Greeting
  <2>6. Announced(numbered, s)
    BY <1>1 DEF Known, RequestsTold
  <2>7. QED BY <2>5, <2>6 DEF Known, Created
<1>8. OneWorker' /\ NumberUnique' /\ \A v \in Worker : v = w
  BY <1>1, <1>2 DEF NumberInv, OneWorker, NumberUnique
<1>9. Copies'
  <2>1. ASSUME NEW v \in Worker, NEW r \in Session, sessions'[v][r].held
        PROVE  Bounded(numbered, r, sessions'[v][r].sequence)
    BY <1>4, <1>5, <1>8, <2>1 DEF NumberInv, Copies
  <2>2. ASSUME NEW r \in Session, shared'[r].held
        PROVE  ValkeyAvailable /\ Bounded(numbered, r, shared'[r].sequence)
    BY <1>4, <1>5, <2>2 DEF NumberInv, Copies
  <2>3. QED BY <1>2, <2>1, <2>2 DEF Copies
<1>10. \A d \in Conn : Builds(d)' => Owns(d)'
  <2> SUFFICES ASSUME NEW d \in Conn, Builds(d)' PROVE Owns(d)'
    OBVIOUS
  <2>1. CASE d = c
    BY <1>2, <1>4, <1>5, <2>1 DEF Owns
  <2>2. CASE d # c
    <3>1. Builds(d) /\ Owns(d) /\ csess[d] \in Session /\ csess[d] # s /\ home[d] \in Worker
      BY <1>5, <1>6, <1>7, <2>2, BuilderHome DEF NumberInv, Owners
    <3>2. QED BY <1>2, <1>5, <2>2, <3>1 DEF Owns
  <2>3. QED BY <2>1, <2>2
<1>11. \A d, e \in Conn : Builds(d)' /\ Builds(e)' /\ csess'[d] = csess'[e] => d = e
  BY <1>5, <1>6, <1>7 DEF NumberInv, Owners
<1>12. QED BY <1>8, <1>9, <1>10, <1>11 DEF NumberInv, Owners

-----------------------------------------------------------------------------
(* The theorems                                                            *)

\* Every step keeps the numbers unique.
LEMMA StepNumbers ==
    ASSUME SessionManagerAssumption, TypeInv, Known, NumberInv, [Next]_vars
    PROVE  NumberInv'
<1>1. CASE UNCHANGED vars
  <2>1. UNCHANGED <<numbered, csess, cseq, sessions, shared, home, pc, state>>
    BY <1>1 DEF vars, sessionVars, connectionVars, managerVars, valkeyVars, loopVars, eventVars
  <2>2. QED BY <2>1, QuietNumbers DEF Builds, Greeting
<1>2. ASSUME NEW t \in Tab,
             \/ \E c \in Conn, w \in Worker : Connect(t, c, w)
             \/ Receive(t)
             \/ \E how \in {"lost", "closed"} : Leave(t, how)
      PROVE  NumberInv'
  BY <1>2, ClientNumbers
<1>3. ASSUME NEW c \in Conn, ServerStep(c)
      PROVE  NumberInv'
  BY <1>3, QuietNumberSteps, IdentifyVerifiedNumbers, GivingNumbers, ResumeRejectedNumbers,
     ResumeAcceptedNumbers, ReplayStartNumbers DEF ServerStep
<1>4. ASSUME NEW c \in Conn, MonitorStep(c) \/ TaskSend(c) \/ NoticeLoss(c) \/ WindowReset(c)
      PROVE  NumberInv'
  BY <1>4, QuietNumberSteps DEF MonitorStep
<1>5. ASSUME NEW w \in Worker, Dispatch(w) \/ Crash(w)
      PROVE  NumberInv'
  BY <1>5, GivingNumbers, CrashNumbers
<1>6. CASE Expire
  BY <1>6, ExpireNumbers
<1>7. QED BY <1>1, <1>2, <1>3, <1>4, <1>5, <1>6 DEF Next

\* With one worker the whole invariant always holds.
THEOREM OneBuilder == OneWorker /\ Spec => [](TypeInv /\ Known /\ NumberInv)
<1>1. OneWorker /\ Init => TypeInv /\ Known /\ NumberInv
  BY InitType, InitKnown, InitNumbers, SessionManagerAssumption, GatewayAssumption
<1>2. TypeInv /\ Known /\ NumberInv /\ [Next]_vars => (TypeInv /\ Known /\ NumberInv)'
  BY StepType, StepKnown, StepNumbers, SessionManagerAssumption, GatewayAssumption
<1>3. QED BY <1>1, <1>2, PTL DEF Spec

\* A number of a session is never given twice, whatever the numbers of
\* connections, events, tabs and crashes, with or without Valkey: dispatch,
\* READY, RESUME's max() and the two copies together keep it.
THEOREM UniqueNumbers == OneWorker /\ Spec => []NumberUnique
<1>1. TypeInv /\ Known /\ NumberInv => NumberUnique
  BY DEF NumberInv
<1>2. QED BY <1>1, OneBuilder, PTL

\* A ready connection is the one its session points to: resume_session
\* disconnects the connection that held the session before.
THEOREM ReadyOwns == OneWorker /\ Spec => []ReadyOwnsSession
<1>1. TypeInv /\ Known /\ NumberInv => ReadyOwnsSession
  <2> SUFFICES ASSUME NumberInv, NEW c \in Conn, IsAuthenticated(c),
                      sessions[home[c]][csess[c]].held
               PROVE  sessions[home[c]][csess[c]].conn = c
    BY DEF ReadyOwnsSession
  <2>1. Owns(c)
    BY DEF NumberInv, Owners, Builds, IsAuthenticated
  <2>2. QED BY <2>1 DEF Owns
<1>2. QED BY <1>1, OneBuilder, PTL

-----------------------------------------------------------------------------
(* The stream of a session                                                 *)

NumbersOf(given, s) == {x \in given : x.sess = s}
CountOf(given, s) == Cardinality(NumbersOf(given, s))

\* As many numbers were given to the session as the last of them says.
Gapless(given, s) ==
    /\ IsFiniteSet(NumbersOf(given, s))
    /\ \A n \in Nat : Given(given, s, n) <=> n \in 1 .. CountOf(given, s)

\* A connection counts from 0, through the numbers of its session.
CountsGiven ==
    \A c \in Conn : cseq[c] = 0 \/ (csess[c] # None /\ Given(numbered, csess[c], cseq[c]))

StreamInv == CountsGiven /\ \A s \in Session : Gapless(numbered, s)

Unique(given) == \A a, b \in given : a.sess = b.sess /\ a.n = b.n => a = b

\* The entry with number n, and the log, of what was given.
EntryOf(given, s, n) ==
    IF \E x \in NumbersOf(given, s) : x.n = n
    THEN (CHOOSE x \in NumbersOf(given, s) : x.n = n).e ELSE -1

LogFrom(given, s) == [n \in 1 .. CountOf(given, s) |-> EntryOf(given, s, n)]

\* LogOf, of what was given so far.
LEMMA LogIs == \A s : LogOf(s) = LogFrom(numbered, s)
BY DEF LogOf, LogFrom, NumbersOf, CountOf, EntryOf

\* The number after the last one makes the next entry of the log.
LEMMA LogGrows ==
    ASSUME NEW M \in SUBSET Numbering, NEW N \in SUBSET Numbering, NEW s \in Session,
           Gapless(M, s), Unique(N), NEW x \in Numbering, x.sess = s,
           x.n = CountOf(M, s) + 1, NumbersOf(N, s) = NumbersOf(M, s) \cup {x}
    PROVE  /\ Gapless(N, s)
           /\ CountOf(N, s) = CountOf(M, s) + 1
           /\ LogFrom(N, s) = Append(LogFrom(M, s), x.e)
<1> DEFINE k == CountOf(M, s)
<1>1. IsFiniteSet(NumbersOf(M, s)) /\ k \in Nat
  BY FS_CardinalityType DEF Gapless, CountOf
<1>2. \A n : Given(M, s, n) <=> \E y \in NumbersOf(M, s) : y.n = n
  BY DEF Given, NumbersOf
<1>3. \A n : Given(N, s, n) <=> Given(M, s, n) \/ n = k + 1
  BY <1>2 DEF Given, NumbersOf
<1>4. x \notin NumbersOf(M, s)
  <2>1. ~ Given(M, s, k + 1)
    BY <1>1 DEF Gapless
  <2>2. QED BY <1>2, <2>1
<1>5. IsFiniteSet(NumbersOf(N, s)) /\ CountOf(N, s) = k + 1
  BY <1>1, <1>4, FS_AddElement DEF CountOf
<1>6. Gapless(N, s)
  BY <1>1, <1>3, <1>5 DEF Gapless
<1>7. \A n \in 1 .. k : EntryOf(N, s, n) = EntryOf(M, s, n)
  <2> SUFFICES ASSUME NEW n \in 1 .. k PROVE EntryOf(N, s, n) = EntryOf(M, s, n)
    OBVIOUS
  <2>1. PICK y \in NumbersOf(M, s) : y.n = n
    BY <1>1, <1>2 DEF Gapless
  <2>2. y \in NumbersOf(N, s) /\ NumbersOf(M, s) \subseteq NumbersOf(N, s)
    BY <2>1
  <2>3. \A z \in NumbersOf(N, s) : z.n = n => z = y
    BY <2>1, <2>2 DEF NumbersOf, Unique
  <2>4. (CHOOSE z \in NumbersOf(N, s) : z.n = n) = y
    BY <2>1, <2>2, <2>3
  <2>5. (CHOOSE z \in NumbersOf(M, s) : z.n = n) = y
    BY <2>1, <2>2, <2>3
  <2>6. QED BY <2>1, <2>2, <2>4, <2>5 DEF EntryOf
<1>8. EntryOf(N, s, k + 1) = x.e
  <2>1. \A z \in NumbersOf(N, s) : z.n = k + 1 => z = x
    BY DEF NumbersOf, Unique
  <2>2. x \in NumbersOf(N, s) /\ x.n = k + 1
    OBVIOUS
  <2>3. (CHOOSE z \in NumbersOf(N, s) : z.n = k + 1) = x
    BY <2>1, <2>2
  <2>4. QED BY <2>2, <2>3 DEF EntryOf
<1>9. LogFrom(N, s) = [n \in 1 .. k + 1 |-> IF n = k + 1 THEN x.e ELSE LogFrom(M, s)[n]]
  BY <1>1, <1>5, <1>7, <1>8 DEF LogFrom
<1>10. Append(LogFrom(M, s), x.e) =
           [n \in 1 .. k + 1 |-> IF n = k + 1 THEN x.e ELSE LogFrom(M, s)[n]]
  <2>1. k \in Nat /\ Len(LogFrom(M, s)) = k
    BY <1>1 DEF LogFrom
  <2> HIDE DEF k
  <2>2. QED BY ONLY <2>1
<1>11. QED BY <1>5, <1>6, <1>9, <1>10

\* A conversation of no numbers.
LEMMA InitStreamInv == ASSUME Init PROVE StreamInv
<1>1. CountsGiven
  BY DEF Init, SessionInit, CountsGiven
<1>2. ASSUME NEW s \in Session PROVE Gapless(numbered, s)
  <2>1. NumbersOf(numbered, s) = {}
    BY DEF Init, NumbersOf
  <2>2. IsFiniteSet(NumbersOf(numbered, s)) /\ CountOf(numbered, s) = 0
    BY <2>1, FS_EmptySet DEF CountOf
  <2>3. \A n : ~ Given(numbered, s, n)
    BY DEF Init, Given
  <2>4. QED BY <2>2, <2>3 DEF Gapless
<1>3. QED BY <1>1, <1>2 DEF StreamInv

\* A connection that may give numbers has counted to the last one given, so
\* its next number is the log's next entry.
LEMMA BuilderCounts ==
    ASSUME TypeInv, Known, NumberInv, StreamInv, NEW c \in Conn, Builds(c)
    PROVE  csess[c] \in Session /\ cseq[c] = CountOf(numbered, csess[c])
<1> DEFINE s == csess[c]
           k == CountOf(numbered, s)
<1>1. s \in Session /\ cseq[c] \in Nat
  BY BuilderHome DEF TypeInv, TypeOK, SessionTypeOK
<1>2. Gapless(numbered, s) /\ k \in Nat
  BY <1>1, FS_CardinalityType DEF StreamInv, Gapless, CountOf
<1>3. \A x \in numbered : x.n \in Nat
  BY DEF TypeInv, TypeOK, Numbering
<1>4. Bounded(numbered, s, cseq[c])
  BY DEF NumberInv, Owners, Owns
<1>5. cseq[c] = 0 \/ Given(numbered, s, cseq[c])
  BY DEF StreamInv, CountsGiven
<1> HIDE DEF s, k
<1>6. cseq[c] <= k
  BY <1>1, <1>2, <1>5 DEF Gapless, k
<1>7. k <= cseq[c]
  <2>1. CASE k = 0
    BY <1>1, <2>1
  <2>2. CASE k # 0
    <3>1. Given(numbered, s, k)
      BY <1>2, <2>2 DEF Gapless, k
    <3>2. QED BY <1>3, <1>4, <3>1 DEF Given, Bounded
  <2>3. QED BY <2>1, <2>2
<1>8. cseq[c] = k
  BY <1>1, <1>2, <1>6, <1>7
<1>9. QED BY <1>1, <1>8 DEF s, k

\* Such steps append one entry to the logs of the sessions they serve.
LEMMA StreamStep ==
    ASSUME TypeInv, TypeOK', Known, NumberInv, NumberInv', StreamInv,
           NEW w \in Worker, NEW T, NEW entry, NEW new, Gives(w, T, entry, new)
    PROVE  /\ StreamInv'
           /\ \A s \in Session : (\A c \in T : csess[c] # s) => LogOf(s)' = LogOf(s)
           /\ \A s \in Session, c \in T :
                 csess[c] = s => LogOf(s)' = Append(LogOf(s), entry[c].e)
<1> USE DEF Gives
<1>0. /\ numbered \in SUBSET Numbering /\ numbered' \in SUBSET Numbering /\ Unique(numbered')
      /\ cseq \in [Conn -> Nat] /\ numbered \subseteq numbered'
  BY DEF TypeInv, TypeOK, SessionTypeOK, NumberInv, NumberUnique, Unique
<1>1. \A c, d \in T : csess[c] = csess[d] => c = d
  BY DEF NumberInv, Owners
<1>2. ASSUME NEW s \in Session, \A c \in T : csess[c] # s
      PROVE  NumbersOf(numbered', s) = NumbersOf(numbered, s) /\ Gapless(numbered', s)
  <2>1. NumbersOf(numbered', s) = NumbersOf(numbered, s)
    BY <1>2 DEF NumbersOf
  <2>2. Gapless(numbered, s)
    BY DEF StreamInv
  <2>3. \A n : Given(numbered', s, n) <=> Given(numbered, s, n)
    BY <2>1 DEF Given, NumbersOf
  <2>4. QED BY <2>1, <2>2, <2>3 DEF Gapless, CountOf
<1>3. ASSUME NEW c \in T
      PROVE  /\ csess[c] \in Session /\ Gapless(numbered', csess[c])
             /\ LogFrom(numbered', csess[c]) = Append(LogFrom(numbered, csess[c]), entry[c].e)
             /\ Given(numbered', csess[c], cseq'[c])
  <2> DEFINE s == csess[c]
             x == entry[c]
  <2>1. s \in Session /\ cseq[c] = CountOf(numbered, s)
    BY BuilderCounts
  <2>2. x \in numbered' /\ x.sess = s /\ x.n = cseq[c] + 1
    OBVIOUS
  <2>3. x \in Numbering /\ x.n = CountOf(numbered, s) + 1 /\ Gapless(numbered, s)
    BY <1>0, <2>1, <2>2 DEF StreamInv
  <2>4. NumbersOf(numbered', s) = NumbersOf(numbered, s) \cup {x}
    <3>1. \A d \in T : entry[d].sess = s => d = c
      BY <1>1
    <3>2. QED BY <2>2, <3>1 DEF NumbersOf
  <2> HIDE DEF s, x
  <2>5. Gapless(numbered', s) /\ LogFrom(numbered', s) = Append(LogFrom(numbered, s), x.e)
    BY ONLY <1>0, <2>1, <2>2, <2>3, <2>4, LogGrows
  <2>6. Given(numbered', s, cseq'[c])
    BY <2>2 DEF Given
  <2>7. QED BY <2>1, <2>5, <2>6 DEF s, x
<1>4. \A s : LogOf(s)' = LogFrom(numbered', s)
  BY LogIs DEF LogOf, LogFrom, NumbersOf, CountOf, EntryOf
<1>5. CountsGiven'
  <2> SUFFICES ASSUME NEW c \in Conn
               PROVE  cseq'[c] = 0 \/ (csess'[c] # None /\ Given(numbered', csess'[c], cseq'[c]))
    BY DEF CountsGiven
  <2>1. CASE c \in T
    BY <1>3, <2>1, BuilderHome
  <2>2. CASE c \notin T
    <3>1. cseq'[c] = cseq[c] /\ csess'[c] = csess[c]
      BY <2>2
    <3>2. QED BY <1>0, <3>1, GivenGrows DEF StreamInv, CountsGiven
  <2>3. QED BY <2>1, <2>2
<1>6. StreamInv'
  BY <1>2, <1>3, <1>5 DEF StreamInv
<1>7. \A s \in Session : (\A c \in T : csess[c] # s) => LogOf(s)' = LogOf(s)
  <2> SUFFICES ASSUME NEW s \in Session, \A c \in T : csess[c] # s
               PROVE  LogOf(s)' = LogOf(s)
    OBVIOUS
  <2>1. NumbersOf(numbered', s) = NumbersOf(numbered, s)
    BY <1>2
  <2>2. LogFrom(numbered', s) = LogFrom(numbered, s)
    BY ONLY <2>1 DEF LogFrom, EntryOf, CountOf
  <2>3. QED BY <1>4, <2>2, LogIs
<1>8. \A s \in Session, c \in T : csess[c] = s => LogOf(s)' = Append(LogOf(s), entry[c].e)
  BY <1>3, <1>4, LogIs
<1>9. QED BY <1>6, <1>7, <1>8

\* A step that gives no number keeps the stream as it is.
LEMMA QuietStream ==
    ASSUME StreamInv, UNCHANGED <<numbered, csess, cseq>>
    PROVE  StreamInv'
BY DEF StreamInv, CountsGiven, Gapless, NumbersOf, CountOf, Given

\* create_session: the connection has counted nothing before.
LEMMA IdentifyVerifiedStream ==
    ASSUME SessionManagerAssumption, TypeInv, Known, StreamInv, NEW c \in Conn,
           IdentifyVerified(c)
    PROVE  StreamInv'
<1>1. csess[c] = None /\ c # None
  <2>1. InOrder(c) /\ pc[c] = "identify"
    BY DEF IdentifyVerified, TypeInv, HandshakeOrder
  <2>2. csess[c] = None
    BY <2>1 DEF InOrder, Handled, Identified
  <2>3. QED BY <2>2, SessionManagerAssumption DEF Conn, None
<1>2. /\ csess' = [csess EXCEPT ![c] = c] /\ UNCHANGED <<numbered, cseq>>
  BY DEF IdentifyVerified, CreateSession, eventVars
<1>3. cseq[c] = 0
  BY <1>1 DEF StreamInv, CountsGiven
<1>4. \A d \in Conn : csess'[d] = IF d = c THEN c ELSE csess[d]
  BY <1>2 DEF TypeInv, TypeOK, SessionTypeOK
<1>5. CountsGiven'
  BY <1>2, <1>3, <1>4 DEF StreamInv, CountsGiven, Given
<1>6. \A s \in Session : Gapless(numbered', s)
  BY <1>2 DEF StreamInv
<1>7. QED BY <1>5, <1>6 DEF StreamInv

\* resume_session: the copy's number and the client's were both given.
LEMMA ResumeAcceptedStream ==
    ASSUME SessionManagerAssumption, TypeInv, Known, Heard, StreamInv, NEW c \in Conn,
           ResumeAccepted(c)
    PROVE  StreamInv'
<1> DEFINE s == req[c].sess
           found == GetSession(home[c], s)
           n == ResumedSequence(found, req[c].seq)
<1>0. TypeOK /\ SessionTypeOK
  BY DEF TypeInv, TypeOK
<1>1. home[c] \in Worker /\ s \in Session /\ s # None /\ req[c].op = "resume"
  <2>1. InOrder(c) /\ pc[c] = "resume" /\ req[c] \in Request
    BY <1>0 DEF ResumeAccepted, TypeInv, HandshakeOrder, TypeOK
  <2>2. req[c].op = "resume" /\ home[c] \in Worker
    BY <2>1 DEF InOrder, Handled
  <2>3. QED BY <2>1, <2>2 DEF Request
<1>2. found \in SessionCopy
  BY <1>0, <1>1, GetSessionType
<1>3. found.sequence = 0 \/ Given(numbered, s, found.sequence)
  BY <1>0, <1>1, GivenFound DEF Heard, CopyGiven
<1>4. Given(numbered, s, req[c].seq)
  BY <1>1 DEF Heard, RequestsGiven
<1>5. n = 0 \/ Given(numbered, s, n)
  BY <1>3, <1>4 DEF ResumedSequence, Larger
<1>6. /\ csess' = [csess EXCEPT ![c] = s] /\ UNCHANGED numbered
      /\ cseq' = [cseq EXCEPT ![c] =
                    [found EXCEPT !.conn = c, !.sequence = n, !.fresh = TRUE].sequence]
  BY DEF ResumeAccepted, ResumeSession, eventVars
<1> HIDE DEF found, n, s
<1>7. [found EXCEPT !.conn = c, !.sequence = n, !.fresh = TRUE].sequence = n
  BY <1>2 DEF SessionCopy
<1>8. \A d \in Conn : /\ csess'[d] = IF d = c THEN s ELSE csess[d]
                      /\ cseq'[d] = IF d = c THEN n ELSE cseq[d]
  BY <1>0, <1>6, <1>7 DEF SessionTypeOK
<1>9. CountsGiven'
  BY <1>1, <1>5, <1>6, <1>8 DEF StreamInv, CountsGiven
<1>10. \A r \in Session : Gapless(numbered', r)
  BY <1>6 DEF StreamInv
<1>11. QED BY <1>9, <1>10 DEF StreamInv

-----------------------------------------------------------------------------
(* The refinement                                                          *)

\* The gateway starts with empty logs.
LEMMA InitRefines == ASSUME Init PROVE Stream!StreamInit
<1>1. \A s \in Session : LogOf(s) = <<>>
  <2> SUFFICES ASSUME NEW s \in Session PROVE LogOf(s) = <<>>
    OBVIOUS
  <2>1. NumbersOf(numbered, s) = {}
    BY DEF Init, NumbersOf
  <2>2. CountOf(numbered, s) = 0
    BY <2>1, FS_EmptySet DEF CountOf
  <2>3. LogFrom(numbered, s) = [m \in 1 .. 0 |-> EntryOf(numbered, s, m)]
    BY <2>2 DEF LogFrom
  <2>4. QED BY <2>3, LogIs
<1>2. QED BY <1>1 DEF Init, Stream!StreamInit, None

\* A step that gives no number and tells no client anything is a stutter.
LEMMA StutterRefines ==
    ASSUME UNCHANGED <<numbered, tsess, tseq>>
    PROVE  UNCHANGED Stream!streamVars
BY DEF Stream!streamVars, LogOf

\* READY and dispatch_event append an entry to the logs of their sessions.
LEMMA GivingRefines ==
    ASSUME TypeInv, TypeOK', Known, NumberInv, NumberInv', StreamInv,
           NEW w \in Worker, NEW T, NEW entry, NEW new, Gives(w, T, entry, new),
           NEW e \in Event \cup {None}, \A c \in T : entry[c].e = e,
           UNCHANGED <<tsess, tseq>>
    PROVE  StreamInv' /\ Stream!Number
<1> DEFINE S == {csess[c] : c \in T}
<1>1. \A c \in T : csess[c] \in Session
  BY BuilderHome DEF Gives
<1>2. S \in SUBSET Session
  BY <1>1
<1>3. \A s \in Session : LogOf(s)' = IF s \in S THEN Append(LogOf(s), e) ELSE LogOf(s)
  BY StreamStep
<1>4. StreamInv'
  BY StreamStep
<1> HIDE DEF S
<1>5. [s \in Session |-> LogOf(s)]' =
          [s \in Session |-> IF s \in S THEN Append([r \in Session |-> LogOf(r)][s], e)
                                        ELSE [r \in Session |-> LogOf(r)][s]]
  BY <1>3
<1>6. UNCHANGED <<tsess, [t \in Tab |-> IF tsess[t] = None THEN 0 ELSE tseq[t]]>>
  OBVIOUS
<1>7. QED BY <1>2, <1>4, <1>5, <1>6 DEF Stream!Number

\* A tab that takes a frame learns a number its session's log has reached, or
\* that the session is gone, or nothing.
LEMMA ReceiveRefines ==
    ASSUME SessionManagerAssumption, TypeInv, Heard, StreamInv, NEW t \in Tab, Receive(t)
    PROVE  \/ Stream!Learn(t) \/ Stream!Forget(t)
           \/ UNCHANGED Stream!streamVars
<1> DEFINE c == tconn[t]
           f == Head(wire[c])
<1>0. TypeOK /\ tsess \in [Tab -> Session \cup {None}] /\ tseq \in [Tab -> Nat]
  BY DEF TypeInv, TypeOK
<1>1. /\ c \in Conn /\ c # None /\ wire[c] # <<>> /\ wire[c] \in Seq(Frame)
      /\ tseq' = [tseq EXCEPT ![t] = IF f.s # 0 THEN f.s ELSE @]
      /\ tsess' = [tsess EXCEPT ![t] = IF f.t = "READY" THEN f.sess
                                       ELSE IF f.t = "INVALID_SESSION" THEN None ELSE @]
      /\ UNCHANGED numbered
  BY <1>0 DEF Receive, TypeOK, eventVars
<1>2. /\ f \in Frame
      /\ f.t # "INVALID_SESSION" => f.sess = csess[c] /\ Given(numbered, csess[c], f.s)
  BY <1>1, GivenTake DEF Heard, FramesGiven
<1> HIDE DEF f
<1>3. /\ \A u \in Tab : u # t => tsess'[u] = tsess[u] /\ tseq'[u] = tseq[u]
      /\ tseq'[t] = IF f.s # 0 THEN f.s ELSE tseq[t]
      /\ tsess'[t] = IF f.t = "READY" THEN f.sess
                     ELSE IF f.t = "INVALID_SESSION" THEN None ELSE tsess[t]
      /\ tsess' = [tsess EXCEPT ![t] = tsess'[t]]
  BY <1>0, <1>1
<1>4. UNCHANGED [s \in Session |-> LogOf(s)]
  BY <1>1 DEF LogOf
<1> DEFINE known == [u \in Tab |-> IF tsess[u] = None THEN 0 ELSE tseq[u]]
<1>5. known' = [known EXCEPT ![t] = IF tsess'[t] = None THEN 0 ELSE tseq'[t]]
  BY <1>3
<1>6. CASE f.t = "INVALID_SESSION"
  <2>1. known' = [known EXCEPT ![t] = 0] /\ tsess' = [tsess EXCEPT ![t] = None]
    BY <1>3, <1>5, <1>6
  <2>2. Stream!Forget(t)
    BY <1>4, <2>1 DEF Stream!Forget
  <2>3. QED BY <2>2
<1>7. CASE f.t # "INVALID_SESSION" /\ tsess'[t] = None
  <2>1. tsess[t] = None
    BY <1>2, <1>3, <1>7 DEF Frame
  <2>2. known' = known /\ tsess' = tsess
    BY <1>0, <1>3, <1>5, <1>7, <2>1
  <2>3. QED BY <1>4, <2>2 DEF Stream!streamVars
<1>8. CASE f.t # "INVALID_SESSION" /\ tsess'[t] # None
  <2> DEFINE s == csess[c]
  <2>1. f.sess = s /\ s \in Session /\ s # None /\ Given(numbered, s, f.s) /\ f.s \in Nat
    BY <1>2, <1>8 DEF Frame, Session
  <2>2. tsess[t] \in {None, s} /\ tsess'[t] = s
    <3>1. Follows(t)
      BY DEF Heard
    <3>2. tsess[t] # None => tsess[t] = s
      BY <1>1, <2>1, <3>1 DEF Follows
    <3>3. QED BY <1>3, <1>8, <2>1, <3>2
  <2>3. f.s \in 1 .. CountOf(numbered, s)
    BY <2>1 DEF StreamInv, Gapless
  <2>4. f.s # 0 /\ tseq'[t] = f.s
    <3>1. f.s # 0
      BY <2>3
    <3>2. QED BY <1>3, <3>1
  <2>5. Len(LogOf(s)) = CountOf(numbered, s)
    <3>1. CountOf(numbered, s) \in Nat
      BY <2>1, FS_CardinalityType DEF StreamInv, Gapless, CountOf
    <3>2. QED BY <3>1, LogIs DEF LogFrom
  <2>6. known' = [known EXCEPT ![t] = f.s] /\ tsess' = [tsess EXCEPT ![t] = s]
    BY <1>3, <1>5, <1>8, <2>2, <2>4
  <2> HIDE DEF s, known
  <2>7. /\ s \in Session /\ tsess[t] \in {None, s} /\ tsess' = [tsess EXCEPT ![t] = s]
        /\ f.s \in 1 .. Len([r \in Session |-> LogOf(r)][s])
        /\ known' = [known EXCEPT ![t] = f.s]
        /\ UNCHANGED [r \in Session |-> LogOf(r)]
    BY <1>4, <2>1, <2>2, <2>3, <2>5, <2>6
  <2>8. Stream!Learn(t)
    BY <2>7 DEF Stream!Learn, known
  <2>9. QED BY <2>8
<1>9. QED BY <1>6, <1>7, <1>8

\* The handlers' steps that give no number and make no connection a session's.
LEMMA QuietRefines ==
    ASSUME SessionManagerAssumption, TypeInv, NEW c \in Conn,
           \/ ReceiveRequest(c) \/ IdentifyRefused(c) \/ PresenceOnline(c) \/ LoopExit(c)
           \/ HeartbeatOnClosing(c) \/ HeartbeatClose(c) \/ HeartbeatClosed(c)
           \/ NoticeLoss(c) \/ WindowReset(c) \/ TaskSend(c) \/ ReplaySend(c)
           \/ ResumeUnauthorized(c) \/ ResumeRejected(c) \/ ReplayStart(c) \/ Finally(c)
    PROVE  UNCHANGED <<numbered, csess, cseq, tsess, tseq>>
<1> USE DEF sessionVars, connectionVars, managerVars, valkeyVars, loopVars, socketVars,
            sendVars, clientVars, eventVars
<1>1. CASE ReceiveRequest(c) \/ LoopExit(c) \/ HeartbeatOnClosing(c) \/ PresenceOnline(c)
  BY <1>1 DEF ReceiveRequest, LoopExit, HeartbeatOnClosing, PresenceOnline
<1>2. CASE IdentifyRefused(c)
  BY <1>2 DEF IdentifyRefused, CloseAndExit
<1>3. CASE HeartbeatClose(c) \/ HeartbeatClosed(c) \/ NoticeLoss(c) \/ WindowReset(c)
  BY <1>3 DEF HeartbeatClose, HeartbeatClosed, NoticeLoss, WindowReset
<1>4. CASE TaskSend(c) \/ ReplaySend(c) \/ ReplayStart(c)
  BY <1>4 DEF TaskSend, ReplaySend, ReplayStart
<1>5. CASE ResumeUnauthorized(c) \/ ResumeRejected(c)
  BY <1>5 DEF ResumeUnauthorized, ResumeRejected, Refuse
<1>6. CASE Finally(c)
  BY <1>6 DEF Finally
<1>7. QED BY <1>1, <1>2, <1>3, <1>4, <1>5, <1>6

\* Every step of the gateway is a step of the stream or a stutter.
LEMMA StepRefines ==
    ASSUME SessionManagerAssumption, GatewayAssumption, TypeInv, TypeInv', Known, Heard,
           NumberInv, NumberInv', StreamInv, [Next]_vars
    PROVE  StreamInv' /\ [Stream!StreamNext]_(Stream!streamVars)
<1> DEFINE Refines == StreamInv' /\ [Stream!StreamNext]_(Stream!streamVars)
<1>0. TypeOK'
  BY DEF TypeInv
<1>1. ASSUME UNCHANGED <<numbered, csess, cseq, tsess, tseq>> PROVE Refines
  BY <1>1, QuietStream, StutterRefines
<1>2. CASE UNCHANGED vars
  BY <1>1, <1>2 DEF vars, sessionVars, connectionVars, clientVars, eventVars
<1>3. ASSUME NEW t \in Tab,
             \/ \E c \in Conn, w \in Worker : Connect(t, c, w)
             \/ \E how \in {"lost", "closed"} : Leave(t, how)
      PROVE  Refines
  BY <1>1, <1>3 DEF Connect, AddConnection, Leave, sessionVars, connectionVars, eventVars
<1>4. ASSUME NEW t \in Tab, Receive(t)
      PROVE  Refines
  <2>1. StreamInv'
    BY <1>4, QuietStream DEF Receive, sessionVars, connectionVars, eventVars
  <2>2. Stream!Learn(t) \/ Stream!Forget(t) \/ UNCHANGED Stream!streamVars
    BY <1>4, ReceiveRefines
  <2>3. QED BY <2>1, <2>2 DEF Stream!StreamNext
<1>5. ASSUME NEW c \in Conn, SendReady(c)
      PROVE  Refines
  <2>1. PICK entry, new : /\ home[c] \in Worker /\ Gives(home[c], {c}, entry, new)
                          /\ \A d \in {c} : entry[d].e = None
    BY <1>5, SendReadyGives
  <2>2. UNCHANGED <<tsess, tseq>>
    BY <1>5 DEF SendReady, clientVars
  <2>3. None \in Event \cup {None}
    OBVIOUS
  <2>4. StreamInv' /\ Stream!Number
    <3>1. PICK w \in Worker : w = home[c]
      BY <2>1
    <3>2. Gives(w, {c}, entry, new) /\ \A d \in {c} : entry[d].e = None
      BY <2>1, <3>1
    <3>3. QED BY <1>0, <2>2, <2>3, <3>2, GivingRefines
  <2>5. QED BY <2>4 DEF Stream!StreamNext
<1>6. ASSUME NEW w \in Worker, Dispatch(w)
      PROVE  Refines
  <2>1. PICK T, entry, new : Gives(w, T, entry, new) /\ \A d \in T : entry[d].e = cursor[w] + 1
    BY <1>6, DispatchGives
  <2>2. UNCHANGED <<tsess, tseq>>
    BY <1>6 DEF Dispatch, clientVars
  <2>3. PICK e \in Event \cup {None} : e = cursor[w] + 1
    BY <1>6, SessionManagerAssumption DEF Dispatch, TypeInv, TypeOK, Event
  <2>4. StreamInv' /\ Stream!Number
    <3>1. \A c \in T : entry[c].e = e
      BY <2>1, <2>3
    <3>2. Gives(w, T, entry, new)
      BY <2>1
    <3>3. QED BY <1>0, <2>2, <3>1, <3>2, GivingRefines
  <2>5. QED BY <2>4 DEF Stream!StreamNext
<1>7. ASSUME NEW c \in Conn, IdentifyVerified(c) \/ ResumeAccepted(c)
      PROVE  Refines
  <2>1. StreamInv'
    BY <1>7, IdentifyVerifiedStream, ResumeAcceptedStream
  <2>2. UNCHANGED <<numbered, tsess, tseq>>
    BY <1>7 DEF IdentifyVerified, ResumeAccepted, clientVars, eventVars
  <2>3. QED BY <2>1, <2>2, StutterRefines
<1>8. ASSUME NEW c \in Conn,
             ServerStep(c) \/ MonitorStep(c) \/ TaskSend(c) \/ NoticeLoss(c) \/ WindowReset(c)
      PROVE  Refines
  BY <1>1, <1>5, <1>7, <1>8, QuietRefines DEF ServerStep, MonitorStep
<1>9. ASSUME NEW w \in Worker, Crash(w)
      PROVE  Refines
  BY <1>1, <1>9 DEF Crash, LoseWorker, clientVars
<1>10. CASE Expire
  BY <1>1, <1>10 DEF Expire, CopyExpires, SharedExpires, InfoExpires, MembersExpire, connectionVars, clientVars, eventVars
<1>11. Next => Refines
  BY <1>3, <1>4, <1>6, <1>8, <1>9, <1>10 DEF Next
<1>12. QED BY <1>2, <1>11

\* With one worker a session's stream is gapless and its clients are never
\* ahead of it: READY and dispatch_event append to the logs, a tab learns what
\* its session's log has reached, and reconnects, resumes, expiries and deaths
\* of the worker do neither.
THEOREM GatewayImplementsStream == OneWorker /\ Spec => ImplementsStream
<1> DEFINE I == TypeInv /\ Known /\ NumberInv /\ Heard /\ StreamInv
<1>1. OneWorker /\ Init => I /\ Stream!StreamInit
  BY InitType, InitKnown, InitNumbers, InitHeard, InitStreamInv, InitRefines,
     SessionManagerAssumption, GatewayAssumption
<1>2. I /\ [Next]_vars => I' /\ [Stream!StreamNext]_(Stream!streamVars)
  <2> SUFFICES ASSUME I, [Next]_vars
               PROVE  I' /\ [Stream!StreamNext]_(Stream!streamVars)
    OBVIOUS
  <2>1. TypeInv' /\ Known' /\ NumberInv' /\ Heard'
    BY StepType, StepKnown, StepNumbers, StepHeard, SessionManagerAssumption, GatewayAssumption
  <2>2. StreamInv' /\ [Stream!StreamNext]_(Stream!streamVars)
    BY <2>1, StepRefines, SessionManagerAssumption, GatewayAssumption
  <2>3. QED BY <2>1, <2>2
<1> HIDE DEF I
<1>3. QED BY <1>1, <1>2, PTL DEF Spec, ImplementsStream, Stream!StreamSpec

-----------------------------------------------------------------------------
(* What is retained is coming                                              *)

BufferOf(c) == sessions[home[c]][csess[c]].replay

\* The events of c's buffer above b have reached tab t or are on their way,
\* and the tab, the connection and every frame under way are at b or beyond:
\* whatever number the tab takes next, it passes over none of them.
Comes(t, c, b) ==
    /\ b <= cseq[c]
    /\ tsess[t] # None => b <= tseq[t]
    /\ \A f \in OnTheWay(c) : b <= f.s
    /\ \A i \in DOMAIN BufferOf(c) :
           BufferOf(c)[i].s > b /\ BufferOf(c)[i].e # None =>
               BufferOf(c)[i].e \in got[t] \/ BufferOf(c)[i] \in OnTheWay(c)

\* c is open and ready, and its replay, if it resumed, has begun.
Serves(c) == sock[c] = "open" /\ state[c] = "ready" /\ pc[c] # "resumed"

Coming == \A t \in Tab, c \in Conn : tconn[t] = c /\ Serves(c) => \E b \in Nat : Comes(t, c, b)

\* While a tab waits for its RESUME nothing on its connection is below the
\* number it asked for, from which replay_events will start.
Asked(t, c) ==
    /\ tsess[t] # None => req[c].seq <= tseq[t]
    /\ csess[c] # None => req[c].seq <= cseq[c]
    /\ \A f \in OnTheWay(c) : f.t # "INVALID_SESSION" => req[c].seq <= f.s

Asking == \A t \in Tab, c \in Conn : tconn[t] = c /\ req[c].op = "resume" => Asked(t, c)

\* A copy that is gone from Valkey left no frames.
Emptied == \A s \in Session : ~ shared[s].held => shared[s].replay = <<>>

ComingInv == Coming /\ Asking /\ Emptied

\* A buffer that stays or is emptied, and frames that stay under way.
LEMMA ComesOn ==
    ASSUME NEW t \in Tab, NEW c \in Conn, NEW b \in Nat, Comes(t, c, b),
           cseq'[c] = cseq[c], tsess'[t] = tsess[t], tseq'[t] = tseq[t], got'[t] = got[t],
           OnTheWay(c)' = OnTheWay(c), BufferOf(c)' \in {BufferOf(c), <<>>}
    PROVE  Comes(t, c, b)'
<1>1. /\ (b <= cseq[c])' /\ (tsess[t] # None => b <= tseq[t])'
      /\ \A f \in OnTheWay(c)' : b <= f.s
  BY DEF Comes
<1>2. (\A i \in DOMAIN BufferOf(c) :
          BufferOf(c)[i].s > b /\ BufferOf(c)[i].e # None =>
              BufferOf(c)[i].e \in got[t] \/ BufferOf(c)[i] \in OnTheWay(c))'
  <2>1. CASE BufferOf(c)' = BufferOf(c)
    BY <2>1 DEF Comes
  <2>2. CASE BufferOf(c)' = <<>>
    BY <2>2
  <2>3. QED BY <2>1, <2>2
<1>3. QED BY <1>1, <1>2 DEF Comes

\* A step that at most moves frames along, drops those of a connection that
\* serves nobody, and forgets copies.
LEMMA MoveComing ==
    ASSUME ComingInv, UNCHANGED <<csess, cseq, tsess, tseq, got>>,
           \A t \in Tab : tconn'[t] \in {tconn[t], None},
           \A s \in Session : shared'[s] \in {shared[s], NoCopy},
           None \notin Conn,
           \A c \in Conn :
               /\ req'[c].op = "resume" => req'[c] = req[c]
               /\ \A f \in OnTheWay(c)' : f.t = "INVALID_SESSION" \/ f \in OnTheWay(c)
               /\ Serves(c)' /\ (\E t \in Tab : tconn'[t] = c) =>
                     /\ Serves(c) /\ OnTheWay(c)' = OnTheWay(c)
                     /\ BufferOf(c)' \in {BufferOf(c), <<>>}
    PROVE  ComingInv'
<1>1. Coming'
  <2> SUFFICES ASSUME NEW t \in Tab, NEW c \in Conn, tconn'[t] = c, Serves(c)'
               PROVE  \E b \in Nat : Comes(t, c, b)'
    BY DEF Coming
  <2>1. tconn[t] = c /\ Serves(c) /\ OnTheWay(c)' = OnTheWay(c)
        /\ BufferOf(c)' \in {BufferOf(c), <<>>}
    OBVIOUS
  <2>2. PICK b \in Nat : Comes(t, c, b)
    BY <2>1 DEF ComingInv, Coming
  <2>3. Comes(t, c, b)'
    BY <2>1, <2>2, ComesOn
  <2>4. QED BY <2>3
<1>2. Asking'
  <2> SUFFICES ASSUME NEW t \in Tab, NEW c \in Conn, tconn'[t] = c, req'[c].op = "resume"
               PROVE  Asked(t, c)'
    BY DEF Asking
  <2>1. tconn[t] = c /\ req'[c] = req[c] /\ Asked(t, c)
    BY DEF ComingInv, Asking
  <2>2. QED BY <2>1 DEF Asked
<1>3. Emptied'
  BY DEF ComingInv, Emptied, NoCopy
<1>4. QED BY <1>1, <1>2, <1>3 DEF ComingInv

\* What is under way on a connection, as a union of queues.
LEMMA WayOf ==
    \A c \in Conn : OnTheWay(c) = ToSet(wire[c]) \cup ToSet(tasks[c]) \cup ToSet(replayq[c])
BY DEF OnTheWay, ToSet

\* A frame that enters a queue, and one that leaves it.
LEMMA Queued ==
    ASSUME NEW q \in Seq(Frame)
    PROVE  /\ \A f \in Frame : ToSet(Append(q, f)) = ToSet(q) \cup {f}
           /\ q # <<>> => /\ ToSet(q) = {Head(q)} \cup ToSet(Tail(q))
                          /\ Tail(q) \in Seq(Frame) /\ Head(q) \in Frame
           /\ ToSet(<<>>) = {}
<1>1. ASSUME NEW f \in Frame PROVE ToSet(Append(q, f)) = ToSet(q) \cup {f}
  <2>1. /\ DOMAIN Append(q, f) = 1 .. Len(q) + 1 /\ DOMAIN q = 1 .. Len(q) /\ Len(q) \in Nat
        /\ \A i \in 1 .. Len(q) : Append(q, f)[i] = q[i]
        /\ Append(q, f)[Len(q) + 1] = f
    OBVIOUS
  <2>2. \A x : x \in ToSet(Append(q, f)) <=> x \in ToSet(q) \cup {f}
    BY <2>1 DEF ToSet
  <2>3. QED BY <2>2
<1>2. ASSUME q # <<>>
      PROVE  /\ ToSet(q) = {Head(q)} \cup ToSet(Tail(q))
             /\ Tail(q) \in Seq(Frame) /\ Head(q) \in Frame
  <2>1. /\ DOMAIN Tail(q) = 1 .. Len(q) - 1 /\ DOMAIN q = 1 .. Len(q) /\ Len(q) \in Nat \ {0}
        /\ \A i \in 1 .. Len(q) - 1 : Tail(q)[i] = q[i + 1]
        /\ Head(q) = q[1] /\ Tail(q) \in Seq(Frame) /\ q[1] \in Frame
    BY <1>2
  <2>2. \A x : x \in ToSet(q) => x = Head(q) \/ x \in ToSet(Tail(q))
    <3> SUFFICES ASSUME NEW i \in 1 .. Len(q), i # 1 PROVE q[i] \in ToSet(Tail(q))
      BY <2>1 DEF ToSet
    <3>1. i - 1 \in 1 .. Len(q) - 1 /\ Tail(q)[i - 1] = q[i]
      BY <2>1
    <3>2. QED BY <2>1, <3>1 DEF ToSet
  <2>3. \A x : x = Head(q) \/ x \in ToSet(Tail(q)) => x \in ToSet(q)
    BY <2>1 DEF ToSet
  <2>4. QED BY <2>1, <2>2, <2>3
<1>3. ToSet(<<>>) = {}
  BY DEF ToSet
<1>4. QED BY <1>1, <1>2, <1>3

\* The copy a handler finds of a session being served has its buffer, or
\* nothing.
LEMMA FoundBuffer ==
    ASSUME TypeInv, Known, NumberInv, Emptied, NEW w \in Worker, NEW d \in Conn, Serves(d)
    PROVE  GetSession(w, csess[d]).replay \in {BufferOf(d), <<>>}
<1>1. Builds(d) /\ home[d] = w /\ csess[d] \in Session
  BY BuilderHome DEF Serves, Builds, NumberInv, OneWorker
<1>2. PICK s \in Session : s = csess[d]
  BY <1>1
<1>3. /\ GetSession(w, s).held => sessions[w][s].held
      /\ ~ GetSession(w, s).held => ~ sessions[w][s].held /\ ~ shared[s].held
  BY <1>1, <1>2, FoundCopy
<1>4. CASE sessions[w][s].held
  BY <1>1, <1>2, <1>4 DEF GetSession, BufferOf
<1>5. CASE ~ sessions[w][s].held
  <2>1. GetSession(w, s) = Hydrated(s) /\ ~ shared[s].held
    BY <1>3, <1>5 DEF GetSession
  <2>2. Hydrated(s).replay = shared[s].replay
    BY DEF Hydrated, TypeInv, TypeOK, SessionTypeOK, SessionCopy
  <2>3. QED BY <1>2, <2>1, <2>2 DEF Emptied
<1>6. QED BY <1>4, <1>5

\* The steps of a connection that touch no copy.
LEMMA QuietComingSteps ==
    ASSUME SessionManagerAssumption, TypeInv, Heard, ComingInv, NEW c \in Conn,
           \/ ReceiveRequest(c) \/ IdentifyRefused(c) \/ PresenceOnline(c) \/ LoopExit(c)
           \/ HeartbeatOnClosing(c) \/ HeartbeatClose(c) \/ HeartbeatClosed(c)
           \/ NoticeLoss(c) \/ WindowReset(c) \/ Finally(c)
    PROVE  ComingInv'
<1>0. TypeOK /\ SessionTypeOK /\ None \notin Conn
  <2>1. TypeOK /\ SessionTypeOK
    BY DEF TypeInv, TypeOK
  <2>2. None \notin Conn
    BY DEF None, Conn
  <2>3. QED BY <2>1, <2>2
<1>1. /\ UNCHANGED <<home, csess, cseq, tsess, tseq, got, tconn, sessions, shared, wire>>
      /\ \A d \in Conn : req'[d].op = "resume" => req'[d] = req[d]
      /\ \A d \in Conn : (sock'[d] = "open" => sock[d] = "open")
                         /\ (state'[d] = "ready" => state[d] = "ready")
                         /\ (pc'[d] # "resumed" => pc[d] # "resumed")
      /\ \A d \in Conn : \/ tasks'[d] = tasks[d] /\ replayq'[d] = replayq[d]
                         \/ tasks'[d] = <<>> /\ replayq'[d] = <<>> /\ sock'[d] = "closed"
  <2> USE DEF TypeOK, SessionTypeOK, sessionVars, connectionVars,
              managerVars, valkeyVars, loopVars, socketVars, sendVars, clientVars, eventVars
  <2>1. CASE ReceiveRequest(c) \/ PresenceOnline(c)
    BY <1>0, <2>1 DEF ReceiveRequest, PresenceOnline
  <2>2. CASE IdentifyRefused(c)
    BY <1>0, <2>2 DEF IdentifyRefused, CloseAndExit, NoRequest
  <2>3. CASE LoopExit(c) \/ HeartbeatOnClosing(c)
    BY <1>0, <2>3 DEF LoopExit, HeartbeatOnClosing
  <2>4. CASE HeartbeatClose(c) \/ HeartbeatClosed(c)
    BY <1>0, <2>4 DEF HeartbeatClose, HeartbeatClosed
  <2>5. CASE NoticeLoss(c) \/ WindowReset(c)
    BY <1>0, <2>5 DEF NoticeLoss, WindowReset
  <2>6. CASE Finally(c)
    BY <1>0, <2>6 DEF Finally, RemoveConnection
  <2>7. QED BY <2>1, <2>2, <2>3, <2>4, <2>5, <2>6
<1>2. ASSUME NEW d \in Conn
      PROVE  /\ \A f \in OnTheWay(d)' : f.t = "INVALID_SESSION" \/ f \in OnTheWay(d)
             /\ Serves(d)' => /\ Serves(d) /\ OnTheWay(d)' = OnTheWay(d)
                              /\ BufferOf(d)' \in {BufferOf(d), <<>>}
  <2>1. CASE tasks'[d] = tasks[d] /\ replayq'[d] = replayq[d]
    BY <1>1, <2>1 DEF OnTheWay, Serves, BufferOf
  <2>2. CASE tasks'[d] = <<>> /\ replayq'[d] = <<>> /\ sock'[d] = "closed"
    BY <1>1, <2>2 DEF OnTheWay, Serves
  <2>3. QED BY <1>1, <2>1, <2>2
<1>3. \A t \in Tab : tconn'[t] \in {tconn[t], None}
  BY <1>1
<1>4. QED BY <1>0, <1>1, <1>2, <1>3, MoveComing

\* A tab leaves a connection, which then has no tab.
LEMMA LeaveComing ==
    ASSUME SessionManagerAssumption, TypeInv, Heard, ComingInv,
           NEW t \in Tab, NEW how \in {"lost", "closed"}, Leave(t, how)
    PROVE  ComingInv'
<1>0. TypeOK /\ SessionTypeOK /\ None \notin Conn
  <2>1. TypeOK /\ SessionTypeOK
    BY DEF TypeInv, TypeOK
  <2>2. None \notin Conn
    BY DEF None, Conn
  <2>3. QED BY <2>1, <2>2
<1>1. PICK c \in Conn : c = tconn[t]
  BY <1>0 DEF Leave, TypeOK
<1>2. /\ UNCHANGED <<home, csess, cseq, tsess, tseq, got, sessions, shared, tasks, replayq,
                     req, state, pc>>
      /\ wire' = [wire EXCEPT ![c] = <<>>]
      /\ sock' = [sock EXCEPT ![c] = IF @ = "open" THEN how ELSE @]
      /\ tconn' = [tconn EXCEPT ![t] = None]
  BY <1>1 DEF Leave, sessionVars, connectionVars, managerVars, valkeyVars, loopVars, sendVars, eventVars
<1>3. \A u \in Tab : tconn'[u] \in {tconn[u], None} /\ tconn'[u] # c
  BY <1>0, <1>1, <1>2 DEF Heard, OneTab, TypeOK
<1>4. ASSUME NEW d \in Conn
      PROVE  /\ \A f \in OnTheWay(d)' : f.t = "INVALID_SESSION" \/ f \in OnTheWay(d)
             /\ Serves(d)' /\ d # c => /\ Serves(d) /\ OnTheWay(d)' = OnTheWay(d)
                                       /\ BufferOf(d)' \in {BufferOf(d), <<>>}
  <2>1. CASE d = c
    BY <1>0, <1>2, <2>1 DEF OnTheWay, TypeOK
  <2>2. CASE d # c
    BY <1>0, <1>2, <2>2 DEF OnTheWay, TypeOK, Serves, BufferOf
  <2>3. QED BY <2>1, <2>2
<1>5. QED BY <1>0, <1>2, <1>3, <1>4, MoveComing

\* A frame goes from the head of a queue to the wire, which takes it on any
\* connection that serves its tab.
LEMMA SendComing ==
    ASSUME SessionManagerAssumption, TypeInv, Heard, ComingInv,
           NEW c \in Conn, TaskSend(c) \/ ReplaySend(c)
    PROVE  ComingInv'
<1>0. TypeOK /\ SessionTypeOK /\ None \notin Conn /\ wire[c] \in Seq(Frame)
      /\ tasks[c] \in Seq(Frame) /\ replayq[c] \in Seq(Frame)
  <2>1. TypeOK /\ SessionTypeOK
    BY DEF TypeInv, TypeOK
  <2>2. wire[c] \in Seq(Frame) /\ tasks[c] \in Seq(Frame) /\ replayq[c] \in Seq(Frame)
    BY <2>1, NumberedFrames DEF TypeOK
  <2>3. None \notin Conn
    BY DEF None, Conn
  <2>4. QED BY <2>1, <2>2, <2>3
<1>1. /\ UNCHANGED <<home, csess, cseq, tsess, tseq, got, tconn, sessions, shared, req,
                     sock, state>>
      /\ \A d \in Conn : pc'[d] # "resumed" => pc[d] # "resumed"
      /\ \A d \in Conn : d # c => wire'[d] = wire[d] /\ tasks'[d] = tasks[d]
                                                     /\ replayq'[d] = replayq[d]
  BY <1>0 DEF TaskSend, ReplaySend, Written, NextRead, TypeOK, sessionVars, connectionVars, managerVars,
              valkeyVars, loopVars, clientVars, eventVars
<1>2. PICK f \in Frame :
          /\ wire' = Written(c, f)
          /\ OnTheWay(c) = ToSet(wire[c]) \cup {f} \cup ToSet(tasks'[c]) \cup ToSet(replayq'[c])
  <2>1. CASE TaskSend(c)
    <3>1. tasks[c] # <<>> /\ tasks'[c] = Tail(tasks[c]) /\ replayq'[c] = replayq[c]
          /\ wire' = Written(c, Head(tasks[c]))
      BY <1>0, <2>1 DEF TaskSend, TypeOK
    <3>2. Head(tasks[c]) \in Frame
          /\ ToSet(tasks[c]) = {Head(tasks[c])} \cup ToSet(Tail(tasks[c]))
      BY <1>0, <3>1, Queued
    <3>3. QED BY <3>1, <3>2, WayOf
  <2>2. CASE ReplaySend(c)
    <3>1. replayq[c] # <<>> /\ replayq'[c] = Tail(replayq[c]) /\ tasks'[c] = tasks[c]
          /\ wire' = Written(c, Head(replayq[c]))
      BY <1>0, <2>2 DEF ReplaySend, TypeOK, TypeInv, HandshakeOrder, InOrder, Handled
    <3>2. Head(replayq[c]) \in Frame
          /\ ToSet(replayq[c]) = {Head(replayq[c])} \cup ToSet(Tail(replayq[c]))
      BY <1>0, <3>1, Queued
    <3>3. QED BY <3>1, <3>2, WayOf
  <2>3. QED BY <2>1, <2>2
<1>3. OnTheWay(c)' = ToSet(wire'[c]) \cup ToSet(tasks'[c]) \cup ToSet(replayq'[c])
  BY DEF OnTheWay, ToSet
<1>4. ToSet(wire'[c]) = ToSet(wire[c]) \cup {f}
      \/ (ToSet(wire'[c]) = ToSet(wire[c]) /\ ~ Serves(c)')
  <2>1. CASE ~ Closing(c) /\ sock[c] = "open"
    <3>1. wire'[c] = Append(wire[c], f)
      BY <1>0, <1>2, <2>1 DEF Written, TypeOK
    <3>2. QED BY <1>0, <3>1, Queued
  <2>2. CASE ~ (~ Closing(c) /\ sock[c] = "open")
    <3>1. wire'[c] = wire[c] /\ ~ Serves(c)'
      BY <1>1, <1>2, <2>2 DEF Written, Closing, Serves
    <3>2. QED BY <3>1
  <2>3. QED BY <2>1, <2>2
<1>5. ASSUME NEW d \in Conn
      PROVE  /\ \A g \in OnTheWay(d)' : g.t = "INVALID_SESSION" \/ g \in OnTheWay(d)
             /\ Serves(d)' => /\ Serves(d) /\ OnTheWay(d)' = OnTheWay(d)
                              /\ BufferOf(d)' \in {BufferOf(d), <<>>}
  <2>1. CASE d = c
    <3>1. \A g \in OnTheWay(c)' : g \in OnTheWay(c)
      BY <1>2, <1>3, <1>4
    <3>2. Serves(c)' => OnTheWay(c)' = OnTheWay(c)
      BY <1>2, <1>3, <1>4
    <3>3. QED BY <1>1, <2>1, <3>1, <3>2 DEF Serves, BufferOf
  <2>2. CASE d # c
    BY <1>1, <2>2 DEF OnTheWay, Serves, BufferOf
  <2>3. QED BY <2>1, <2>2
<1>6. QED BY <1>0, <1>1, <1>5, MoveComing

\* A refusal is written on a connection that serves nobody yet, and leaves
\* the buffers in use as they are.
LEMMA RefuseComing ==
    ASSUME SessionManagerAssumption, TypeInv, Known, NumberInv, Heard, ComingInv,
           NEW c \in Conn, ResumeUnauthorized(c) \/ ResumeRejected(c)
    PROVE  ComingInv'
<1>0. TypeOK /\ SessionTypeOK /\ None \notin Conn /\ wire[c] \in Seq(Frame)
  <2>1. TypeOK /\ SessionTypeOK /\ wire[c] \in Seq(Frame)
    BY DEF TypeInv, TypeOK
  <2>2. QED BY <2>1 DEF None, Conn
<1>1. Refuse(c) /\ pc[c] = "resume"
  BY DEF ResumeUnauthorized, ResumeRejected
<1>2. /\ UNCHANGED <<home, csess, cseq, tsess, tseq, got, tconn, sock, state, tasks, replayq>>
      /\ req' = [req EXCEPT ![c] = NoRequest] /\ pc' = [pc EXCEPT ![c] = NextRead(c)]
      /\ wire' = Written(c, InvalidSession)
  BY <1>1 DEF Refuse, connectionVars, sendVars, clientVars, eventVars
<1>3. home[c] \in Worker /\ req[c].sess \in Session /\ req[c].op = "resume" /\ state[c] # "ready"
  <2>1. req[c].op = "resume" /\ home[c] \in Worker /\ csess[c] = None /\ state[c] # "ready"
    BY <1>1 DEF TypeInv, HandshakeOrder, InOrder, Handled, Identified
  <2>2. QED BY <1>0, <2>1 DEF TypeOK, Request
<1>4. /\ \A s \in Session : shared'[s] \in {shared[s], NoCopy}
      /\ \A w \in Worker, s \in Session :
            sessions'[w][s] \in {sessions[w][s], NoCopy, GetSession(w, s)}
  <2>1. CASE ResumeUnauthorized(c)
    BY <2>1 DEF ResumeUnauthorized
  <2>2. CASE ResumeRejected(c)
    BY <1>0, <1>3, <2>2 DEF ResumeRejected, RefuseSession, SessionTypeOK
  <2>3. QED BY <2>1, <2>2
<1>5. ASSUME NEW d \in Conn
      PROVE  /\ \A f \in OnTheWay(d)' : f.t = "INVALID_SESSION" \/ f \in OnTheWay(d)
             /\ Serves(d)' => Serves(d) /\ OnTheWay(d)' = OnTheWay(d)
  <2>1. CASE d = c
    <3>1. wire'[c] \in {wire[c], Append(wire[c], InvalidSession)} /\ InvalidSession \in Frame
          /\ InvalidSession.t = "INVALID_SESSION"
      BY <1>0, <1>2 DEF Written, TypeOK, InvalidSession, Frame
    <3>2. ToSet(Append(wire[c], InvalidSession)) = ToSet(wire[c]) \cup {InvalidSession}
      BY <1>0, <3>1, Queued
    <3>3. OnTheWay(c)' = ToSet(wire'[c]) \cup ToSet(tasks[c]) \cup ToSet(replayq[c])
      BY <1>2 DEF OnTheWay, ToSet
    <3>4. ~ Serves(c)'
      BY <1>2, <1>3 DEF Serves
    <3>5. QED BY <2>1, <3>1, <3>2, <3>3, <3>4, WayOf
  <2>2. CASE d # c
    BY <1>0, <1>2, <2>2 DEF Written, OnTheWay, Serves, TypeOK
  <2>3. QED BY <2>1, <2>2
<1>6. ASSUME NEW d \in Conn, Serves(d) PROVE BufferOf(d)' \in {BufferOf(d), <<>>}
  <2>1. Builds(d) /\ home[d] \in Worker /\ csess[d] \in Session
    BY <1>6, BuilderHome DEF Serves, Builds
  <2>2. sessions'[home[d]][csess[d]]
            \in {sessions[home[d]][csess[d]], NoCopy, GetSession(home[d], csess[d])}
    BY <1>4, <2>1
  <2>3. GetSession(home[d], csess[d]).replay \in {BufferOf(d), <<>>}
    BY <1>6, <2>1, FoundBuffer DEF ComingInv
  <2>4. NoCopy.replay = <<>>
    BY DEF NoCopy
  <2>5. BufferOf(d)' = sessions'[home[d]][csess[d]].replay
    BY <1>2 DEF BufferOf
  <2>6. QED BY <2>2, <2>3, <2>4, <2>5 DEF BufferOf
<1>7. \A d \in Conn : req'[d].op = "resume" => req'[d] = req[d]
  BY <1>0, <1>2 DEF NoRequest, TypeOK
<1>8. \A t \in Tab : tconn'[t] \in {tconn[t], None}
  BY <1>2
<1>9. QED BY <1>0, <1>2, <1>4, <1>5, <1>6, <1>7, <1>8, MoveComing

\* An expiry leaves the frames of a copy, or takes the copy from Valkey.
LEMMA ExpireComing ==
    ASSUME TypeInv, Known, NumberInv, ComingInv, Expire
    PROVE  ComingInv'
<1>0. TypeOK /\ SessionTypeOK /\ None \notin Conn
  <2>1. TypeOK /\ SessionTypeOK
    BY DEF TypeInv, TypeOK
  <2>2. QED BY <2>1 DEF None, Conn
<1>1. UNCHANGED <<home, csess, cseq, state, tsess, tseq, got, tconn, wire, tasks, replayq, req,
                  sock, pc>>
  BY DEF Expire, CopyExpires, SharedExpires, InfoExpires, MembersExpire, connectionVars, loopVars, socketVars, sendVars, clientVars
<1>2. /\ \A w \in Worker, s \in Session : sessions'[w][s].replay = sessions[w][s].replay
      /\ \A s \in Session : shared'[s] \in {shared[s], NoCopy}
  BY <1>0, ExpireEffect
<1>3. ASSUME NEW d \in Conn
      PROVE  /\ \A f \in OnTheWay(d)' : f.t = "INVALID_SESSION" \/ f \in OnTheWay(d)
             /\ Serves(d)' => Serves(d) /\ OnTheWay(d)' = OnTheWay(d)
                              /\ BufferOf(d)' \in {BufferOf(d), <<>>}
  <2>1. OnTheWay(d)' = OnTheWay(d) /\ Serves(d)' = Serves(d)
    BY <1>1 DEF OnTheWay, Serves
  <2>2. Serves(d) => home[d] \in Worker /\ csess[d] \in Session
    BY BuilderHome DEF Serves, Builds
  <2>3. QED BY <1>1, <1>2, <2>1, <2>2 DEF BufferOf
<1>4. QED BY <1>0, <1>1, <1>2, <1>3, MoveComing

\* A worker that dies leaves no ready connection.
LEMMA CrashComing ==
    ASSUME TypeInv, Known, NumberInv, ComingInv, NEW w \in Worker, Crash(w)
    PROVE  ComingInv'
<1>0. TypeOK /\ SessionTypeOK /\ None \notin Conn
  <2>1. TypeOK /\ SessionTypeOK
    BY DEF TypeInv, TypeOK
  <2>2. QED BY <2>1 DEF None, Conn
<1>1. /\ UNCHANGED <<csess, cseq, tsess, tseq, got, tconn, wire, shared>>
      /\ \A d \in Conn : /\ req'[d] \in {req[d], NoRequest}
                         /\ tasks'[d] \in {tasks[d], <<>>} /\ replayq'[d] \in {replayq[d], <<>>}
                         /\ state'[d] = IF home[d] = w THEN "disconnected" ELSE state[d]
  BY <1>0 DEF Crash, LoseWorker, valkeyVars, clientVars
<1>2. ASSUME NEW d \in Conn
      PROVE  /\ \A f \in OnTheWay(d)' : f.t = "INVALID_SESSION" \/ f \in OnTheWay(d)
             /\ ~ Serves(d)'
  <2>1. \A f \in OnTheWay(d)' : f \in OnTheWay(d)
    BY <1>1 DEF OnTheWay
  <2>2. state[d] = "ready" => home[d] = w
    BY BuilderHome DEF Builds, NumberInv, OneWorker
  <2>3. QED BY <1>1, <2>1, <2>2 DEF Serves
<1>3. \A d \in Conn : req'[d].op = "resume" => req'[d] = req[d]
  BY <1>1 DEF NoRequest
<1>4. QED BY <1>0, <1>1, <1>2, <1>3, MoveComing

\* A new connection asks from the number its tab is at; nothing is under way
\* on it.
LEMMA ConnectComing ==
    ASSUME SessionManagerAssumption, TypeInv, Heard, ComingInv,
           NEW t \in Tab, NEW c \in Conn, NEW w \in Worker, Connect(t, c, w)
    PROVE  ComingInv'
<1>0. TypeOK /\ SessionTypeOK /\ csess[c] = None /\ pc[c] = "none" /\ None \notin Conn
  <2>1. TypeOK /\ SessionTypeOK /\ pc[c] = "none"
    BY DEF TypeInv, TypeOK, Connect
  <2>2. csess[c] = None
    BY <2>1 DEF TypeInv, HandshakeOrder, InOrder, Identified
  <2>3. QED BY <2>1, <2>2 DEF None, Conn
<1>1. /\ UNCHANGED <<csess, cseq, sessions, shared, tsess, tseq, got, wire, tasks, replayq>>
      /\ tconn' = [tconn EXCEPT ![t] = c]
      /\ state'[c] = "connected"
      /\ req'[c] = IF tsess[t] # None THEN Resume(UserOf[t], tsess[t], tseq[t])
                                      ELSE Identify(UserOf[t])
      /\ \A d \in Conn : d # c => /\ req'[d] = req[d] /\ state'[d] = state[d] /\ pc'[d] = pc[d]
                                  /\ sock'[d] = sock[d] /\ home'[d] = home[d]
  BY <1>0 DEF Connect, AddConnection, TypeOK, SessionTypeOK, valkeyVars, sendVars, eventVars
<1>2. \A f \in OnTheWay(c) : f.t = "INVALID_SESSION"
  <2>1. \A q \in Seq(Frame) : AllGiven(numbered, None, q) =>
            \A f \in ToSet(q) : f.t = "INVALID_SESSION"
    <3> SUFFICES ASSUME NEW q \in Seq(Frame), AllGiven(numbered, None, q), NEW i \in DOMAIN q
                 PROVE  q[i].t = "INVALID_SESSION"
      BY DEF ToSet
    <3>1. q[i] \in Frame
      OBVIOUS
    <3>2. QED BY <3>1 DEF AllGiven, Frame
  <2>2. /\ wire[c] \in Seq(Frame) /\ tasks[c] \in Seq(Frame) /\ replayq[c] \in Seq(Frame)
    BY <1>0, NumberedFrames DEF TypeOK
  <2>3. /\ AllGiven(numbered, None, wire[c]) /\ AllGiven(numbered, None, tasks[c])
        /\ AllGiven(numbered, None, replayq[c])
    BY <1>0 DEF Heard, FramesGiven
  <2>4. QED BY <2>1, <2>2, <2>3, WayOf
<1>3. \A u \in Tab, d \in Conn : tconn'[u] = d => IF d = c THEN u = t ELSE tconn[u] = d
  BY <1>0, <1>1 DEF Heard, OneTab, TypeOK
<1>4. Coming'
  <2> SUFFICES ASSUME NEW u \in Tab, NEW d \in Conn, tconn'[u] = d, Serves(d)'
               PROVE  \E b \in Nat : Comes(u, d, b)'
    BY DEF Coming
  <2>1. d # c
    BY <1>1 DEF Serves
  <2>2. tconn[u] = d /\ Serves(d)
    BY <1>1, <1>3, <2>1 DEF Serves
  <2>3. PICK b \in Nat : Comes(u, d, b)
    BY <2>2 DEF ComingInv, Coming
  <2>4. OnTheWay(d)' = OnTheWay(d) /\ BufferOf(d)' = BufferOf(d)
    BY <1>1, <2>1 DEF OnTheWay, BufferOf
  <2>5. Comes(u, d, b)'
    BY <1>1, <2>3, <2>4, ComesOn
  <2>6. QED BY <2>5
<1>5. Asking'
  <2> SUFFICES ASSUME NEW u \in Tab, NEW d \in Conn, tconn'[u] = d, req'[d].op = "resume"
               PROVE  Asked(u, d)'
    BY DEF Asking
  <2>1. CASE d = c
    <3>1. u = t /\ tsess[t] # None
      BY <1>1, <1>3, <2>1 DEF Identify
    <3>2. req'[c].seq = tseq[t] /\ tseq[t] \in Nat
      BY <1>0, <1>1, <3>1 DEF Resume, TypeOK
    <3>3. OnTheWay(c)' = OnTheWay(c)
      BY <1>1 DEF OnTheWay
    <3>4. QED BY <1>0, <1>1, <1>2, <2>1, <3>1, <3>2, <3>3 DEF Asked
  <2>2. CASE d # c
    <3>1. Asked(u, d)
      BY <1>1, <1>3, <2>2 DEF ComingInv, Asking
    <3>2. OnTheWay(d)' = OnTheWay(d)
      BY <1>1 DEF OnTheWay
    <3>3. QED BY <1>1, <2>2, <3>1, <3>2 DEF Asked
  <2>3. QED BY <2>1, <2>2
<1>6. Emptied'
  BY <1>1 DEF ComingInv, Emptied
<1>7. QED BY <1>4, <1>5, <1>6 DEF ComingInv

\* What a tab takes off its socket is at or beyond the number it counts from.
LEMMA ReceiveComing ==
    ASSUME SessionManagerAssumption, TypeInv, Heard, ComingInv, NEW t \in Tab, Receive(t)
    PROVE  ComingInv'
<1>0. TypeOK /\ SessionTypeOK
  BY DEF TypeInv, TypeOK
<1>1. PICK c \in Conn : c = tconn[t] /\ wire[c] # <<>>
  BY <1>0 DEF Receive, TypeOK
<1>2. PICK f \in Frame :
          /\ f = Head(wire[c])
          /\ ToSet(wire[c]) = {f} \cup ToSet(Tail(wire[c]))
          /\ 1 \in DOMAIN wire[c] /\ wire[c][1] = f
  <2>1. wire[c] \in Seq(Frame)
    BY <1>0 DEF TypeOK
  <2>2. QED BY <1>1, <2>1, Queued
<1>3. /\ UNCHANGED <<home, csess, cseq, sessions, shared, tasks, replayq, tconn, pc, state, sock>>
      /\ wire' = [wire EXCEPT ![c] = Tail(@)]
      /\ tseq' = [tseq EXCEPT ![t] = IF f.s # 0 THEN f.s ELSE @]
      /\ tsess' = [tsess EXCEPT ![t] = IF f.t = "READY" THEN f.sess
                                       ELSE IF f.t = "INVALID_SESSION" THEN None
                                       ELSE @]
      /\ req' = [req EXCEPT ![c] = IF f.t = "INVALID_SESSION" THEN Identify(UserOf[t]) ELSE @]
      /\ got' = [got EXCEPT ![t] = IF f.t = "EVENT" THEN @ \cup {f.e} ELSE @]
  BY <1>1, <1>2 DEF Receive, sessionVars, connectionVars, managerVars, valkeyVars, loopVars, sendVars,
     eventVars
<1>4. /\ OnTheWay(c) = OnTheWay(c)' \cup {f}
      /\ \A d \in Conn : d # c => OnTheWay(d)' = OnTheWay(d)
  <2>1. OnTheWay(c)' = ToSet(Tail(wire[c])) \cup ToSet(tasks[c]) \cup ToSet(replayq[c])
    BY <1>0, <1>3 DEF OnTheWay, ToSet, TypeOK
  <2>2. \A d \in Conn : d # c => OnTheWay(d)' = OnTheWay(d)
    BY <1>0, <1>3 DEF OnTheWay, TypeOK
  <2>3. QED BY <1>2, <2>1, <2>2, WayOf
<1>5. /\ f.t # "INVALID_SESSION" => f.s # 0
      /\ f.t = "INVALID_SESSION" => csess[c] = None
  <2>1. f.t # "INVALID_SESSION" => Given(numbered, csess[c], f.s)
    BY <1>2 DEF Heard, FramesGiven, AllGiven
  <2>2. f.t = "INVALID_SESSION" => Refusals(c) # {}
    BY <1>2 DEF Refusals
  <2>3. QED BY <2>1, <2>2 DEF Heard, NumbersStartAtOne, Given, TypeInv, HandshakeOrder, InOrder, RefusedOnce
<1>6. /\ f.t # "INVALID_SESSION" => tseq'[t] = f.s /\ req'[c] = req[c]
      /\ f.t = "INVALID_SESSION" => req'[c].op = "identify"
      /\ got'[t] = IF f.e # None THEN got[t] \cup {f.e} ELSE got[t]
  BY <1>0, <1>3, <1>5 DEF TypeOK, Identify, Frame
<1>7. /\ \A u \in Tab : u # t => /\ tsess'[u] = tsess[u] /\ tseq'[u] = tseq[u]
                                 /\ got'[u] = got[u] /\ tconn[u] # c
      /\ \A d \in Conn : d # c => req'[d] = req[d]
  <2>1. \A u \in Tab : u # t => tsess'[u] = tsess[u] /\ tseq'[u] = tseq[u] /\ got'[u] = got[u]
    BY <1>0, <1>3 DEF TypeOK
  <2>2. \A u \in Tab : u # t => tconn[u] # c
    <3>1. c # None
      BY DEF None, Conn
    <3>2. QED BY <1>1, <3>1 DEF Heard, OneTab
  <2>3. \A d \in Conn : d # c => req'[d] = req[d]
    BY <1>0, <1>3 DEF TypeOK
  <2>4. QED BY <2>1, <2>2, <2>3
<1>8. Coming'
  <2> SUFFICES ASSUME NEW u \in Tab, NEW d \in Conn, tconn[u] = d, Serves(d)
               PROVE  \E b \in Nat : Comes(u, d, b)'
    BY <1>3 DEF Coming, Serves
  <2>1. PICK b \in Nat : Comes(u, d, b)
    BY DEF ComingInv, Coming
  <2>2. BufferOf(d)' = BufferOf(d)
    BY <1>3 DEF BufferOf
  <2>3. CASE u # t
    <3>1. d # c
      BY <1>7, <2>3
    <3>2. Comes(u, d, b)'
      BY <1>3, <1>4, <1>7, <2>1, <2>2, <2>3, <3>1, ComesOn
    <3>3. QED BY <3>2
  <2>4. CASE u = t
    <3>1. d = c /\ csess[c] # None
      BY <1>1, <2>4 DEF Serves, TypeInv, HandshakeOrder, InOrder, Identified
    <3>2. f.t # "INVALID_SESSION" /\ tseq'[t] = f.s /\ b <= f.s
      BY <1>4, <1>5, <1>6, <2>1, <3>1 DEF Comes
    <3>3. /\ (b <= cseq[c])' /\ (tsess[t] # None => b <= tseq[t])'
          /\ \A g \in OnTheWay(c)' : b <= g.s
      BY <1>3, <1>4, <2>1, <3>1, <3>2 DEF Comes
    <3>4. (\A i \in DOMAIN BufferOf(c) :
              BufferOf(c)[i].s > b /\ BufferOf(c)[i].e # None =>
                  BufferOf(c)[i].e \in got[t] \/ BufferOf(c)[i] \in OnTheWay(c))'
      BY <1>4, <1>6, <2>1, <2>2, <2>4, <3>1 DEF Comes
    <3>5. Comes(t, c, b)'
      BY <3>3, <3>4 DEF Comes
    <3>6. QED BY <2>4, <3>1, <3>5
  <2>5. QED BY <2>3, <2>4
<1>9. Asking'
  <2> SUFFICES ASSUME NEW u \in Tab, NEW d \in Conn, tconn[u] = d, req'[d].op = "resume"
               PROVE  Asked(u, d)'
    BY <1>3 DEF Asking
  <2>1. req'[d] = req[d] /\ Asked(u, d)
    <3>1. req'[d] = req[d]
      BY <1>6, <1>7
    <3>2. QED BY <3>1 DEF ComingInv, Asking
  <2>2. CASE u # t
    <3>1. OnTheWay(d)' = OnTheWay(d)
      BY <1>4, <1>7, <2>2
    <3>2. QED BY <1>3, <1>7, <2>1, <2>2, <3>1 DEF Asked
  <2>3. CASE u = t
    <3>1. d = c /\ f.t # "INVALID_SESSION" /\ req[c].seq <= f.s
      BY <1>1, <1>4, <1>6, <2>1, <2>3 DEF Asked
    <3>2. tseq'[t] = f.s
      BY <1>6, <3>1
    <3>3. QED BY <1>3, <1>4, <2>1, <2>3, <3>1, <3>2 DEF Asked
  <2>4. QED BY <2>2, <2>3
<1>10. Emptied'
  BY <1>3 DEF ComingInv, Emptied
<1>11. QED BY <1>8, <1>9, <1>10 DEF ComingInv

\* A new session has no frames yet, so its connection can count from nothing.
LEMMA IdentifyComing ==
    ASSUME SessionManagerAssumption, TypeInv, Known, Heard, ComingInv,
           NEW c \in Conn, IdentifyVerified(c)
    PROVE  ComingInv'
<1> DEFINE w == home[c]
           created == [NoCopy EXCEPT !.held = TRUE, !.user = req[c].user, !.conn = c,
                                     !.fresh = TRUE]
<1>0. TypeOK /\ SessionTypeOK
  BY DEF TypeInv, TypeOK
<1>1. pc[c] = "identify" /\ w \in Worker /\ csess[c] = None /\ c \in Session /\ c # None
  BY RequestType DEF IdentifyVerified, TypeInv, HandshakeOrder, InOrder, Handled, Identified, Session
<1>2. /\ sessions' = [sessions EXCEPT ![w][c] = created]
      /\ shared' = [shared EXCEPT ![c] = Persisted(c, created)]
      /\ csess' = [csess EXCEPT ![c] = c]
      /\ state' = [state EXCEPT ![c] = "ready"]
      /\ pc' = [pc EXCEPT ![c] = "presence"]
      /\ req' = [req EXCEPT ![c] = NoRequest]
      /\ UNCHANGED <<home, cseq, tsess, tseq, got, tconn, wire, tasks, replayq, sock>>
  BY DEF IdentifyVerified, CreateSession, sendVars, clientVars
<1>3. created.replay = <<>> /\ (Persisted(c, created).replay = <<>> \/ Persisted(c, created) = shared[c])
  BY DEF NoCopy, Persisted
<1> HIDE DEF created
<1>4. \A d \in Conn : csess[d] # c
  BY <1>1 DEF Known, Created
<1>5. \A d \in Conn : OnTheWay(d)' = OnTheWay(d)
  BY <1>2 DEF OnTheWay
<1>6. Coming'
  <2> SUFFICES ASSUME NEW t \in Tab, NEW d \in Conn, tconn[t] = d, Serves(d)'
               PROVE  \E b \in Nat : Comes(t, d, b)'
    BY <1>2 DEF Coming
  <2>1. CASE d = c
    <3>1. BufferOf(c)' = <<>>
      <4>1. sessions'[w][c] = created /\ csess'[c] = c /\ home' = home
        BY <1>0, <1>1, <1>2 DEF SessionTypeOK
      <4>2. QED BY <1>3, <4>1 DEF BufferOf
    <3>2. (0 <= cseq[c])' /\ (tsess[t] # None => 0 <= tseq[t])'
      BY <1>0, <1>2 DEF TypeOK, SessionTypeOK
    <3>3. \A f \in OnTheWay(c)' : 0 <= f.s
      <4>1. \A f \in Frame : 0 <= f.s
        BY DEF Frame
      <4>2. \A f \in OnTheWay(c) : f \in Frame
        BY <1>0, NumberedFrames DEF OnTheWay, TypeOK
      <4>3. QED BY <1>5, <4>1, <4>2
    <3>4. Comes(t, c, 0)'
      BY <3>1, <3>2, <3>3 DEF Comes
    <3>5. QED BY <2>1, <3>4
  <2>2. CASE d # c
    <3>1. Serves(d) /\ csess'[d] = csess[d]
      BY <1>0, <1>2, <2>2 DEF Serves, TypeOK, SessionTypeOK
    <3>2. home[d] \in Worker /\ csess[d] \in Session /\ csess[d] # c
      BY <1>4, <3>1, BuilderHome DEF Serves, Builds
    <3>3. BufferOf(d)' = BufferOf(d)
      BY <1>0, <1>1, <1>2, <3>1, <3>2 DEF BufferOf, SessionTypeOK
    <3>4. PICK b \in Nat : Comes(t, d, b)
      BY <3>1 DEF ComingInv, Coming
    <3>5. Comes(t, d, b)'
      BY <1>2, <1>5, <3>3, <3>4, ComesOn
    <3>6. QED BY <3>5
  <2>3. QED BY <2>1, <2>2
<1>7. Asking'
  <2> SUFFICES ASSUME NEW t \in Tab, NEW d \in Conn, tconn[t] = d, req'[d].op = "resume"
               PROVE  Asked(t, d)'
    BY <1>2 DEF Asking
  <2>1. d # c /\ req'[d] = req[d] /\ csess'[d] = csess[d]
    BY <1>0, <1>2 DEF NoRequest, TypeOK, SessionTypeOK
  <2>2. Asked(t, d)
    BY <2>1 DEF ComingInv, Asking
  <2>3. QED BY <1>2, <1>5, <2>1, <2>2 DEF Asked
<1>8. Emptied'
  <2>1. \A s \in Session : shared'[s] = shared[s] \/ shared'[s].replay = <<>>
    BY <1>0, <1>2, <1>3 DEF SessionTypeOK
  <2>2. QED BY <2>1 DEF ComingInv, Emptied
<1>9. QED BY <1>6, <1>7, <1>8 DEF ComingInv

\* resume_session: nobody else serves the session any more, and RESUMED
\* carries no number below the one asked for.
LEMMA ResumeComing ==
    ASSUME SessionManagerAssumption, TypeInv, TypeInv', Known, Known', NumberInv, NumberInv',
           Heard, ComingInv, NEW c \in Conn, ResumeAccepted(c)
    PROVE  ComingInv'
<1> DEFINE w == home[c]
           s == req[c].sess
           found == GetSession(w, s)
           n == ResumedSequence(found, req[c].seq)
           resumed == [found EXCEPT !.conn = c, !.sequence = n, !.fresh = TRUE]
           f == [t |-> "RESUMED", s |-> cseq'[c], sess |-> s, e |-> None]
<1>0. TypeOK /\ SessionTypeOK /\ TypeOK' /\ SessionTypeOK'
  BY DEF TypeInv, TypeOK
<1>1. /\ pc[c] = "resume" /\ w \in Worker /\ csess[c] = None /\ s \in Session /\ s # None
      /\ req[c].op = "resume" /\ req[c].seq \in Nat
  <2>1. InOrder(c) /\ pc[c] = "resume" /\ req[c] \in Request
    BY <1>0 DEF ResumeAccepted, TypeInv, HandshakeOrder, TypeOK
  <2>2. req[c].op = "resume" /\ home[c] \in Worker
    BY <2>1 DEF InOrder, Handled
  <2>3. csess[c] = None
    BY <2>1, <2>2 DEF InOrder, Identified
  <2>4. s \in Session /\ s # None /\ req[c].seq \in Nat
    BY <2>1, <2>2 DEF Request
  <2>5. QED BY <2>1, <2>2, <2>3, <2>4
<1>2. UNCHANGED <<home, sock, tsess, tseq, got, tconn, tasks, replayq, req>>
  BY DEF ResumeAccepted, ResumeSession, sendVars, clientVars
<1>3. /\ sessions' = [sessions EXCEPT ![w][s] = resumed]
      /\ shared' = [shared EXCEPT ![s] = Persisted(s, resumed)]
      /\ csess' = [csess EXCEPT ![c] = s]
      /\ cseq' = [cseq EXCEPT ![c] = resumed.sequence]
      /\ pc' = [pc EXCEPT ![c] = "resumed"]
      /\ wire' = IF sock[c] = "open" THEN [wire EXCEPT ![c] = Append(@, f)] ELSE wire
      /\ state' = [d \in Conn |-> IF d = c THEN "ready"
                                  ELSE IF d = found.conn /\ HeldHere(d, w) THEN "disconnected"
                                  ELSE state[d]]
      /\ found.held
  BY DEF ResumeAccepted, ResumeSession, CanResume
<1>4. found \in SessionCopy
  BY <1>0, <1>1, GetSessionType
<1>5. resumed.sequence = n /\ n >= req[c].seq /\ resumed.held
  <2> HIDE DEF found
  <2>1. found.sequence \in Nat
    BY <1>4 DEF SessionCopy
  <2>2. n \in Nat /\ n >= req[c].seq
    BY <1>1, <2>1 DEF ResumedSequence, Larger
  <2> HIDE DEF n
  <2>3. QED BY <1>3, <1>4, <2>2 DEF SessionCopy
<1>6. cseq'[c] = n /\ csess'[c] = s /\ state'[c] = "ready" /\ pc'[c] = "resumed"
      /\ \A d \in Conn : d # c => /\ csess'[d] = csess[d] /\ cseq'[d] = cseq[d]
                                  /\ pc'[d] = pc[d] /\ wire'[d] = wire[d]
                                  /\ (state'[d] = "ready" => state[d] = "ready")
  BY <1>0, <1>3, <1>5 DEF TypeOK, SessionTypeOK
<1>7. Persisted(s, resumed).held \/ Persisted(s, resumed) = shared[s]
  BY <1>5 DEF Persisted
<1>8. OnTheWay(c)' \subseteq OnTheWay(c) \cup {f} /\ f.s = n
  <2>1. f \in Frame
    <3>1. cseq'[c] \in Nat
      BY <1>0 DEF SessionTypeOK
    <3>2. QED BY <1>1, <3>1 DEF Frame
  <2>2. wire[c] \in Seq(Frame) /\ wire'[c] \in {wire[c], Append(wire[c], f)}
    BY <1>0, <1>3 DEF TypeOK
  <2>3. ToSet(Append(wire[c], f)) = ToSet(wire[c]) \cup {f}
    BY <2>1, <2>2, Queued
  <2>4. OnTheWay(c)' = ToSet(wire'[c]) \cup ToSet(tasks[c]) \cup ToSet(replayq[c])
    BY <1>2 DEF OnTheWay, ToSet
  <2>5. f.s = n
    BY <1>6
  <2> HIDE DEF f
  <2>6. QED BY <2>2, <2>3, <2>4, <2>5, WayOf
<1> HIDE DEF found, n, resumed, f
<1>9. Coming'
  <2> SUFFICES ASSUME NEW t \in Tab, NEW d \in Conn, tconn[t] = d, Serves(d)'
               PROVE  \E b \in Nat : Comes(t, d, b)'
    BY <1>2 DEF Coming
  <2>1. d # c /\ Serves(d)
    BY <1>2, <1>6 DEF Serves
  <2>2. csess[d] # s
    <3>1. Builds(c)' /\ Builds(d)'
      BY <1>6 DEF Serves, Builds
    <3>2. csess'[d] # csess'[c]
      BY <2>1, <3>1 DEF NumberInv, Owners
    <3>3. QED BY <1>6, <2>1, <3>2
  <2>3. home[d] \in Worker /\ csess[d] \in Session
    BY <2>1, BuilderHome DEF Serves, Builds
  <2>4. sessions'[home[d]][csess[d]] = sessions[home[d]][csess[d]]
    BY <1>0, <1>3, <2>2, <2>3 DEF SessionTypeOK
  <2>5. BufferOf(d)' = BufferOf(d) /\ OnTheWay(d)' = OnTheWay(d)
    BY <1>2, <1>6, <2>1, <2>4 DEF BufferOf, OnTheWay
  <2>6. PICK b \in Nat : Comes(t, d, b)
    BY <2>1 DEF ComingInv, Coming
  <2>7. Comes(t, d, b)'
    BY <1>2, <1>6, <2>1, <2>5, <2>6, ComesOn
  <2>8. QED BY <2>7
<1>10. Asking'
  <2> SUFFICES ASSUME NEW t \in Tab, NEW d \in Conn, tconn[t] = d, req[d].op = "resume"
               PROVE  Asked(t, d)'
    BY <1>2 DEF Asking
  <2>1. Asked(t, d)
    BY DEF ComingInv, Asking
  <2>2. CASE d = c
    BY <1>2, <1>5, <1>6, <1>8, <2>1, <2>2 DEF Asked
  <2>3. CASE d # c
    <3>1. OnTheWay(d)' = OnTheWay(d)
      BY <1>2, <1>6, <2>3 DEF OnTheWay
    <3>2. QED BY <1>2, <1>6, <2>1, <2>3, <3>1 DEF Asked
  <2>4. QED BY <2>2, <2>3
<1>11. Emptied'
  <2>1. \A r \in Session : shared'[r] = shared[r] \/ shared'[r].held
    BY <1>0, <1>3, <1>7 DEF SessionTypeOK
  <2>2. QED BY <2>1 DEF ComingInv, Emptied
<1>12. QED BY <1>9, <1>10, <1>11 DEF ComingInv

\* replay_events: the connection counts from the number its client asked for,
\* and everything in the buffer above that number is queued.
LEMMA ReplayStartComing ==
    ASSUME SessionManagerAssumption, TypeInv, Known, NumberInv, Heard, ComingInv,
           NEW c \in Conn, ReplayStart(c)
    PROVE  ComingInv'
<1>0. TypeOK /\ SessionTypeOK
  BY DEF TypeInv, TypeOK
<1>1. /\ pc[c] = "resumed" /\ home[c] \in Worker /\ csess[c] \in Session /\ csess[c] # None
      /\ req[c].op = "resume" /\ req[c].seq \in Nat /\ Refusals(c) = {}
  BY <1>0 DEF ReplayStart, TypeOK, TypeInv, HandshakeOrder, InOrder, Handled, Identified, RefusedOnce,
     SessionTypeOK, Request
<1>2. PICK s \in Session, w \in Worker, b \in Nat : s = csess[c] /\ w = home[c] /\ b = req[c].seq
  BY <1>1
<1>3. PICK copy \in SessionCopy : copy = GetSession(w, s)
  BY <1>0, GetSessionType
<1>4. PICK missed : missed = FramesAfter(copy.replay, b)
  OBVIOUS
<1>5. /\ UNCHANGED <<home, state, csess, cseq, shared, sock, wire, tasks, tsess, tseq, got, tconn>>
      /\ sessions' = [sessions EXCEPT ![w][s] = copy]
      /\ replayq' = [replayq EXCEPT ![c] = missed]
      /\ req' = [req EXCEPT ![c] = NoRequest]
      /\ pc' = [pc EXCEPT ![c] = IF missed = <<>> THEN NextRead(c) ELSE "replay"]
  BY <1>2, <1>3, <1>4 DEF ReplayStart, Missed, connectionVars, valkeyVars, clientVars
<1>6. /\ \A j \in DOMAIN missed : missed[j].s > b
      /\ \A i \in DOMAIN copy.replay : copy.replay[i].s > b => copy.replay[i] \in ToSet(missed)
  <2>1. copy.replay \in Seq(Numbered)
    BY DEF SessionCopy
  <2>2. QED BY <1>4, <2>1, FramesAfterType DEF ToSet
<1>7. OnTheWay(c)' = ToSet(wire[c]) \cup ToSet(tasks[c]) \cup ToSet(missed)
  <2>1. replayq'[c] = missed
    BY <1>0, <1>5 DEF TypeOK
  <2>2. QED BY <1>5, <2>1 DEF OnTheWay, ToSet
<1>8. \A d \in Conn : d # c => OnTheWay(d)' = OnTheWay(d)
  BY <1>0, <1>5 DEF OnTheWay, TypeOK
<1>9. Coming'
  <2> SUFFICES ASSUME NEW t \in Tab, NEW d \in Conn, tconn[t] = d, Serves(d)'
               PROVE  \E x \in Nat : Comes(t, d, x)'
    BY <1>5 DEF Coming
  <2>1. CASE d = c
    <3>1. Asked(t, c)
      BY <1>1, <2>1 DEF ComingInv, Asking
    <3>2. BufferOf(c)' = copy.replay
      <4>1. sessions'[w][s] = copy
        BY <1>0, <1>5 DEF SessionTypeOK
      <4>2. QED BY <1>2, <1>5, <4>1 DEF BufferOf
    <3>3. \A g \in OnTheWay(c)' : b <= g.s
      <4>1. \A g \in ToSet(missed) : b <= g.s
        <5>1. copy.replay \in Seq(Numbered)
          BY DEF SessionCopy
        <5>2. missed \in Seq(Numbered)
          BY <1>4, <5>1, FramesAfterType
        <5>3. \A j \in DOMAIN missed : missed[j].s \in Nat
          BY <5>2 DEF Numbered, Frame
        <5>4. QED BY <1>6, <5>3 DEF ToSet
      <4>2. \A g \in ToSet(wire[c]) \cup ToSet(tasks[c]) :
                g \in OnTheWay(c) /\ g.t # "INVALID_SESSION"
        <5>1. \A g \in ToSet(wire[c]) : g.t # "INVALID_SESSION"
          BY <1>1 DEF ToSet, Refusals
        <5>2. \A g \in ToSet(tasks[c]) : g.t # "INVALID_SESSION"
          <6>1. tasks[c] \in Seq(Numbered)
            BY <1>0 DEF TypeOK
          <6>2. \A i \in DOMAIN tasks[c] : tasks[c][i] \in Numbered
            BY <6>1
          <6>3. QED BY <6>2 DEF ToSet, Numbered
        <5>3. QED BY <5>1, <5>2, WayOf
      <4>3. QED BY <1>2, <1>7, <3>1, <4>1, <4>2 DEF Asked
    <3>4. (b <= cseq[c])' /\ (tsess[t] # None => b <= tseq[t])'
      BY <1>1, <1>2, <1>5, <3>1 DEF Asked
    <3>5. \A i \in DOMAIN BufferOf(c)' :
              BufferOf(c)'[i].s > b => BufferOf(c)'[i] \in OnTheWay(c)'
      BY <1>6, <1>7, <3>2
    <3>6. Comes(t, c, b)'
      BY <3>3, <3>4, <3>5 DEF Comes
    <3>7. QED BY <2>1, <3>6
  <2>2. CASE d # c
    <3>1. Serves(d)
      BY <1>0, <1>5, <2>2 DEF Serves, TypeOK
    <3>2. home[d] \in Worker /\ csess[d] \in Session
      BY <3>1, BuilderHome DEF Serves, Builds
    <3>3. GetSession(w, csess[d]).replay \in {BufferOf(d), <<>>}
      BY <3>1, FoundBuffer DEF ComingInv
    <3>4. sessions'[home[d]][csess[d]] = sessions[home[d]][csess[d]]
          \/ (s = csess[d] /\ sessions'[home[d]][csess[d]] = copy)
      BY <1>0, <1>5, <3>2 DEF SessionTypeOK
    <3>5. BufferOf(d)' \in {BufferOf(d), <<>>}
      <4>1. BufferOf(d)' = sessions'[home[d]][csess[d]].replay
        BY <1>5 DEF BufferOf
      <4>2. QED BY <1>3, <3>3, <3>4, <4>1 DEF BufferOf
    <3>6. PICK x \in Nat : Comes(t, d, x)
      BY <3>1 DEF ComingInv, Coming
    <3>7. Comes(t, d, x)'
      BY <1>5, <1>8, <2>2, <3>5, <3>6, ComesOn
    <3>8. QED BY <3>7
  <2>3. QED BY <2>1, <2>2
<1>10. Asking'
  <2> SUFFICES ASSUME NEW t \in Tab, NEW d \in Conn, tconn[t] = d, req'[d].op = "resume"
               PROVE  Asked(t, d)'
    BY <1>5 DEF Asking
  <2>1. d # c /\ req'[d] = req[d]
    BY <1>0, <1>5 DEF NoRequest, TypeOK
  <2>2. Asked(t, d)
    BY <2>1 DEF ComingInv, Asking
  <2>3. QED BY <1>5, <1>8, <2>1, <2>2 DEF Asked
<1>11. Emptied'
  BY <1>5 DEF ComingInv, Emptied
<1>12. QED BY <1>9, <1>10, <1>11 DEF ComingInv

\* record_event buffers the frames it was given behind those it found, and
\* nothing else.
LEMMA RecordEventsFrames ==
    ASSUME SessionManagerAssumption, SessionTypeOK, NEW w \in Worker,
           NEW new \in [Session -> Seq(Numbered)], RecordEvents(w, new),
           NEW s \in Session
    PROVE  /\ \A i \in DOMAIN sessions'[w][s].replay :
                 \/ sessions'[w][s].replay[i] \in ToSet(sessions[w][s].replay)
                 \/ sessions'[w][s].replay[i] \in ToSet(GetSession(w, s).replay)
                 \/ sessions'[w][s].replay[i] \in ToSet(new[s])
           /\ shared'[s].held \/ shared'[s] = shared[s]
<1> DEFINE found == GetSession(w, s)
           after == Recorded(found, new[s])
<1>1. found \in SessionCopy /\ new[s] \in Seq(Numbered)
  BY GetSessionType
<1>2. /\ after \in SessionCopy /\ after.held = found.held
      /\ \A j \in DOMAIN after.replay :
            \/ \E i \in DOMAIN found.replay : after.replay[j] = found.replay[i]
            \/ \E i \in DOMAIN new[s] : after.replay[j] = new[s][i]
  <2> HIDE DEF found
  <2> QED BY <1>1, RecordedProperties
<1>3. \/ found.held /\ sessions'[w][s] = after /\ shared'[s] = Persisted(s, after)
      \/ sessions'[w][s] = sessions[w][s] /\ shared'[s] = shared[s]
  BY DEF RecordEvents, SessionTypeOK
<1> HIDE DEF found, after
<1>4. CASE found.held /\ sessions'[w][s] = after /\ shared'[s] = Persisted(s, after)
  <2>1. Persisted(s, after).held \/ Persisted(s, after) = shared[s]
    <3>1. [after EXCEPT !.conn = None, !.fresh = TRUE].held = after.held
      BY <1>2 DEF SessionCopy
    <3>2. QED BY <1>2, <1>4, <3>1 DEF Persisted
  <2>2. \A j \in DOMAIN after.replay :
            after.replay[j] \in ToSet(found.replay) \/ after.replay[j] \in ToSet(new[s])
    BY <1>2 DEF ToSet
  <2>3. QED BY <1>4, <2>1, <2>2 DEF found
<1>5. CASE sessions'[w][s] = sessions[w][s] /\ shared'[s] = shared[s]
  BY <1>5 DEF ToSet
<1>6. QED BY <1>3, <1>4, <1>5

\* Every event such a step buffers is on the way on the connection it was
\* numbered for, with a number above all that one has given.
LEMMA GivesComing ==
    ASSUME SessionManagerAssumption, TypeInv, Known, NumberInv, ComingInv,
           NEW w \in Worker, NEW T, NEW entry, NEW new, Gives(w, T, entry, new),
           UNCHANGED <<state, sock, req, tsess, tseq, got, tconn>>,
           \A c \in Conn : pc'[c] # "resumed" => pc[c] # "resumed",
           \A c \in Conn : OnTheWay(c) \subseteq OnTheWay(c)',
           \A c \in Conn : \A f \in OnTheWay(c)' :
               f \in OnTheWay(c) \/ (c \in T /\ f.s = cseq[c] + 1),
           \A s \in Session : \A f \in ToSet(new[s]) :
               f.e = None \/ \E c \in T : csess[c] = s /\ f \in OnTheWay(c)'
    PROVE  ComingInv'
<1>0. TypeOK /\ SessionTypeOK
  BY DEF TypeInv, TypeOK
<1>1. /\ UNCHANGED <<csess, home>> /\ RecordEvents(w, new) /\ new \in [Session -> Seq(Numbered)]
      /\ \A c \in Conn : cseq[c] \in Nat /\ cseq'[c] \in Nat /\ cseq'[c] >= cseq[c]
      /\ \A c \in T : c \in Conn /\ Builds(c)
  BY <1>0 DEF Gives, SessionTypeOK
<1>2. Coming'
  <2> SUFFICES ASSUME NEW t \in Tab, NEW d \in Conn, tconn[t] = d, Serves(d)'
               PROVE  \E b \in Nat : Comes(t, d, b)'
    BY DEF Coming
  <2>1. Serves(d) /\ Builds(d)
    BY DEF Serves, Builds
  <2>2. PICK s \in Session : s = csess[d] /\ home[d] = w
    BY <2>1, BuilderHome DEF NumberInv, OneWorker
  <2>3. PICK b \in Nat : Comes(t, d, b)
    BY <2>1 DEF ComingInv, Coming
  <2>4. ASSUME NEW i \in DOMAIN BufferOf(d)',
               BufferOf(d)'[i].s > b, BufferOf(d)'[i].e # None
        PROVE  BufferOf(d)'[i].e \in got[t] \/ BufferOf(d)'[i] \in OnTheWay(d)'
    <3>1. BufferOf(d)' = sessions'[w][s].replay
      BY <1>1, <2>2 DEF BufferOf
    <3>2. PICK x : x = BufferOf(d)'[i]
      OBVIOUS
    <3>3. x \in ToSet(BufferOf(d)) \/ x \in ToSet(GetSession(w, s).replay) \/ x \in ToSet(new[s])
      <4>1. i \in DOMAIN sessions'[w][s].replay /\ x = sessions'[w][s].replay[i]
        BY <3>1, <3>2
      <4>2. BufferOf(d) = sessions[w][s].replay
        BY <2>2 DEF BufferOf
      <4>3. QED BY <1>0, <1>1, <4>1, <4>2, RecordEventsFrames
    <3>4. GetSession(w, s).replay \in {BufferOf(d), <<>>}
      BY <2>1, <2>2, FoundBuffer DEF ComingInv
    <3>5. CASE x \in ToSet(BufferOf(d))
      <4>1. x.e \in got[t] \/ x \in OnTheWay(d)
        BY <2>3, <2>4, <3>2, <3>5 DEF Comes, ToSet
      <4>2. QED BY <3>2, <4>1
    <3>6. CASE x \in ToSet(new[s])
      <4>1. PICK c \in T : csess[c] = s /\ x \in OnTheWay(c)'
        BY <2>4, <3>2, <3>6
      <4>2. c = d
        BY <1>1, <2>1, <2>2, <4>1 DEF NumberInv, Owners
      <4>3. QED BY <3>2, <4>1, <4>2
    <3>7. x \notin ToSet(<<>>)
      BY DEF ToSet
    <3>8. QED BY <3>3, <3>4, <3>5, <3>6, <3>7
  <2>5. (b <= cseq[d])' /\ (tsess[t] # None => b <= tseq[t])'
    BY <1>1, <2>3 DEF Comes
  <2>6. \A f \in OnTheWay(d)' : b <= f.s
    BY <1>1, <2>3 DEF Comes
  <2>7. Comes(t, d, b)'
    BY <2>4, <2>5, <2>6 DEF Comes
  <2>8. QED BY <2>7
<1>3. Asking'
  <2> SUFFICES ASSUME NEW t \in Tab, NEW d \in Conn, tconn[t] = d, req[d].op = "resume"
               PROVE  Asked(t, d)'
    BY DEF Asking
  <2>1. Asked(t, d) /\ req[d].seq \in Nat
    BY <1>0 DEF ComingInv, Asking, TypeOK, Request
  <2>2. d \in T => csess[d] # None
    BY <1>1, BuilderHome
  <2>3. csess[d] # None => req[d].seq <= cseq'[d]
    BY <1>1, <2>1 DEF Asked
  <2>4. \A f \in OnTheWay(d)' : f.t # "INVALID_SESSION" => req[d].seq <= f.s
    <3> SUFFICES ASSUME NEW f \in OnTheWay(d)', f.t # "INVALID_SESSION" PROVE req[d].seq <= f.s
      OBVIOUS
    <3>1. CASE f \in OnTheWay(d)
      BY <2>1, <3>1 DEF Asked
    <3>2. CASE d \in T /\ f.s = cseq[d] + 1
      BY <1>1, <2>1, <2>2, <3>2 DEF Asked
    <3>3. QED BY <3>1, <3>2
  <2>5. QED BY <1>1, <2>1, <2>3, <2>4 DEF Asked
<1>4. Emptied'
  <2>1. \A s \in Session : shared'[s].held \/ shared'[s] = shared[s]
    BY <1>0, <1>1, RecordEventsFrames
  <2>2. QED BY <2>1 DEF ComingInv, Emptied
<1>5. QED BY <1>2, <1>3, <1>4 DEF ComingInv

\* READY is no event, and is written on top of what is under way.
LEMMA SendReadyComing ==
    ASSUME SessionManagerAssumption, TypeInv, Known, NumberInv, ComingInv,
           NEW c \in Conn, SendReady(c)
    PROVE  ComingInv'
<1> DEFINE f == [t |-> "READY", s |-> cseq[c] + 1, sess |-> csess[c], e |-> None]
<1>0. TypeOK /\ SessionTypeOK
  BY DEF TypeInv, TypeOK
<1>1. home[c] \in Worker
  BY BuilderHome DEF SendReady, Builds, Greeting
<1>2. PICK entry, new :
          /\ Gives(home[c], {c}, entry, new) /\ \A d \in {c} : entry[d].e = None
          /\ \A s \in Session : \A i \in DOMAIN new[s] : new[s][i].e = None
  <2>1. \E entry, new :
            /\ Gives(home[c], {c}, entry, new) /\ \A d \in {c} : entry[d].e = None
            /\ \A s \in Session : \A i \in DOMAIN new[s] : new[s][i].e = None
    BY ONLY SessionManagerAssumption, TypeInv, Known, NumberInv, SendReady(c), c \in Conn,
            SendReadyGives
  <2>2. QED BY <2>1
<1>3. /\ UNCHANGED <<state, sock, req, tsess, tseq, got, tconn, tasks, replayq>>
      /\ wire' = Written(c, f)
      /\ pc' = [pc EXCEPT ![c] = NextRead(c)]
  BY DEF SendReady, sendVars, clientVars
<1>4. \A d \in Conn : pc'[d] # "resumed" => pc[d] # "resumed"
  BY <1>0, <1>3 DEF SendReady, TypeOK
<1>5. \A d \in Conn : d # c => OnTheWay(d)' = OnTheWay(d)
  BY <1>0, <1>3 DEF OnTheWay, Written, TypeOK
<1>6. OnTheWay(c) \subseteq OnTheWay(c)' /\ OnTheWay(c)' \subseteq OnTheWay(c) \cup {f}
  <2>1. f \in Frame
    <3>1. cseq[c] \in Nat /\ csess[c] \in Session /\ csess[c] # None
      BY <1>0, BuilderHome DEF SendReady, Builds, Greeting, SessionTypeOK
    <3>2. QED BY <3>1 DEF Frame
  <2>2. wire[c] \in Seq(Frame) /\ wire'[c] \in {wire[c], Append(wire[c], f)}
    BY <1>0, <1>3 DEF Written, TypeOK
  <2>3. ToSet(Append(wire[c], f)) = ToSet(wire[c]) \cup {f}
    BY <2>1, <2>2, Queued
  <2>4. OnTheWay(c)' = ToSet(wire'[c]) \cup ToSet(tasks[c]) \cup ToSet(replayq[c])
    BY <1>3 DEF OnTheWay, ToSet
  <2> HIDE DEF f
  <2>5. QED BY <2>2, <2>3, <2>4, WayOf
<1>7. f.s = cseq[c] + 1
  OBVIOUS
<1> HIDE DEF f
<1>8. /\ \A d \in Conn : OnTheWay(d) \subseteq OnTheWay(d)'
      /\ \A d \in Conn : \A g \in OnTheWay(d)' :
             g \in OnTheWay(d) \/ (d \in {c} /\ g.s = cseq[d] + 1)
  BY <1>5, <1>6, <1>7
<1>9. \A s \in Session : \A g \in ToSet(new[s]) :
          g.e = None \/ \E d \in {c} : csess[d] = s /\ g \in OnTheWay(d)'
  BY <1>2 DEF ToSet
<1>10. PICK w \in Worker : w = home[c]
  BY <1>1
<1>11. Gives(w, {c}, entry, new)
  BY <1>2, <1>10
<1>12. QED BY <1>3, <1>4, <1>8, <1>9, <1>11, GivesComing

\* dispatch_event schedules the frame it records, on the one connection that
\* serves the session.
LEMMA DispatchComing ==
    ASSUME SessionManagerAssumption, TypeInv, Known, NumberInv, ComingInv,
           NEW w \in Worker, Dispatch(w)
    PROVE  ComingInv'
<1> DEFINE T == Targets(w)
           new == NewFrames(w)
<1>0. TypeOK /\ SessionTypeOK /\ cursor[w] < MaxEvent
  BY DEF TypeInv, TypeOK, Dispatch
<1>1. PICK entry : Gives(w, T, entry, new)
  BY DispatchGives
<1>2. /\ UNCHANGED <<state, sock, req, tsess, tseq, got, tconn, wire, replayq, pc>>
      /\ tasks' = [c \in Conn |-> IF c \in T THEN Append(tasks[c], EventFrame(w, c)) ELSE tasks[c]]
  BY DEF Dispatch, Targets, EventFrame, loopVars, socketVars, clientVars
<1>3. /\ T \in SUBSET Conn /\ \A c \in T : EventFrame(w, c) \in Frame
      /\ \A s \in Session : \A i \in DOMAIN new[s] :
            \E c \in T : csess[c] = s /\ new[s][i] = EventFrame(w, c)
  BY <1>0, DispatchFrames DEF Numbered
<1> HIDE DEF T, new
<1>4. \A c \in Conn : c \notin T => OnTheWay(c)' = OnTheWay(c)
  BY <1>2 DEF OnTheWay
<1>5. \A c \in T : OnTheWay(c)' = OnTheWay(c) \cup {EventFrame(w, c)}
  <2> SUFFICES ASSUME NEW c \in T PROVE OnTheWay(c)' = OnTheWay(c) \cup {EventFrame(w, c)}
    OBVIOUS
  <2>1. c \in Conn /\ tasks[c] \in Seq(Frame)
    BY <1>0, <1>3, NumberedFrames DEF TypeOK
  <2>2. PICK f \in Frame : f = EventFrame(w, c)
    BY <1>3
  <2>3. tasks'[c] = Append(tasks[c], f) /\ ToSet(Append(tasks[c], f)) = ToSet(tasks[c]) \cup {f}
    BY <1>2, <2>1, <2>2, Queued
  <2>4. OnTheWay(c)' = ToSet(wire[c]) \cup ToSet(tasks'[c]) \cup ToSet(replayq[c])
    BY <1>2 DEF OnTheWay, ToSet
  <2>5. QED BY <2>1, <2>2, <2>3, <2>4, WayOf
<1>6. \A c \in T : EventFrame(w, c).s = cseq[c] + 1
  BY DEF EventFrame
<1>7. /\ \A c \in Conn : OnTheWay(c) \subseteq OnTheWay(c)'
      /\ \A c \in Conn : \A f \in OnTheWay(c)' :
             f \in OnTheWay(c) \/ (c \in T /\ f.s = cseq[c] + 1)
  BY <1>4, <1>5, <1>6
<1>8. \A s \in Session : \A f \in ToSet(new[s]) :
          f.e = None \/ \E c \in T : csess[c] = s /\ f \in OnTheWay(c)'
  BY <1>3, <1>5 DEF ToSet
<1>9. \A c \in Conn : pc'[c] # "resumed" => pc[c] # "resumed"
  BY <1>2
<1>10. QED BY <1>1, <1>2, <1>7, <1>8, <1>9, GivesComing

\* The initial state.
LEMMA InitComing == ASSUME Init PROVE ComingInv
BY DEF Init, SessionInit, ComingInv, Coming, Asking, Emptied, Serves, NoRequest, NoCopy

\* Every step keeps what is retained coming.
LEMMA StepComing ==
    ASSUME SessionManagerAssumption, GatewayAssumption, TypeInv, Known, NumberInv, Heard,
           TypeInv', Known', NumberInv', ComingInv, [Next]_vars
    PROVE  ComingInv'
<1>1. CASE UNCHANGED vars
  <2>1. UNCHANGED <<home, state, csess, cseq, sessions, shared, sock, pc, req, wire, tasks,
                    replayq, tconn, tsess, tseq, got>>
    BY <1>1 DEF vars, sessionVars, connectionVars, managerVars, valkeyVars, loopVars, socketVars,
       sendVars, clientVars
  <2>2. \A c : UNCHANGED <<OnTheWay(c), BufferOf(c), Serves(c)>>
    BY <2>1 DEF OnTheWay, BufferOf, Serves
  <2>3. Coming'
    BY <2>1, <2>2 DEF ComingInv, Coming, Comes
  <2>4. Asking' /\ Emptied'
    BY <2>1, <2>2 DEF ComingInv, Asking, Asked, Emptied
  <2>5. QED BY <2>3, <2>4 DEF ComingInv
<1>2. ASSUME NEW t \in Tab, NEW c \in Conn, NEW w \in Worker, Connect(t, c, w) PROVE ComingInv'
  BY <1>2, ConnectComing
<1>3. ASSUME NEW t \in Tab,
             Receive(t) \/ \E how \in {"lost", "closed"} : Leave(t, how)
      PROVE  ComingInv'
  BY <1>3, ReceiveComing, LeaveComing
<1>4. ASSUME NEW c \in Conn, ServerStep(c) PROVE ComingInv'
  BY <1>4, QuietComingSteps, IdentifyComing, SendReadyComing, RefuseComing, ResumeComing,
     ReplayStartComing, SendComing DEF ServerStep
<1>5. ASSUME NEW c \in Conn, MonitorStep(c) \/ TaskSend(c) \/ NoticeLoss(c) \/ WindowReset(c)
      PROVE  ComingInv'
  BY <1>5, QuietComingSteps, SendComing DEF MonitorStep
<1>6. ASSUME NEW w \in Worker, Dispatch(w) \/ Crash(w) PROVE ComingInv'
  BY <1>6, DispatchComing, CrashComing
<1>7. CASE Expire
  BY <1>7, ExpireComing
<1>8. QED BY <1>1, <1>2, <1>3, <1>4, <1>5, <1>6, <1>7 DEF Next

\* With one worker, while a tab's connection serves its session every event
\* the session retains above the tab's number has been received or is on its
\* way, however replays, dispatches and reconnects interleave.
THEOREM RetainedComes == OneWorker /\ Spec => []RetainedIsComing
<1> DEFINE I == TypeInv /\ Known /\ NumberInv /\ Heard /\ ComingInv
<1>1. OneWorker /\ Init => I
  BY InitType, InitKnown, InitNumbers, InitHeard, InitComing,
     SessionManagerAssumption, GatewayAssumption
<1>2. I /\ [Next]_vars => I'
  <2> SUFFICES ASSUME I, [Next]_vars PROVE I'
    OBVIOUS
  <2>1. TypeInv' /\ Known' /\ NumberInv' /\ Heard'
    BY StepType, StepKnown, StepNumbers, StepHeard, SessionManagerAssumption, GatewayAssumption
  <2>2. ComingInv'
    BY <2>1, StepComing, SessionManagerAssumption, GatewayAssumption
  <2>3. QED BY <2>1, <2>2
<1>3. I => RetainedIsComing
  <2> SUFFICES ASSUME I, NEW t \in Tab, NEW c, c = tconn[t], c # None, tsess[t] # None,
                      sock[c] = "open", IsAuthenticated(c), csess[c] = tsess[t],
                      pc[c] # "resumed",
                      NEW i \in DOMAIN sessions[home[c]][tsess[t]].replay,
                      sessions[home[c]][tsess[t]].replay[i].s > tseq[t],
                      sessions[home[c]][tsess[t]].replay[i].e # None
               PROVE  \/ sessions[home[c]][tsess[t]].replay[i].e \in got[t]
                      \/ sessions[home[c]][tsess[t]].replay[i] \in OnTheWay(c)
    BY DEF RetainedIsComing
  <2>1. c \in Conn /\ Serves(c)
    BY DEF TypeInv, TypeOK, Serves, IsAuthenticated
  <2>2. PICK b \in Nat : Comes(t, c, b)
    BY <2>1 DEF ComingInv, Coming
  <2>3. PICK x : x = BufferOf(c)[i] /\ i \in DOMAIN BufferOf(c) /\ x.s > tseq[t] /\ x.e # None
    BY DEF BufferOf
  <2>4. x.s > b
    <3>1. x.s \in Nat /\ tseq[t] \in Nat
      <4>1. home[c] \in Worker /\ csess[c] \in Session
        BY <2>1, BuilderHome DEF Serves, Builds
      <4>2. BufferOf(c) \in Seq(Numbered)
        BY <4>1 DEF BufferOf, TypeInv, TypeOK, SessionTypeOK, SessionCopy
      <4>3. x \in Numbered
        BY <2>3, <4>2
      <4>4. QED BY <4>3 DEF Numbered, Frame, TypeInv, TypeOK
    <3>2. QED BY <2>2, <2>3, <3>1 DEF Comes
  <2>5. x.e \in got[t] \/ x \in OnTheWay(c)
    BY <2>2, <2>3, <2>4 DEF Comes
  <2>6. QED BY <2>3, <2>5 DEF BufferOf
<1> HIDE DEF I
<1>4. QED BY <1>1, <1>2, <1>3, PTL DEF Spec
=============================================================================
