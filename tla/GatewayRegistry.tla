-------------------------- MODULE GatewayRegistry --------------------------
(***************************************************************************)
(* Valkey's registry of connections follows them for every number of       *)
(* workers, as long as no worker dies and up to the TTLs of its keys; and  *)
(* with one worker a session is in its user's set once.                    *)
(***************************************************************************)
EXTENDS GatewayNumbers

NoCrash == MaxCrash = 0

\* A worker's copy of a session points to a connection that worker accepted.
Holders ==
    \A w \in Worker, s \in Session :
        LET d == sessions[w][s].conn
        IN  d # None => home[d] = w /\ pc[d] # "none"

\* The connections stats:total_connections counts.
Counted == {c \in registered : cuser[c] # NoOne}

RegistryInv == NoCrash /\ Holders /\ RegistryExact

-----------------------------------------------------------------------------

\* The initial state.
LEMMA InitRegistry == ASSUME NoCrash, Init PROVE RegistryInv
<1>1. Holders
  BY DEF Init, SessionInit, Holders, NoCopy
<1>2. {c \in registered : cuser[c] # NoOne} = {} /\ total = 0 /\ members = {}
  BY DEF Init, SessionInit
<1>3. Cardinality({}) = 0
  BY FS_EmptySet
<1>4. \A c \in Conn : ~ IsAuthenticated(c)
  BY DEF Init, SessionInit, IsAuthenticated
<1>5. RegistryExact
  BY <1>2, <1>3, <1>4 DEF RegistryExact
<1>6. QED BY <1>1, <1>5 DEF RegistryInv

\* The registry stays exact where nobody registers or leaves, no connection
\* becomes ready, and members go only with their info.
LEMMA QuietExact ==
    ASSUME RegistryExact, UNCHANGED <<registered, userConns, total, cuser>>,
           info' \subseteq info, members' \subseteq members,
           \A c \in info' : c \in members => c \in members',
           \A c \in Conn : state'[c] = "ready" => state[c] = "ready"
    PROVE  RegistryExact'
<1>1. Counted' = Counted
  BY DEF Counted
<1>2. QED BY <1>1 DEF RegistryExact, IsAuthenticated, Counted

\* Copies keep their holders where none is taken over.
LEMMA QuietHolders ==
    ASSUME Holders, UNCHANGED home,
           \A c \in Conn : pc'[c] = "none" => pc[c] = "none",
           \A w \in Worker, s \in Session : sessions'[w][s].conn \in Conn \cup {None},
           \A w \in Worker, s \in Session :
              sessions'[w][s].conn \in {sessions[w][s].conn, None}
    PROVE  Holders'
BY DEF Holders

\* The copy a handler finds points where the worker's copy does, or nowhere.
LEMMA FoundHolder ==
    ASSUME SessionTypeOK, NEW w \in Worker, NEW s \in Session
    PROVE  GetSession(w, s).conn \in {sessions[w][s].conn, None}
<1>1. shared[s] \in SessionCopy
  BY DEF SessionTypeOK
<1>2. Hydrated(s).conn = None
  BY <1>1 DEF Hydrated, SessionCopy
<1>3. QED BY <1>2 DEF GetSession

\* Both, for the steps that do neither.
LEMMA QuietRegistry ==
    ASSUME TypeInv, TypeInv', RegistryInv,
           UNCHANGED <<registered, userConns, total, cuser, home>>,
           info' \subseteq info, members' \subseteq members,
           \A c \in info' : c \in members => c \in members',
           \A c \in Conn : state'[c] = "ready" => state[c] = "ready",
           \A c \in Conn : pc'[c] = "none" => pc[c] = "none",
           \A w \in Worker, s \in Session :
              sessions'[w][s].conn \in {sessions[w][s].conn, None}
    PROVE  RegistryInv'
<1>1. RegistryExact'
  BY QuietExact DEF RegistryInv
<1>2. Holders'
  <2>1. \A w \in Worker, s \in Session : sessions'[w][s].conn \in Conn \cup {None}
    BY DEF TypeInv, TypeOK, SessionTypeOK, SessionCopy
  <2>2. QED BY <2>1, QuietHolders DEF RegistryInv
<1>3. QED BY <1>1, <1>2 DEF RegistryInv, NoCrash

\* The steps that leave the manager and Valkey alone.
LEMMA QuietRegistrySteps ==
    ASSUME TypeInv, TypeInv', RegistryInv, NEW c \in Conn,
           \/ ReceiveRequest(c) \/ IdentifyRefused(c) \/ PresenceOnline(c) \/ LoopExit(c)
           \/ HeartbeatOnClosing(c) \/ HeartbeatClose(c) \/ HeartbeatClosed(c)
           \/ NoticeLoss(c) \/ WindowReset(c) \/ TaskSend(c) \/ ReplaySend(c)
           \/ ResumeUnauthorized(c)
    PROVE  RegistryInv'
<1>0. pc \in [Conn -> Steps] /\ state \in [Conn -> States] /\ req[c] \in Request
  BY DEF TypeInv, TypeOK, SessionTypeOK
<1>1. UNCHANGED <<registered, userConns, members, info, total, cuser, home, sessions>>
  BY DEF ReceiveRequest, IdentifyRefused, PresenceOnline, LoopExit, HeartbeatOnClosing,
         HeartbeatClose, HeartbeatClosed, NoticeLoss, WindowReset, TaskSend, ReplaySend,
         ResumeUnauthorized, Refuse, sessionVars, connectionVars, managerVars, valkeyVars
<1>2. \A d \in Conn : state'[d] = "ready" => state[d] = "ready"
  BY <1>0 DEF ReceiveRequest, IdentifyRefused, CloseAndExit, PresenceOnline, LoopExit,
         HeartbeatOnClosing, HeartbeatClose, HeartbeatClosed, NoticeLoss, WindowReset, TaskSend,
         ReplaySend, ResumeUnauthorized, Refuse, sessionVars, connectionVars
<1>3. \A d \in Conn : pc'[d] = "none" => pc[d] = "none"
  BY <1>0 DEF ReceiveRequest, Request, IdentifyRefused, CloseAndExit, PresenceOnline, LoopExit,
         HeartbeatOnClosing, HeartbeatClose, HeartbeatClosed, NoticeLoss, WindowReset, TaskSend,
         ReplaySend, ResumeUnauthorized, Refuse, NextRead, loopVars
<1>4. QED BY <1>1, <1>2, <1>3, QuietRegistry

\* The steps of a tab that has a socket.
LEMMA TabRegistry ==
    ASSUME TypeInv, TypeInv', RegistryInv, NEW t \in Tab,
           Receive(t) \/ \E how \in {"lost", "closed"} : Leave(t, how)
    PROVE  RegistryInv'
<1>1. UNCHANGED <<registered, userConns, members, info, total, cuser, home, sessions, state, pc>>
  BY DEF Receive, Leave, sessionVars, connectionVars, managerVars, valkeyVars, loopVars
<1>2. QED BY <1>1, QuietRegistry

\* Numbers and hydration move no connection.
LEMMA CopyRegistry ==
    ASSUME SessionManagerAssumption, TypeInv, TypeInv', RegistryInv,
           \/ \E c \in Conn : SendReady(c) \/ ReplayStart(c) \/ ResumeRejected(c)
           \/ \E w \in Worker : Dispatch(w)
           \/ Expire
    PROVE  RegistryInv'
<1>0. TypeOK /\ SessionTypeOK
  BY DEF TypeInv, TypeOK
<1> DEFINE Kept(v) == \A s \in Session : sessions'[v][s].conn \in {sessions[v][s].conn, None}
<1>1. ASSUME NEW w \in Worker, NEW new \in [Session -> Seq(Numbered)], RecordEvents(w, new)
      PROVE  \A v \in Worker : Kept(v)
  <2>1. ASSUME NEW s \in Session
        PROVE  /\ GetSession(w, s).conn \in {sessions[w][s].conn, None}
               /\ Recorded(GetSession(w, s), new[s]).conn = GetSession(w, s).conn
    <3>1. GetSession(w, s) \in SessionCopy /\ new[s] \in Seq(Numbered)
      BY <1>0, GetSessionType
    <3>2. QED BY <1>0, <3>1, FoundHolder, RecordedProperties
  <2>2. \A v \in Worker, s \in Session :
            sessions'[v][s] \in {sessions[v][s],
                                 IF v = w THEN Recorded(GetSession(w, s), new[s]) ELSE sessions[v][s]}
    BY <1>0, <1>1 DEF RecordEvents, SessionTypeOK
  <2>3. QED BY <2>1, <2>2
<1>2. ASSUME NEW w \in Worker, NEW s \in Session, NEW copy \in {GetSession(w, s), NoCopy},
             sessions' = [sessions EXCEPT ![w][s] = copy]
      PROVE  \A v \in Worker : Kept(v)
  <2>1. copy.conn \in {sessions[w][s].conn, None}
    BY <1>0, FoundHolder DEF NoCopy
  <2>2. QED BY <1>0, <1>2, <2>1 DEF SessionTypeOK
<1>3. ASSUME NEW c \in Conn, SendReady(c) PROVE RegistryInv'
  <2> DEFINE f == [t |-> "READY", s |-> cseq[c] + 1, sess |-> csess[c], e |-> None]
             new == [s \in Session |-> IF s = csess[c] THEN <<f>> ELSE <<>>]
  <2>1. home[c] \in Worker /\ f \in Numbered
    BY <1>0, <1>3 DEF SendReady, TypeInv, HandshakeOrder, InOrder, Identified, Handled, Numbered,
                      Frame, SessionTypeOK
  <2>2. new \in [Session -> Seq(Numbered)]
    <3> HIDE DEF f
    <3>1. <<f>> \in Seq(Numbered) /\ <<>> \in Seq(Numbered)
      BY <2>1
    <3>2. QED BY <3>1
  <2>3. /\ RecordEvents(home[c], new) /\ pc' = [pc EXCEPT ![c] = NextRead(c)]
        /\ UNCHANGED <<registered, userConns, members, info, total, cuser, home, state>>
    BY <1>3 DEF SendReady
  <2> HIDE DEF new
  <2>4. \A v \in Worker : Kept(v)
    BY <1>1, <2>1, <2>2, <2>3
  <2>5. \A d \in Conn : pc'[d] = "none" => pc[d] = "none"
    BY <1>0, <2>3 DEF NextRead, TypeOK
  <2>6. QED BY <2>3, <2>4, <2>5, QuietRegistry
<1>4. ASSUME NEW c \in Conn, ReplayStart(c) PROVE RegistryInv'
  <2>1. home[c] \in Worker /\ csess[c] \in Session
    BY <1>0, <1>4 DEF ReplayStart, TypeInv, HandshakeOrder, InOrder, Identified, Handled,
                      SessionTypeOK
  <2>2. /\ sessions' = [sessions EXCEPT ![home[c]][csess[c]] = GetSession(home[c], csess[c])]
        /\ UNCHANGED <<registered, userConns, members, info, total, cuser, home, state>>
    BY <1>4 DEF ReplayStart, connectionVars, valkeyVars
  <2>3. \A v \in Worker : Kept(v)
    BY <1>2, <2>1, <2>2
  <2>4. \A d \in Conn : pc'[d] = "none" => pc[d] = "none"
    BY <1>0, <1>4 DEF ReplayStart, NextRead, TypeOK
  <2>5. QED BY <2>2, <2>3, <2>4, QuietRegistry
<1>5. ASSUME NEW c \in Conn, ResumeRejected(c) PROVE RegistryInv'
  <2>1. home[c] \in Worker /\ req[c].sess \in Session
    BY <1>0, <1>5 DEF ResumeRejected, TypeInv, HandshakeOrder, InOrder, Handled, Request, TypeOK
  <2>2. UNCHANGED <<registered, userConns, members, info, total, cuser, home, state>>
    BY <1>5 DEF ResumeRejected, Refuse, connectionVars
  <2>3. \E copy \in {GetSession(home[c], req[c].sess), NoCopy} :
            sessions' = [sessions EXCEPT ![home[c]][req[c].sess] = copy]
    BY <1>5 DEF ResumeRejected, RefuseSession
  <2>4. \A v \in Worker : Kept(v)
    BY <1>2, <2>1, <2>3
  <2>5. \A d \in Conn : pc'[d] = "none" => pc[d] = "none"
    BY <1>0, <1>5 DEF ResumeRejected, Refuse, NextRead, TypeOK
  <2>6. QED BY <2>2, <2>4, <2>5, QuietRegistry
<1>6. ASSUME NEW w \in Worker, Dispatch(w) PROVE RegistryInv'
  <2>1. NewFrames(w) \in [Session -> Seq(Numbered)]
    BY <1>6, DispatchFrames DEF Dispatch
  <2>2. /\ RecordEvents(w, NewFrames(w))
        /\ UNCHANGED <<registered, userConns, members, info, total, cuser, home, state, pc>>
    BY <1>6 DEF Dispatch, NewFrames, Targets, EventFrame, loopVars
  <2>3. \A v \in Worker : Kept(v)
    BY <1>1, <2>1, <2>2
  <2>4. QED BY <2>2, <2>3, QuietRegistry
<1>7. CASE Expire
  <2>1. UNCHANGED <<registered, userConns, total, cuser, home, state, pc>>
    BY <1>7 DEF Expire, CopyExpires, SharedExpires, InfoExpires, MembersExpire, connectionVars,
                managerVars, valkeyVars, loopVars
  <2>2. \A v \in Worker : Kept(v)
    BY <1>0, <1>7, ExpireEffect
  <2>3. /\ info' \subseteq info /\ members' \subseteq members
        /\ \A c \in info' : c \in members => c \in members'
    BY <1>7 DEF Expire, CopyExpires, SharedExpires, InfoExpires, MembersExpire, valkeyVars
  <2>4. QED BY <2>1, <2>2, <2>3, QuietRegistry
<1>8. QED BY <1>3, <1>4, <1>5, <1>6, <1>7

-----------------------------------------------------------------------------
(* Connections come and go                                                 *)

\* The counted connections are finitely many.
LEMMA CountedFinite ==
    ASSUME SessionManagerAssumption, SessionTypeOK
    PROVE  IsFiniteSet(Counted)
<1>1. Counted \subseteq Conn
  BY DEF Counted, SessionTypeOK
<1>2. QED BY <1>1, ConnFinite, FS_Subset

\* add_connection registers a connection that has no user yet.
LEMMA ConnectRegistry ==
    ASSUME TypeInv, Known, RegistryInv, NEW t \in Tab, NEW c \in Conn, NEW w \in Worker,
           Connect(t, c, w)
    PROVE  RegistryInv'
<1>0. TypeOK /\ SessionTypeOK
  BY DEF TypeInv, TypeOK
<1>1. pc[c] = "none" /\ cuser[c] = NoOne
  BY DEF Connect, TypeInv, HandshakeOrder, InOrder, Identified
<1>2. /\ home' = [home EXCEPT ![c] = w] /\ registered' = registered \cup {c}
      /\ state' = [state EXCEPT ![c] = "connected"] /\ pc' = [pc EXCEPT ![c] = "receive"]
      /\ UNCHANGED <<cuser, userConns, sessions, members, info, total>>
  BY DEF Connect, AddConnection, valkeyVars
<1>3. Counted' = Counted
  BY <1>1, <1>2 DEF Counted
<1>4. RegistryExact'
  BY <1>0, <1>2, <1>3 DEF RegistryInv, RegistryExact, IsAuthenticated, Counted, SessionTypeOK
<1>5. Holders'
  <2>1. \A v \in Worker, s \in Session : sessions[v][s].conn \in Conn \cup {None}
    BY <1>0 DEF SessionTypeOK, SessionCopy
  <2>2. QED BY <1>0, <1>1, <1>2, <2>1 DEF RegistryInv, Holders, TypeOK, SessionTypeOK
<1>6. QED BY <1>4, <1>5 DEF RegistryInv, NoCrash

\* create_session and resume_session register a connection that had no user:
\* the count grows by one.
LEMMA RegisteredOnce ==
    ASSUME SessionManagerAssumption, TypeInv, Known, NEW c \in Conn, NEW u \in User,
           pc[c] \in {"identify", "resume"}, cuser[c] = NoOne,
           registered' = registered, cuser' = [cuser EXCEPT ![c] = u],
           total = Cardinality(Counted)
    PROVE  total + 1 = Cardinality(Counted')
<1>1. c \in registered /\ u # NoOne /\ SessionTypeOK
  BY DEF Known, Present, Accepted, SessionManagerAssumption, TypeInv, TypeOK
<1>2. Counted' = Counted \cup {c} /\ c \notin Counted
  BY <1>1 DEF Counted, SessionTypeOK
<1>3. IsFiniteSet(Counted)
  BY <1>1, CountedFinite
<1>4. Cardinality(Counted \cup {c}) = Cardinality(Counted) + 1
  BY <1>2, <1>3, FS_AddElement
<1>5. QED BY <1>2, <1>4

\* IDENTIFY adds a member.
LEMMA IdentifyRegistry ==
    ASSUME SessionManagerAssumption, TypeInv, Known, RegistryInv, NEW c \in Conn, IdentifyVerified(c)
    PROVE  RegistryInv'
<1> DEFINE created == [NoCopy EXCEPT !.held = TRUE, !.user = req[c].user, !.conn = c,
                                     !.fresh = TRUE]
<1>0. TypeOK /\ SessionTypeOK
  BY DEF TypeInv, TypeOK
<1>1. pc[c] = "identify" /\ home[c] \in Worker /\ cuser[c] = NoOne /\ req[c].user \in User
      /\ c \in Session
  BY <1>0 DEF IdentifyVerified, TypeInv, HandshakeOrder, InOrder, Handled, Identified, TypeOK,
              Request, Session
<1>2. /\ sessions' = [sessions EXCEPT ![home[c]][c] = created]
      /\ userConns' = userConns \cup {c} /\ Register(c)
      /\ cuser' = [cuser EXCEPT ![c] = req[c].user]
      /\ state' = [state EXCEPT ![c] = "ready"]
      /\ pc' = [pc EXCEPT ![c] = "presence"]
      /\ UNCHANGED <<home, registered>>
  BY DEF IdentifyVerified, CreateSession
<1>3. created.conn = c
  BY DEF NoCopy
<1> HIDE DEF created
<1>4. c \in registered /\ req[c].user # NoOne
  BY <1>1 DEF Known, Present, Accepted, SessionManagerAssumption
<1>5. ASSUME ValkeyAvailable
      PROVE  /\ \A d \in members' : d \in registered' /\ cuser'[d] # NoOne
             /\ \A d \in Conn : IsAuthenticated(d)' => d \in userConns' /\ (d \in info' => d \in members')
             /\ total' = Cardinality(Counted')
  <2>1. members' = members \cup {c} /\ info' = info \cup {c} /\ total' = total + 1
    BY <1>2, <1>5 DEF Register
  <2>2. /\ \A d \in members : d \in registered /\ cuser[d] # NoOne
        /\ \A d \in Conn : IsAuthenticated(d) => d \in userConns /\ (d \in info => d \in members)
        /\ total = Cardinality(Counted)
    BY <1>5 DEF RegistryInv, RegistryExact, Counted
  <2>3. total' = Cardinality(Counted')
    BY <1>1, <1>2, <2>1, <2>2, RegisteredOnce
  <2>4. \A d \in Conn : d # c => cuser'[d] = cuser[d] /\ state'[d] = state[d]
    BY <1>0, <1>2 DEF SessionTypeOK
  <2>5. \A d \in members' : d \in registered' /\ cuser'[d] # NoOne
    BY <1>0, <1>2, <1>4, <2>1, <2>2, <2>4 DEF SessionTypeOK
  <2>6. \A d \in Conn : IsAuthenticated(d)' => d \in userConns' /\ (d \in info' => d \in members')
    BY <1>2, <2>1, <2>2, <2>4 DEF IsAuthenticated
  <2>7. QED BY <2>3, <2>5, <2>6
<1>6. RegistryExact'
  BY <1>5 DEF RegistryExact, Counted
<1>7. Holders'
  <2>1. \A v \in Worker, s \in Session :
            IF v = home[c] /\ s = c THEN sessions'[v][s].conn = c
                                    ELSE sessions'[v][s] = sessions[v][s]
    BY <1>0, <1>1, <1>2, <1>3 DEF SessionTypeOK
  <2>2. \A d \in Conn : pc'[d] = "none" => pc[d] = "none"
    BY <1>0, <1>2 DEF TypeOK
  <2>3. pc'[c] # "none"
    BY <1>0, <1>2 DEF TypeOK
  <2>4. \A v \in Worker, s \in Session : sessions[v][s].conn \in Conn \cup {None}
    BY <1>0 DEF SessionTypeOK, SessionCopy
  <2>5. QED BY <1>2, <2>1, <2>2, <2>3, <2>4 DEF RegistryInv, Holders
<1>8. QED BY <1>6, <1>7 DEF RegistryInv, NoCrash

\* RESUME adds a member and drops the one of the connection it disconnects,
\* which keeps its user and its count until it leaves.
LEMMA ResumeRegistry ==
    ASSUME SessionManagerAssumption, TypeInv, Known, RegistryInv, NEW c \in Conn, ResumeAccepted(c)
    PROVE  RegistryInv'
<1> DEFINE w == home[c]
           s == req[c].sess
           found == GetSession(w, s)
           resumed == [found EXCEPT !.conn = c, !.sequence = ResumedSequence(found, req[c].seq),
                                    !.fresh = TRUE]
<1>0. TypeOK /\ SessionTypeOK
  BY DEF TypeInv, TypeOK
<1>1. pc[c] = "resume" /\ w \in Worker /\ cuser[c] = NoOne /\ s \in Session /\ req[c].user \in User
  <2>1. InOrder(c) /\ pc[c] = "resume" /\ req[c] \in Request
    BY <1>0 DEF ResumeAccepted, TypeInv, HandshakeOrder, TypeOK
  <2>2. req[c].op = "resume" /\ home[c] \in Worker
    BY <2>1 DEF InOrder, Handled
  <2>3. cuser[c] = NoOne
    BY <2>1, <2>2 DEF InOrder, Identified
  <2>4. QED BY <2>1, <2>2, <2>3 DEF Request
<1>2. /\ sessions' = [sessions EXCEPT ![w][s] = resumed]
      /\ cuser' = [cuser EXCEPT ![c] = req[c].user]
      /\ state' = [d \in Conn |-> IF d = c THEN "ready"
                                  ELSE IF d = found.conn /\ HeldHere(d, w) THEN "disconnected"
                                  ELSE state[d]]
      /\ userConns' = {d \in userConns : ~ (d = found.conn /\ home[d] = w)} \cup {c}
      /\ ValkeyAvailable => /\ members' = (members \cup {c}) \ DroppedMember(c, found.conn, w)
                            /\ info' = info \cup {c} /\ total' = total + 1
      /\ pc' = [pc EXCEPT ![c] = "resumed"]
      /\ UNCHANGED <<home, registered>>
  BY DEF ResumeAccepted, ResumeSession, CanResume
<1>3. found \in SessionCopy /\ found.conn \in {sessions[w][s].conn, None}
  BY <1>0, <1>1, GetSessionType, FoundHolder
<1>4. resumed.conn = c /\ found.conn \in Conn \cup {None}
  <2> HIDE DEF found
  <2> QED BY <1>3 DEF SessionCopy
<1>5. found.conn # None => home[found.conn] = w
  BY <1>1, <1>3 DEF RegistryInv, Holders
<1> HIDE DEF found, resumed
<1>6. c \in registered /\ req[c].user # NoOne
  BY <1>1 DEF Known, Present, Accepted, SessionManagerAssumption
<1>7. \A d \in Conn : d # c => cuser'[d] = cuser[d] /\ (state'[d] = "ready" => state[d] = "ready")
  BY <1>0, <1>2 DEF SessionTypeOK
<1>8. \A d \in Conn : d # c /\ d = found.conn => state'[d] # "ready"
  <2> SUFFICES ASSUME NEW d \in Conn, d # c, d = found.conn, state'[d] = "ready" PROVE FALSE
    OBVIOUS
  <2>1. state[d] = "ready" /\ ~ HeldHere(d, w)
    BY <1>2
  <2>2. d \in registered
    BY <2>1 DEF Known, Present
  <2>3. d # None
    BY RequestType DEF Session
  <2>4. QED BY <1>5, <2>1, <2>2, <2>3 DEF HeldHere
<1>9. ASSUME ValkeyAvailable
      PROVE  /\ \A d \in members' : d \in registered' /\ cuser'[d] # NoOne
             /\ \A d \in Conn : IsAuthenticated(d)' => d \in userConns' /\ (d \in info' => d \in members')
             /\ total' = Cardinality(Counted')
  <2>1. /\ \A d \in members : d \in registered /\ cuser[d] # NoOne
        /\ \A d \in Conn : IsAuthenticated(d) => d \in userConns /\ (d \in info => d \in members)
        /\ total = Cardinality(Counted)
    BY <1>9 DEF RegistryInv, RegistryExact, Counted
  <2>2. total' = Cardinality(Counted')
    BY <1>1, <1>2, <1>9, <2>1, RegisteredOnce
  <2>3. /\ members' \subseteq members \cup {c} /\ c \in members' /\ c \in userConns'
        /\ info' = info \cup {c}
        /\ \A d \in Conn : d # found.conn /\ d \in members => d \in members'
        /\ \A d \in Conn : d # found.conn /\ d \in userConns => d \in userConns'
    BY <1>2, <1>9 DEF DroppedMember
  <2>4. cuser'[c] = req[c].user
    BY <1>0, <1>2 DEF SessionTypeOK
  <2>5. \A d \in members' : d \in registered' /\ cuser'[d] # NoOne
    BY <1>0, <1>2, <1>6, <1>7, <2>1, <2>3, <2>4 DEF SessionTypeOK
  <2>6. \A d \in Conn : IsAuthenticated(d)' => d \in userConns' /\ (d \in info' => d \in members')
    <3> SUFFICES ASSUME NEW d \in Conn, IsAuthenticated(d)', d # c
                 PROVE  d \in userConns' /\ (d \in info' => d \in members')
      BY <2>3
    <3>1. IsAuthenticated(d) /\ d # found.conn
      BY <1>7, <1>8 DEF IsAuthenticated
    <3>2. QED BY <2>1, <2>3, <3>1
  <2>7. QED BY <2>2, <2>5, <2>6
<1>10. RegistryExact'
  BY <1>9 DEF RegistryExact, Counted
<1>11. Holders'
  <2>1. \A v \in Worker, r \in Session :
            IF v = w /\ r = s THEN sessions'[v][r].conn = c ELSE sessions'[v][r] = sessions[v][r]
    BY <1>0, <1>1, <1>2, <1>4 DEF SessionTypeOK
  <2>2. pc'[c] # "none" /\ \A d \in Conn : pc'[d] = "none" => pc[d] = "none"
    BY <1>0, <1>2 DEF TypeOK
  <2>3. \A v \in Worker, r \in Session : sessions[v][r].conn \in Conn \cup {None}
    BY <1>0 DEF SessionTypeOK, SessionCopy
  <2>4. QED BY <1>2, <2>1, <2>2, <2>3 DEF RegistryInv, Holders
<1>12. QED BY <1>10, <1>11 DEF RegistryInv, NoCrash

\* The finally block removes a connection once, with its count.
LEMMA FinallyRegistry ==
    ASSUME SessionManagerAssumption, TypeInv, Known, RegistryInv, NEW c \in Conn, Finally(c)
    PROVE  RegistryInv'
<1>0. TypeOK /\ SessionTypeOK /\ c \in registered
  BY DEF TypeInv, TypeOK, Known, Present, Accepted, Finally
<1>1. /\ state' = [state EXCEPT ![c] = "disconnected"] /\ RemoveConnection(c)
      /\ pc' = [pc EXCEPT ![c] = "done"]
      /\ UNCHANGED <<home, cuser, sessions>>
  BY DEF Finally
<1>2. ASSUME ValkeyAvailable
      PROVE  /\ \A d \in members' : d \in registered' /\ cuser'[d] # NoOne
             /\ \A d \in Conn : IsAuthenticated(d)' => d \in userConns' /\ (d \in info' => d \in members')
             /\ total' = Cardinality(Counted')
  <2>1. /\ \A d \in members : d \in registered /\ cuser[d] # NoOne
        /\ \A d \in Conn : IsAuthenticated(d) => d \in userConns /\ (d \in info => d \in members)
        /\ total = Cardinality(Counted)
    BY <1>2 DEF RegistryInv, RegistryExact, Counted
  <2>2. registered' = registered \ {c} /\ userConns' = userConns \ {c} /\ members' = members \ {c}
        /\ info' \subseteq info
    BY <1>1, <1>2, <2>1 DEF RemoveConnection, Unregister
  <2>3. total' = Cardinality(Counted')
    <3>1. IsFiniteSet(Counted)
      BY <1>0, CountedFinite
    <3>2. Counted' = Counted \ {c}
      BY <1>1, <2>2 DEF Counted
    <3>3. CASE cuser[c] # NoOne
      <4>1. c \in Counted /\ total' = total - 1
        BY <1>0, <1>1, <1>2, <3>3 DEF Counted, RemoveConnection, Unregister
      <4>2. Cardinality(Counted \ {c}) = Cardinality(Counted) - 1
        BY <3>1, <4>1, FS_RemoveElement
      <4>3. QED BY <2>1, <3>2, <4>1, <4>2
    <3>4. CASE cuser[c] = NoOne
      <4>1. Counted \ {c} = Counted /\ total' = total
        BY <1>1, <3>4 DEF Counted, RemoveConnection
      <4>2. QED BY <2>1, <3>2, <4>1
    <3>5. QED BY <3>3, <3>4
  <2>4. \A d \in Conn : IsAuthenticated(d)' => d # c /\ IsAuthenticated(d)
    BY <1>0, <1>1 DEF IsAuthenticated, SessionTypeOK
  <2>5. QED BY <1>1, <2>1, <2>2, <2>3, <2>4
<1>3. RegistryExact'
  BY <1>2 DEF RegistryExact, Counted
<1>4. Holders'
  <2>1. \A d \in Conn : pc'[d] = "none" => pc[d] = "none"
    BY <1>0, <1>1 DEF TypeOK
  <2>2. \A v \in Worker, s \in Session : sessions[v][s].conn \in Conn \cup {None}
    BY <1>0 DEF SessionTypeOK, SessionCopy
  <2>3. QED BY <1>1, <2>1, <2>2 DEF RegistryInv, Holders
<1>5. QED BY <1>3, <1>4 DEF RegistryInv, NoCrash

-----------------------------------------------------------------------------

\* Every step keeps the registry exact.
LEMMA StepRegistry ==
    ASSUME SessionManagerAssumption, GatewayAssumption, TypeInv, TypeInv', Known, RegistryInv,
           [Next]_vars
    PROVE  RegistryInv'
<1>1. CASE UNCHANGED vars
  <2>1. UNCHANGED <<registered, userConns, members, info, total, cuser, home, sessions, state, pc>>
    BY <1>1 DEF vars, sessionVars, connectionVars, managerVars, valkeyVars, loopVars
  <2>2. QED BY <2>1, QuietRegistry
<1>2. ASSUME NEW t \in Tab, NEW c \in Conn, NEW w \in Worker, Connect(t, c, w)
      PROVE  RegistryInv'
  BY <1>2, ConnectRegistry
<1>3. ASSUME NEW t \in Tab, Receive(t) \/ \E how \in {"lost", "closed"} : Leave(t, how)
      PROVE  RegistryInv'
  BY <1>3, TabRegistry
<1>4. ASSUME NEW c \in Conn, ServerStep(c)
      PROVE  RegistryInv'
  BY <1>4, QuietRegistrySteps, CopyRegistry, IdentifyRegistry, ResumeRegistry, FinallyRegistry
     DEF ServerStep
<1>5. ASSUME NEW c \in Conn, MonitorStep(c) \/ TaskSend(c) \/ NoticeLoss(c) \/ WindowReset(c)
      PROVE  RegistryInv'
  BY <1>5, QuietRegistrySteps DEF MonitorStep
<1>6. ASSUME NEW w \in Worker, Dispatch(w)
      PROVE  RegistryInv'
  BY <1>6, CopyRegistry
<1>7. ASSUME NEW w \in Worker, Crash(w)
      PROVE  FALSE
  BY <1>7 DEF Crash, RegistryInv, NoCrash, TypeInv, TypeOK
<1>8. CASE Expire
  BY <1>8, CopyRegistry
<1>9. QED BY <1>1, <1>2, <1>3, <1>4, <1>5, <1>6, <1>7, <1>8 DEF Next

\* As long as no worker dies, for any number of workers, and although the
\* registry's keys expire: the members of user:<id>:connections are registered
\* connections, a ready connection is one at least while its conn:<id>:info
\* lives, and stats:total_connections counts the connections with a user,
\* whoever resumes, is disconnected or leaves.
THEOREM RegistryStaysExact == NoCrash /\ Spec => []RegistryExact
<1> DEFINE IInv == TypeInv /\ Known /\ RegistryInv
<1>1. NoCrash /\ Init => IInv
  BY InitType, InitKnown, InitRegistry, SessionManagerAssumption, GatewayAssumption
<1>2. IInv /\ [Next]_vars => IInv'
  BY StepType, StepKnown, StepRegistry, SessionManagerAssumption, GatewayAssumption
<1>3. IInv => RegistryExact
  BY DEF RegistryInv
<1>4. QED BY <1>1, <1>2, <1>3, PTL DEF Spec

-----------------------------------------------------------------------------
(* One member per session                                                  *)

\* The worker's copy of a member's session points to the member; where the
\* worker has none, there is none to hydrate either.
Leads(c) ==
    /\ csess[c] # None /\ home[c] \in Worker
    /\ IF sessions[home[c]][csess[c]].held
       THEN sessions[home[c]][csess[c]].conn = c
       ELSE ~ shared[csess[c]].held

MemberInv ==
    /\ OneWorker /\ NoCrash
    /\ members # {} => ValkeyAvailable
    /\ \A c \in members : Leads(c)
    /\ OneMemberPerSession

\* A worker's copy that is there stays, or both go; one that is not there and
\* cannot be hydrated does not appear.
Settled(w, s) ==
    IF sessions[w][s].held
    THEN IF sessions'[w][s].held THEN sessions'[w][s].conn = sessions[w][s].conn
                                 ELSE ~ shared'[s].held
    ELSE ~ shared[s].held => ~ sessions'[w][s].held /\ ~ shared'[s].held

\* A step that registers nobody.
LEMMA SettledMembers ==
    ASSUME TypeInv, MemberInv, members' \subseteq members,
           \A c \in members : csess'[c] = csess[c] /\ home'[c] = home[c],
           \A w \in Worker, s \in Session : Settled(w, s)
    PROVE  MemberInv'
<1>1. \A c \in members' : Leads(c)'
  <2> SUFFICES ASSUME NEW c \in members' PROVE Leads(c)'
    OBVIOUS
  <2>0. c \in members /\ c \in Conn
    BY DEF TypeInv, TypeOK, SessionTypeOK
  <2>1. Leads(c) /\ csess[c] \in Session /\ csess'[c] = csess[c] /\ home'[c] = home[c]
    BY <2>0 DEF MemberInv, Leads, TypeInv, TypeOK, SessionTypeOK
  <2>2. Settled(home[c], csess[c])
    BY <2>1 DEF Leads
  <2>3. QED BY <2>1, <2>2 DEF Leads, Settled
<1>2. OneMemberPerSession' /\ (members' # {} => ValkeyAvailable)
  BY DEF MemberInv, OneMemberPerSession
<1>3. QED BY <1>1, <1>2 DEF MemberInv, OneWorker, NoCrash

\* The steps that leave the copies alone.
LEMMA QuietMemberSteps ==
    ASSUME TypeInv, MemberInv, NEW c \in Conn,
           \/ ReceiveRequest(c) \/ IdentifyRefused(c) \/ PresenceOnline(c) \/ LoopExit(c)
           \/ HeartbeatOnClosing(c) \/ HeartbeatClose(c) \/ HeartbeatClosed(c)
           \/ NoticeLoss(c) \/ WindowReset(c) \/ TaskSend(c) \/ ReplaySend(c)
           \/ ResumeUnauthorized(c) \/ Finally(c)
    PROVE  MemberInv'
<1>1. UNCHANGED <<csess, home, sessions, shared>>
  BY DEF ReceiveRequest, IdentifyRefused, PresenceOnline, LoopExit, HeartbeatOnClosing,
         HeartbeatClose, HeartbeatClosed, NoticeLoss, WindowReset, TaskSend, ReplaySend,
         ResumeUnauthorized, Refuse, Finally, sessionVars, connectionVars, managerVars, valkeyVars
<1>2. members' \subseteq members
  BY DEF ReceiveRequest, IdentifyRefused, PresenceOnline, LoopExit, HeartbeatOnClosing,
         HeartbeatClose, HeartbeatClosed, NoticeLoss, WindowReset, TaskSend, ReplaySend,
         ResumeUnauthorized, Refuse, Finally, RemoveConnection, Unregister,
         sessionVars, connectionVars, managerVars, valkeyVars
<1>3. QED BY <1>1, <1>2, SettledMembers DEF Settled

\* What the client does moves no member.
LEMMA ClientMembers ==
    ASSUME TypeInv, MemberInv, NEW t \in Tab,
           \/ \E c \in Conn, w \in Worker : Connect(t, c, w)
           \/ Receive(t)
           \/ \E how \in {"lost", "closed"} : Leave(t, how)
    PROVE  MemberInv'
<1>1. UNCHANGED <<csess, sessions, shared, members>>
  BY DEF Connect, AddConnection, Receive, Leave, sessionVars, connectionVars, managerVars,
         valkeyVars
<1>2. \A d \in members : home'[d] = home[d]
  <2> SUFFICES ASSUME NEW d \in members PROVE home'[d] = home[d]
    OBVIOUS
  <2>1. d \in Conn /\ pc[d] # "none"
    BY DEF MemberInv, Leads, TypeInv, TypeOK, SessionTypeOK, HandshakeOrder, InOrder, Identified
  <2>2. QED BY <2>1 DEF Connect, AddConnection, Receive, Leave, sessionVars, connectionVars,
                        TypeInv, TypeOK, SessionTypeOK
<1>3. QED BY <1>1, <1>2, SettledMembers DEF Settled

\* record_event keeps a session's connection, and hydrates no session that
\* the worker has removed.
LEMMA RecordSettled ==
    ASSUME SessionManagerAssumption, SessionTypeOK, OneWorker, NEW w \in Worker,
           NEW new \in [Session -> Seq(Numbered)], RecordEvents(w, new)
    PROVE  \A v \in Worker, s \in Session : Settled(v, s)
<1> SUFFICES ASSUME NEW s \in Session PROVE Settled(w, s)
  BY DEF OneWorker
<1>1. GetSession(w, s) \in SessionCopy /\ new[s] \in Seq(Numbered)
  BY GetSessionType
<1> DEFINE after == Recorded(GetSession(w, s), new[s])
<1>2. after.held = GetSession(w, s).held /\ after.conn = GetSession(w, s).conn
  BY <1>1, RecordedProperties
<1> HIDE DEF after
<1>3. IF new[s] # <<>> /\ GetSession(w, s).held
      THEN sessions'[w][s] = after
      ELSE sessions'[w][s] = sessions[w][s] /\ shared'[s] = shared[s]
  BY DEF RecordEvents, SessionTypeOK, after
<1>4. CASE sessions[w][s].held
  <2>1. GetSession(w, s) = sessions[w][s]
    BY <1>4 DEF GetSession
  <2>2. QED BY <1>2, <1>3, <1>4, <2>1 DEF Settled
<1>5. CASE ~ sessions[w][s].held
  <2>1. GetSession(w, s).held = shared[s].held
    BY <1>5 DEF GetSession, Hydrated, SessionTypeOK, SessionCopy
  <2>2. QED BY <1>3, <1>5, <2>1 DEF Settled
<1>6. QED BY <1>4, <1>5

\* Numbers, replays and refusals move no member.
LEMMA CopyMembers ==
    ASSUME SessionManagerAssumption, TypeInv, MemberInv,
           \/ \E c \in Conn : SendReady(c) \/ ReplayStart(c) \/ ResumeRejected(c)
           \/ \E w \in Worker : Dispatch(w)
           \/ Expire
    PROVE  MemberInv'
<1>0. TypeOK /\ SessionTypeOK /\ OneWorker
  BY DEF TypeInv, TypeOK, MemberInv
<1>1. ASSUME NEW w \in Worker, NEW s \in Session
      PROVE  /\ sessions[w][s].held => GetSession(w, s) = sessions[w][s]
             /\ ~ sessions[w][s].held => GetSession(w, s).held = shared[s].held
  BY <1>0 DEF GetSession, Hydrated, SessionTypeOK, SessionCopy
<1>2. ASSUME NEW c \in Conn, SendReady(c) PROVE MemberInv'
  <2> DEFINE f == [t |-> "READY", s |-> cseq[c] + 1, sess |-> csess[c], e |-> None]
             new == [s \in Session |-> IF s = csess[c] THEN <<f>> ELSE <<>>]
  <2>1. home[c] \in Worker /\ f \in Numbered
    BY <1>0, <1>2 DEF SendReady, TypeInv, HandshakeOrder, InOrder, Identified, Handled, Numbered,
                      Frame, SessionTypeOK
  <2>2. new \in [Session -> Seq(Numbered)]
    <3> HIDE DEF f
    <3>1. <<f>> \in Seq(Numbered) /\ <<>> \in Seq(Numbered)
      BY <2>1
    <3>2. QED BY <3>1
  <2>3. RecordEvents(home[c], new) /\ UNCHANGED <<members, csess, home>>
    BY <1>2 DEF SendReady
  <2> HIDE DEF new
  <2>4. \A v \in Worker, s \in Session : Settled(v, s)
    BY <1>0, <2>1, <2>2, <2>3, RecordSettled
  <2>5. QED BY <2>3, <2>4, SettledMembers
<1>3. ASSUME NEW w \in Worker, Dispatch(w) PROVE MemberInv'
  <2>1. NewFrames(w) \in [Session -> Seq(Numbered)]
    BY <1>3, DispatchFrames DEF Dispatch
  <2>2. RecordEvents(w, NewFrames(w)) /\ UNCHANGED <<members, csess, home>>
    BY <1>3 DEF Dispatch, NewFrames, Targets, EventFrame
  <2>3. \A v \in Worker, s \in Session : Settled(v, s)
    BY <1>0, <2>1, <2>2, RecordSettled
  <2>4. QED BY <2>2, <2>3, SettledMembers
<1>4. ASSUME NEW c \in Conn, ReplayStart(c) PROVE MemberInv'
  <2> DEFINE w == home[c]
             r == csess[c]
  <2>1. w \in Worker /\ r \in Session
    BY <1>0, <1>4 DEF ReplayStart, TypeInv, HandshakeOrder, InOrder, Identified, Handled,
                      SessionTypeOK
  <2>2. /\ sessions' = [sessions EXCEPT ![w][r] = GetSession(w, r)]
        /\ UNCHANGED <<members, csess, home, shared>>
    BY <1>4 DEF ReplayStart, connectionVars, valkeyVars
  <2> HIDE DEF w, r
  <2>3. ASSUME NEW v \in Worker, NEW s \in Session PROVE Settled(v, s)
    <3>1. sessions'[v][s] = IF v = w /\ s = r THEN GetSession(w, r) ELSE sessions[v][s]
      BY <1>0, <2>1, <2>2 DEF SessionTypeOK
    <3>2. QED BY <1>1, <2>1, <2>2, <3>1 DEF Settled
  <2>4. QED BY <2>2, <2>3, SettledMembers
<1>5. ASSUME NEW c \in Conn, ResumeRejected(c) PROVE MemberInv'
  <2> DEFINE w == home[c]
             r == req[c].sess
             found == GetSession(w, r)
             expired == found.held /\ found.user = req[c].user /\ ~ found.fresh
  <2>1. w \in Worker /\ r \in Session
    BY <1>0, <1>5 DEF ResumeRejected, TypeInv, HandshakeOrder, InOrder, Handled, Request, TypeOK
  <2>2. /\ sessions' = [sessions EXCEPT ![w][r] = IF expired THEN NoCopy ELSE found]
        /\ shared' = [shared EXCEPT ![r] = IF expired THEN NoCopy ELSE @]
        /\ UNCHANGED <<members, csess, home>>
    BY <1>5 DEF ResumeRejected, RefuseSession, Refuse, connectionVars
  <2>3. found.held /\ ~ sessions[w][r].held => shared[r].held
    BY <1>1, <2>1
  <2>4. sessions[w][r].held => found = sessions[w][r]
    BY <1>1, <2>1
  <2> HIDE DEF w, r, found, expired
  <2>5. ASSUME NEW s \in Session PROVE Settled(w, s)
    <3>1. CASE s # r
      BY <1>0, <2>1, <2>2, <3>1 DEF SessionTypeOK, Settled
    <3>2. CASE s = r /\ expired
      <4>1. sessions'[w][r] = NoCopy /\ shared'[r] = NoCopy
        BY <1>0, <2>1, <2>2, <3>2 DEF SessionTypeOK
      <4>2. QED BY <3>2, <4>1 DEF Settled, NoCopy
    <3>3. CASE s = r /\ ~ expired
      <4>1. sessions'[w][r] = found /\ shared'[r] = shared[r]
        BY <1>0, <2>1, <2>2, <3>3 DEF SessionTypeOK
      <4>2. QED BY <2>3, <2>4, <3>3, <4>1 DEF Settled
    <3>4. QED BY <3>1, <3>2, <3>3
  <2>6. \A v \in Worker, s \in Session : Settled(v, s)
    BY <1>0, <2>1, <2>5 DEF OneWorker
  <2>7. QED BY <2>2, <2>6, SettledMembers
<1>6. CASE Expire
  <2>1. members' \subseteq members /\ UNCHANGED <<csess, home>>
    BY <1>6 DEF Expire, CopyExpires, SharedExpires, InfoExpires, MembersExpire, connectionVars,
                valkeyVars
  <2>2. /\ \A w \in Worker, s \in Session : /\ sessions'[w][s].held = sessions[w][s].held
                                            /\ sessions'[w][s].conn = sessions[w][s].conn
        /\ \A s \in Session : shared'[s] \in {shared[s], NoCopy}
    BY <1>0, <1>6, ExpireEffect
  <2>3. \A w \in Worker, s \in Session : Settled(w, s)
    BY <2>2 DEF Settled, NoCopy
  <2>4. QED BY <2>1, <2>3, SettledMembers
<1>7. QED BY <1>2, <1>3, <1>4, <1>5, <1>6

\* create_session: no other member has the new session.
LEMMA IdentifyMembers ==
    ASSUME SessionManagerAssumption, TypeInv, Known, MemberInv, NEW c \in Conn, IdentifyVerified(c)
    PROVE  MemberInv'
<1> DEFINE created == [NoCopy EXCEPT !.held = TRUE, !.user = req[c].user, !.conn = c,
                                     !.fresh = TRUE]
<1>0. TypeOK /\ SessionTypeOK /\ c \in Session /\ c # None
  BY RequestType DEF TypeInv, TypeOK, Session
<1>1. pc[c] = "identify" /\ home[c] \in Worker /\ csess[c] = None
  BY <1>0 DEF IdentifyVerified, TypeInv, HandshakeOrder, InOrder, Handled, Identified
<1>2. /\ sessions' = [sessions EXCEPT ![home[c]][c] = created]
      /\ shared' = [shared EXCEPT ![c] = Persisted(c, created)]
      /\ csess' = [csess EXCEPT ![c] = c]
      /\ members' \subseteq members \cup {c}
      /\ ~ ValkeyAvailable => members' = members
      /\ UNCHANGED home
  BY DEF IdentifyVerified, CreateSession, Register
<1>3. created.conn = c /\ created.held
  BY DEF NoCopy
<1> HIDE DEF created
<1>4. \A d \in members : d \in Conn /\ d # c /\ csess'[d] = csess[d] /\ csess[d] # c
                         /\ csess[d] \in Session /\ Leads(d)
  BY <1>0, <1>1, <1>2 DEF MemberInv, Leads, Known, Created, SessionTypeOK
<1>5. csess'[c] = c
  BY <1>0, <1>2 DEF SessionTypeOK
<1>6. \A d \in members : Leads(d)'
  <2> SUFFICES ASSUME NEW d \in members PROVE Leads(d)'
    OBVIOUS
  <2>1. home[d] \in Worker
    BY <1>4 DEF Leads
  <2>2. sessions'[home[d]][csess[d]] = sessions[home[d]][csess[d]]
        /\ shared'[csess[d]] = shared[csess[d]]
    BY <1>0, <1>1, <1>2, <1>4, <2>1 DEF SessionTypeOK
  <2>3. QED BY <1>2, <1>4, <2>2 DEF Leads
<1>7. Leads(c)'
  <2>1. sessions'[home[c]][c] = created
    BY <1>0, <1>1, <1>2 DEF SessionTypeOK
  <2>2. QED BY <1>0, <1>1, <1>2, <1>3, <1>5, <2>1 DEF Leads
<1>8. OneMemberPerSession'
  BY <1>2, <1>4, <1>5 DEF MemberInv, OneMemberPerSession
<1>9. members' # {} => ValkeyAvailable
  BY <1>2 DEF MemberInv
<1>10. QED BY <1>2, <1>6, <1>7, <1>8, <1>9 DEF MemberInv, OneWorker, NoCrash

\* resume_session: the member the session had is the connection its copy
\* pointed to, and is dropped.
LEMMA ResumeMembers ==
    ASSUME SessionManagerAssumption, TypeInv, MemberInv, NEW c \in Conn, ResumeAccepted(c)
    PROVE  MemberInv'
<1> DEFINE w == home[c]
           s == req[c].sess
           found == GetSession(w, s)
           resumed == [found EXCEPT !.conn = c, !.sequence = ResumedSequence(found, req[c].seq),
                                    !.fresh = TRUE]
<1>0. TypeOK /\ SessionTypeOK
  BY DEF TypeInv, TypeOK
<1>1. w \in Worker /\ csess[c] = None /\ s \in Session /\ s # None
  <2>1. InOrder(c) /\ pc[c] = "resume" /\ req[c] \in Request
    BY <1>0 DEF ResumeAccepted, TypeInv, HandshakeOrder, TypeOK
  <2>2. req[c].op = "resume" /\ home[c] \in Worker
    BY <2>1 DEF InOrder, Handled
  <2>3. csess[c] = None
    BY <2>1, <2>2 DEF InOrder, Identified
  <2>4. QED BY <2>1, <2>2, <2>3 DEF Request
<1>2. /\ sessions' = [sessions EXCEPT ![w][s] = resumed]
      /\ shared' = [shared EXCEPT ![s] = Persisted(s, resumed)]
      /\ csess' = [csess EXCEPT ![c] = s]
      /\ IF ValkeyAvailable THEN members' = (members \cup {c}) \ DroppedMember(c, found.conn, w)
                            ELSE members' = members
      /\ found.held
      /\ UNCHANGED home
  BY DEF ResumeAccepted, ResumeSession, CanResume
<1>3. found \in SessionCopy /\ (sessions[w][s].held => found = sessions[w][s])
      /\ (~ sessions[w][s].held => shared[s].held)
  <2>1. found \in SessionCopy
    BY <1>0, <1>1, GetSessionType
  <2>2. QED BY <1>0, <1>1, <1>2, <2>1 DEF GetSession, Hydrated, SessionTypeOK, SessionCopy
<1> HIDE DEF found
<1>4. resumed.conn = c /\ resumed.held
  BY <1>2, <1>3 DEF SessionCopy
<1> HIDE DEF resumed, w, s
<1>5. \A d \in members : d \in Conn /\ d # c /\ csess'[d] = csess[d] /\ home[d] = w
                         /\ csess[d] \in Session /\ Leads(d)
  BY <1>0, <1>1, <1>2 DEF MemberInv, Leads, OneWorker, SessionTypeOK
<1>6. \A d \in members : csess[d] = s => d = found.conn
  BY <1>3, <1>5 DEF Leads
<1>7. \A d \in members' : d # c => d \in members /\ csess[d] # s
  <2> SUFFICES ASSUME NEW d \in members', d # c, csess[d] = s PROVE FALSE
    BY <1>2
  <2>1. d \in members
    BY <1>2
  <2>2. d = found.conn /\ home[d] = w /\ d # None
    BY <1>5, <1>6, <2>1, RequestType DEF Session
  <2>3. d \in DroppedMember(c, found.conn, w)
    BY <2>2 DEF DroppedMember
  <2>4. ValkeyAvailable
    BY <2>1 DEF MemberInv
  <2>5. QED BY <1>2, <2>3, <2>4
<1>8. csess'[c] = s /\ sessions'[w][s] = resumed
  BY <1>0, <1>1, <1>2 DEF SessionTypeOK
<1>9. Leads(c)'
  BY <1>1, <1>2, <1>4, <1>8 DEF Leads, w
<1>10. ASSUME NEW d \in members', d # c PROVE Leads(d)'
  <2>1. d \in members /\ csess[d] # s /\ Leads(d)
    BY <1>5, <1>7, <1>10
  <2>2. sessions'[w][csess[d]] = sessions[w][csess[d]] /\ shared'[csess[d]] = shared[csess[d]]
    BY <1>0, <1>1, <1>2, <1>5, <2>1 DEF SessionTypeOK
  <2>3. QED BY <1>2, <1>5, <2>1, <2>2 DEF Leads
<1>11. OneMemberPerSession'
  <2>1. \A d, e \in members : csess[d] = csess[e] => d = e
    BY DEF MemberInv, OneMemberPerSession
  <2>2. QED BY <1>5, <1>7, <1>8, <2>1 DEF OneMemberPerSession
<1>12. members' # {} => ValkeyAvailable
  BY <1>2 DEF MemberInv
<1>13. QED BY <1>9, <1>10, <1>11, <1>12 DEF MemberInv, OneWorker, NoCrash

\* Every step leaves a session at most one member.
LEMMA StepMembers ==
    ASSUME SessionManagerAssumption, TypeInv, Known, MemberInv, [Next]_vars
    PROVE  MemberInv'
<1>1. CASE UNCHANGED vars
  <2>1. UNCHANGED <<members, csess, home, sessions, shared>>
    BY <1>1 DEF vars, sessionVars, connectionVars, managerVars, valkeyVars
  <2>2. QED BY <2>1, SettledMembers DEF Settled
<1>2. ASSUME NEW t \in Tab,
             \/ \E c \in Conn, w \in Worker : Connect(t, c, w)
             \/ Receive(t)
             \/ \E how \in {"lost", "closed"} : Leave(t, how)
      PROVE  MemberInv'
  BY <1>2, ClientMembers
<1>3. ASSUME NEW c \in Conn, ServerStep(c)
      PROVE  MemberInv'
  BY <1>3, QuietMemberSteps, CopyMembers, IdentifyMembers, ResumeMembers DEF ServerStep
<1>4. ASSUME NEW c \in Conn, MonitorStep(c) \/ TaskSend(c) \/ NoticeLoss(c) \/ WindowReset(c)
      PROVE  MemberInv'
  BY <1>4, QuietMemberSteps DEF MonitorStep
<1>5. ASSUME NEW w \in Worker, Dispatch(w)
      PROVE  MemberInv'
  BY <1>5, CopyMembers
<1>6. ASSUME NEW w \in Worker, Crash(w)
      PROVE  FALSE
  BY <1>6 DEF Crash, MemberInv, NoCrash, TypeInv, TypeOK
<1>7. CASE Expire
  BY <1>7, CopyMembers
<1>8. QED BY <1>1, <1>2, <1>3, <1>4, <1>5, <1>6, <1>7 DEF Next

\* With one worker that does not die, a session counts once against its
\* user's limit, however often it is resumed, expires or is refused:
\* _valkey_drop_connection_member removes exactly the member it had.
THEOREM OneMember == OneWorker /\ NoCrash /\ Spec => []OneMemberPerSession
<1>1. OneWorker /\ NoCrash /\ Init => TypeInv /\ Known /\ MemberInv
  <2>1. OneWorker /\ NoCrash /\ Init => MemberInv
    BY DEF Init, SessionInit, MemberInv, OneMemberPerSession
  <2>2. QED BY <2>1, InitType, InitKnown, SessionManagerAssumption, GatewayAssumption
<1>2. TypeInv /\ Known /\ MemberInv /\ [Next]_vars => (TypeInv /\ Known /\ MemberInv)'
  BY StepType, StepKnown, StepMembers, SessionManagerAssumption, GatewayAssumption
<1>3. TypeInv /\ Known /\ MemberInv => OneMemberPerSession
  BY DEF MemberInv
<1>4. QED BY <1>1, <1>2, <1>3, PTL DEF Spec
=============================================================================
