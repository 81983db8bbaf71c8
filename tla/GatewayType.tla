---------------------------- MODULE GatewayType ----------------------------
(***************************************************************************)
(* Facts about the operators SessionManager.tla and Gateway.tla compute     *)
(* with, and type correctness of Gateway.tla, for every value of the        *)
(* constants.                                                              *)
(***************************************************************************)
EXTENDS GatewayProperties, FiniteSetTheorems, SequenceTheorems,
        WellFoundedInduction, TLAPS

\* A set of naturals has a least element; every induction below is this fact,
\* applied to the set of the counterexamples.
LEMMA LeastNat ==
    ASSUME NEW T \in SUBSET Nat, T # {}
    PROVE  \E x \in T : \A y \in T : x <= y
<1> DEFINE R == {ss \in Nat \X Nat : ss[1] < ss[2]}
<1>1. IsWellFoundedOn(R, Nat)
  BY NatLessThanWellFounded DEF OpToRel
<1>2. \A x, y \in Nat : y < x => <<y, x>> \in R
  OBVIOUS
<1> HIDE DEF R
<1>3. PICK x \in T : \A y \in T : ~ (<<y, x>> \in R)
  BY <1>1, WFMin
<1>4. \A y \in T : x \in Nat /\ y \in Nat /\ ~ (y < x)
  BY <1>2, <1>3
<1>5. \A y \in T : x <= y
  BY <1>4
<1>6. QED BY <1>5

\* FramesAfter lists those of the frames it is given that are above the number
\* it is given: a RESUME replays what is buffered and was missed, all of it and
\* nothing else.
LEMMA FramesAfterType ==
    ASSUME NEW S, NEW frames \in Seq(S), NEW n
    PROVE  /\ FramesAfter(frames, n) \in Seq(S)
           /\ \A j \in DOMAIN FramesAfter(frames, n) :
                  /\ FramesAfter(frames, n)[j].s > n
                  /\ \E i \in DOMAIN frames : FramesAfter(frames, n)[j] = frames[i]
           /\ \A i \in DOMAIN frames : frames[i].s > n =>
                  \E j \in DOMAIN FramesAfter(frames, n) : FramesAfter(frames, n)[j] = frames[i]
<1> DEFINE N == Len(frames)
           Step(x, i) == IF frames[i].s > n THEN Append(x, frames[i]) ELSE x
           Defines(g, m) == g = [i \in 0 .. m |-> IF i = 0 THEN <<>> ELSE Step(g[i-1], i)]
           Good(x, m) == /\ x \in Seq(S)
                         /\ \A j \in DOMAIN x : /\ x[j].s > n
                                                /\ \E i \in DOMAIN frames : x[j] = frames[i]
                         /\ \A i \in 1 .. m : frames[i].s > n => \E j \in DOMAIN x : x[j] = frames[i]
<1>0. N \in Nat /\ DOMAIN frames = 1 .. N /\ \A i \in 1 .. N : frames[i] \in S
  OBVIOUS
<1>1. \A x, i : i \in 1 .. N /\ Good(x, i - 1) => Good(Step(x, i), i)
  <2> HIDE DEF Good, Step
  <2> SUFFICES ASSUME NEW x, NEW i \in 1 .. N, Good(x, i - 1)
               PROVE  Good(Step(x, i), i)
    OBVIOUS
  <2> USE DEF Good, Step
  <2>0. \A k \in 1 .. i : k \in 1 .. i - 1 \/ k = i
    BY <1>0
  <2>1. CASE frames[i].s > n
    <3>1. Step(x, i) = Append(x, frames[i]) /\ Append(x, frames[i]) \in Seq(S)
      BY <1>0, <2>1
    <3>2. \A j \in DOMAIN Append(x, frames[i]) :
              \/ j \in DOMAIN x /\ Append(x, frames[i])[j] = x[j]
              \/ Append(x, frames[i])[j] = frames[i]
      BY <1>0
    <3>3. /\ \A j \in DOMAIN x : /\ j \in DOMAIN Append(x, frames[i])
                                 /\ Append(x, frames[i])[j] = x[j]
          /\ \E j \in DOMAIN Append(x, frames[i]) : Append(x, frames[i])[j] = frames[i]
      <4>1. Len(x) + 1 \in DOMAIN Append(x, frames[i])
            /\ Append(x, frames[i])[Len(x) + 1] = frames[i]
        OBVIOUS
      <4>2. \A j \in DOMAIN x : /\ j \in DOMAIN Append(x, frames[i])
                               /\ Append(x, frames[i])[j] = x[j]
        BY <1>0
      <4>3. QED BY <4>1, <4>2
    <3>4. \A k \in 1 .. i : frames[k].s > n =>
              \E j \in DOMAIN Append(x, frames[i]) : Append(x, frames[i])[j] = frames[k]
      BY <2>0, <3>3
    <3>5. \A j \in DOMAIN Append(x, frames[i]) :
              /\ Append(x, frames[i])[j].s > n
              /\ \E k \in DOMAIN frames : Append(x, frames[i])[j] = frames[k]
      BY <1>0, <2>1, <3>2
    <3>6. Good(Append(x, frames[i]), i)
      BY <3>1, <3>4, <3>5
    <3>7. QED BY <3>1, <3>6
  <2>2. CASE ~ (frames[i].s > n)
    BY <2>0, <2>2
  <2>3. QED BY <2>1, <2>2
<1> HIDE DEF Good, Step
<1>2. \A g, m : m \in 0 .. N /\ Defines(g, m) => Good(g[m], m)
  <2> SUFFICES ASSUME NEW g, NEW m \in 0 .. N, Defines(g, m), ~ Good(g[m], m)
               PROVE  FALSE
    OBVIOUS
  <2> DEFINE Bad == {k \in 0 .. m : ~ Good(g[k], k)}
  <2>1. Bad \in SUBSET Nat /\ m \in Bad
    BY <1>0
  <2>2. PICK k \in Bad : \A y \in Bad : k <= y
    <3> HIDE DEF Bad
    <3> QED BY <2>1, LeastNat
  <2>3. CASE k = 0
    <3>1. g[0] = <<>>
      BY <1>0
    <3>2. Good(<<>>, 0)
      BY DEF Good
    <3>3. QED BY <2>2, <2>3, <3>1, <3>2
  <2>4. CASE k # 0
    <3>1. k-1 \in 0 .. m /\ k-1 \notin Bad /\ k \in 1 .. N /\ g[k] = Step(g[k-1], k)
      BY <1>0, <2>2, <2>4
    <3>2. QED BY <1>1, <2>2, <3>1
  <2>5. QED BY <2>3, <2>4
<1>3. \A m \in 0 .. N : \E g : Defines(g, m)
  <2> SUFFICES ASSUME NEW m0 \in 0 .. N, ~ \E g : Defines(g, m0)
               PROVE  FALSE
    OBVIOUS
  <2> DEFINE Bad == {m \in 0 .. N : ~ \E g : Defines(g, m)}
  <2>1. Bad \in SUBSET Nat /\ m0 \in Bad
    BY <1>0
  <2>2. PICK m \in Bad : \A y \in Bad : m <= y
    <3> HIDE DEF Bad
    <3> QED BY <2>1, LeastNat
  <2>3. CASE m = 0
    <3>1. Defines([i \in 0 .. 0 |-> <<>>], 0)
      OBVIOUS
    <3>2. QED BY <2>2, <2>3, <3>1
  <2>4. CASE m # 0
    <3>0. m \in Nat /\ m \in 0 .. N /\ m-1 \in 0 .. N /\ ~ (m <= m-1)
      BY <1>0, <2>4
    <3>1. m-1 \notin Bad
      <4> HIDE DEF Bad
      <4> QED BY <2>2, <3>0
    <3>2. PICK g : Defines(g, m-1)
      <4> HIDE DEF Defines
      <4> QED BY <3>0, <3>1
    <3> DEFINE h == [i \in 0 .. m |-> IF i = m THEN Step(g[m-1], m) ELSE g[i]]
    <3>3. \A i \in 0 .. m : h[i] = IF i = 0 THEN <<>> ELSE Step(h[i-1], i)
      <4> SUFFICES ASSUME NEW i \in 0 .. m
                   PROVE  h[i] = IF i = 0 THEN <<>> ELSE Step(h[i-1], i)
        OBVIOUS
      <4>1. CASE i = m
        <5>1. m-1 \in 0 .. m /\ m-1 # m
          BY <3>0
        <5>2. QED BY <2>4, <4>1, <5>1
      <4>2. CASE i # m
        <5>1. i \in 0 .. m-1 /\ (i # 0 => i-1 \in 0 .. m /\ i-1 # m)
          BY <2>4, <3>0, <4>2
        <5>2. h[i] = g[i] /\ (i # 0 => h[i-1] = g[i-1])
          BY <4>2, <5>1
        <5>3. QED BY <3>2, <5>1, <5>2
      <4>3. QED BY <4>1, <4>2
    <3>4. Defines(h, m)
      BY <3>3
    <3>5. QED BY <2>2, <3>4
  <2>5. QED BY <2>3, <2>4
<1>4. Good(FramesAfter(frames, n), N)
  <2> DEFINE F == CHOOSE g : Defines(g, N)
  <2>1. Defines(F, N)
    BY <1>0, <1>3
  <2>2. Good(F[N], N)
    <3> HIDE DEF F
    <3> QED BY <1>0, <1>2, <2>1
  <2>3. FramesAfter(frames, n) = F[N]
    BY DEF FramesAfter, Step
  <2>4. QED BY <2>2, <2>3
<1>5. QED BY <1>0, <1>4 DEF Good

\* A finite, nonempty set of naturals has a greatest element, and Max is it.
LEMMA MaxOfFinite ==
    ASSUME NEW T \in SUBSET Nat, IsFiniteSet(T), T # {}
    PROVE  Max(T) \in T /\ \A y \in T : y <= Max(T)
<1> DEFINE HasMax(U) == \E x \in U : \A y \in U : y <= x
           Bad == {n \in Nat : \E U \in SUBSET Nat : /\ IsFiniteSet(U) /\ U # {}
                                                   /\ Cardinality(U) = n /\ ~ HasMax(U)}
<1>1. Bad = {}
  <2> SUFFICES ASSUME Bad # {} PROVE FALSE
    OBVIOUS
  <2>1. PICK n \in Bad : \A k \in Bad : n <= k
    <3>1. Bad \in SUBSET Nat
      OBVIOUS
    <3> HIDE DEF Bad
    <3>2. QED BY <3>1, LeastNat
  <2>2. PICK U \in SUBSET Nat : /\ IsFiniteSet(U) /\ U # {}
                                /\ Cardinality(U) = n /\ ~ HasMax(U)
    BY <2>1
  <2>3. PICK x \in U : TRUE
    BY <2>2
  <2> DEFINE V == U \ {x}
  <2>4. IsFiniteSet(V) /\ Cardinality(V) = n - 1 /\ n \in Nat
    BY <2>1, <2>2, <2>3, FS_RemoveElement
  <2>5. V # {}
    <3> SUFFICES ASSUME V = {} PROVE FALSE
      OBVIOUS
    <3>1. \A y \in U : y = x
      BY <2>3
    <3>2. x \in Nat /\ x <= x
      BY <2>2, <2>3
    <3>3. QED BY <2>2, <2>3, <3>1, <3>2
  <2>6. n - 1 \in Nat /\ n - 1 \notin Bad
    <3>1. n - 1 \in Nat /\ ~ (n <= n - 1)
      <4>1. Cardinality(V) \in Nat
        BY <2>4, FS_CardinalityType
      <4>2. QED BY <2>4, <4>1
    <3> HIDE DEF Bad
    <3>2. QED BY <2>1, <3>1
  <2>7. HasMax(V)
    <3> HIDE DEF HasMax
    <3>1. V \in SUBSET Nat
      OBVIOUS
    <3>2. QED BY <2>4, <2>5, <2>6, <3>1
  <2>8. PICK m \in V : \A y \in V : y <= m
    BY <2>7
  <2>9. HasMax(U)
    <3>1. CASE x <= m
      <4>1. \A y \in U : y <= m
        BY <2>8, <3>1
      <4>2. QED BY <2>8, <4>1
    <3>2. CASE ~ (x <= m)
      <4>1. \A y \in U : y <= x
        BY <2>3, <2>8, <3>2
      <4>2. QED BY <2>3, <4>1
    <3>3. QED BY <3>1, <3>2
  <2>10. QED BY <2>2, <2>9
<1>2. HasMax(T)
  <2>1. Cardinality(T) \in Nat
    BY FS_CardinalityType
  <2>2. QED BY <1>1, <2>1
<1>3. PICK x \in T : \A y \in T : x >= y
  BY <1>2
<1>4. Max(T) \in T /\ \A y \in T : Max(T) >= y
  BY <1>3 DEF Max
<1>5. QED BY <1>4

\* SetToSeq lists each element of a finite set.
LEMMA SetToSeqLists ==
    ASSUME NEW T, IsFiniteSet(T)
    PROVE  /\ SetToSeq(T) \in Seq(T)
           /\ \A x \in T : \E i \in DOMAIN SetToSeq(T) : SetToSeq(T)[i] = x
<1> DEFINE N == Cardinality(T)
<1>1. N \in Nat /\ ExistsBijection(1 .. N, T)
  BY FS_CardinalityType
<1>2. PICK g \in Bijection(1 .. N, T) : TRUE
  BY <1>1 DEF ExistsBijection
<1>3. g \in [1 .. N -> T] /\ IsInjective(g)
  BY <1>2 DEF Bijection, Injection
<1>4. SetToSeq(T) \in [1 .. N -> T] /\ IsInjective(SetToSeq(T))
  BY <1>3 DEF SetToSeq
<1>5. SetToSeq(T) \in Injection(1 .. N, T)
  BY <1>4 DEF Injection
<1>6. IsFiniteSet(1 .. N) /\ Cardinality(1 .. N) = N
  BY <1>1, FS_Interval
<1>7. SetToSeq(T) \in Surjection(1 .. N, T)
  BY <1>5, <1>6, FS_Injection
<1>8. \A x \in T : \E i \in 1 .. N : SetToSeq(T)[i] = x
  BY <1>7 DEF Surjection
<1>9. SetToSeq(T) \in Seq(T) /\ DOMAIN SetToSeq(T) = 1 .. N
  BY <1>1, <1>4
<1>10. QED BY <1>8, <1>9

\* What add_replay_event keeps are frames it was given.
LEMMA LatestType ==
    ASSUME NEW S, NEW frames \in Seq(S), SessionManagerAssumption
    PROVE  /\ Latest(frames) \in Seq(S)
           /\ \A j \in DOMAIN Latest(frames) :
                  \E i \in DOMAIN frames : Latest(frames)[j] = frames[i]
<1>1. MaxReplay \in Nat
  BY DEF SessionManagerAssumption
<1>2. CASE Len(frames) > MaxReplay
  <2> DEFINE from == Len(frames) - MaxReplay + 1
  <2>1. from \in 1 .. Len(frames) + 1 /\ Latest(frames) = SubSeq(frames, from, Len(frames))
    BY <1>1, <1>2 DEF Latest
  <2>2. /\ SubSeq(frames, from, Len(frames)) \in Seq(S)
        /\ Len(SubSeq(frames, from, Len(frames))) = Len(frames) - from + 1
        /\ \A j \in 1 .. Len(frames) - from + 1 :
               /\ from + j - 1 \in DOMAIN frames
               /\ SubSeq(frames, from, Len(frames))[j] = frames[from + j - 1]
    BY <1>1, <1>2
  <2>3. QED BY <2>1, <2>2
<1>3. CASE ~ (Len(frames) > MaxReplay)
  BY <1>3 DEF Latest
<1>4. QED BY <1>2, <1>3

\* Connections are finitely many.
LEMMA ConnFinite ==
    ASSUME SessionManagerAssumption
    PROVE  IsFiniteSet(Conn)
BY FS_Interval DEF Conn, SessionManagerAssumption

\* record_event raises a session's sequence to the greatest number it
\* recorded, and to no other.
LEMMA RecordedProperties ==
    ASSUME SessionManagerAssumption,
           NEW copy \in SessionCopy, NEW frames \in Seq(Numbered)
    PROVE  LET r == Recorded(copy, frames)
           IN  /\ r \in SessionCopy
               /\ r.held = copy.held /\ r.user = copy.user /\ r.conn = copy.conn
               /\ r.sequence >= copy.sequence
               /\ \A i \in DOMAIN frames : r.sequence >= frames[i].s
               /\ \/ r.sequence = copy.sequence
                  \/ \E i \in DOMAIN frames : r.sequence = frames[i].s
               /\ \A j \in DOMAIN r.replay :
                     \/ \E i \in DOMAIN copy.replay : r.replay[j] = copy.replay[i]
                     \/ \E i \in DOMAIN frames : r.replay[j] = frames[i]
<1> DEFINE numbers == {frames[i].s : i \in DOMAIN frames}
           all     == {copy.sequence} \cup numbers
           joined  == copy.replay \o frames
<1>1. copy.sequence \in Nat /\ copy.replay \in Seq(Numbered)
  BY DEF SessionCopy
<1>2. numbers \in SUBSET Nat /\ IsFiniteSet(numbers)
  <2>1. IsFiniteSet(DOMAIN frames)
    BY FS_Interval
  <2>2. \A i \in DOMAIN frames : frames[i].s \in Nat
    <3>1. \A i \in DOMAIN frames : frames[i] \in Numbered
      OBVIOUS
    <3>2. \A f \in Numbered : f.s \in Nat
      BY DEF Numbered, Frame
    <3>3. QED BY <3>1, <3>2
  <2>3. [i \in DOMAIN frames |-> frames[i].s] \in Surjection(DOMAIN frames, numbers)
    BY DEF Surjection
  <2>4. IsFiniteSet(numbers)
    BY <2>1, <2>3, FS_Surjection
  <2>5. QED BY <2>2, <2>4
<1>3. all \in SUBSET Nat /\ all # {} /\ IsFiniteSet(all)
  <2>1. IsFiniteSet(numbers \cup {copy.sequence})
    BY <1>2, FS_AddElement
  <2>2. numbers \cup {copy.sequence} = all
    OBVIOUS
  <2>3. IsFiniteSet(all)
    BY <2>1, <2>2
  <2>4. QED BY <1>1, <1>2, <2>3
<1>4. Max(all) \in all /\ \A y \in all : y <= Max(all)
  <2> HIDE DEF all
  <2> QED BY <1>3, MaxOfFinite
<1>5. joined \in Seq(Numbered)
      /\ \A i \in DOMAIN joined :
             \/ \E k \in DOMAIN copy.replay : joined[i] = copy.replay[k]
             \/ \E k \in DOMAIN frames : joined[i] = frames[k]
  <2>1. joined \in Seq(Numbered) /\ Len(joined) = Len(copy.replay) + Len(frames)
    BY <1>1
  <2>2. \A i \in 1 .. Len(copy.replay) : joined[i] = copy.replay[i]
    BY <1>1
  <2>3. \A i \in 1 .. Len(joined) : i > Len(copy.replay) =>
            i - Len(copy.replay) \in 1 .. Len(frames)
            /\ joined[i] = frames[i - Len(copy.replay)]
    BY <1>1, <2>1
  <2>4. \A i \in DOMAIN joined : i \in 1 .. Len(copy.replay) \/ i > Len(copy.replay)
    BY <1>1, <2>1
  <2>5. DOMAIN joined = 1 .. Len(joined) /\ DOMAIN frames = 1 .. Len(frames)
        /\ DOMAIN copy.replay = 1 .. Len(copy.replay)
    BY <1>1, <2>1
  <2>6. QED BY <2>1, <2>2, <2>3, <2>4, <2>5
<1>6. /\ Latest(joined) \in Seq(Numbered)
      /\ \A j \in DOMAIN Latest(joined) : \E i \in DOMAIN joined : Latest(joined)[j] = joined[i]
  <2> HIDE DEF joined
  <2> QED BY <1>5, LatestType
<1>7. Recorded(copy, frames) = [copy EXCEPT !.replay = Latest(joined), !.sequence = Max(all),
                                            !.fresh = TRUE]
  BY DEF Recorded
<1> HIDE DEF joined, all
<1>8. /\ Recorded(copy, frames) \in SessionCopy
      /\ Recorded(copy, frames).held = copy.held
      /\ Recorded(copy, frames).user = copy.user
      /\ Recorded(copy, frames).conn = copy.conn
      /\ Recorded(copy, frames).sequence = Max(all)
      /\ Recorded(copy, frames).replay = Latest(joined)
  BY <1>3, <1>4, <1>6, <1>7 DEF SessionCopy
<1>9. /\ Max(all) >= copy.sequence
      /\ \A i \in DOMAIN frames : Max(all) >= frames[i].s
      /\ Max(all) = copy.sequence \/ \E i \in DOMAIN frames : Max(all) = frames[i].s
  BY <1>1, <1>2, <1>3, <1>4 DEF all
<1>10. \A j \in DOMAIN Latest(joined) :
          \/ \E i \in DOMAIN copy.replay : Latest(joined)[j] = copy.replay[i]
          \/ \E i \in DOMAIN frames : Latest(joined)[j] = frames[i]
  BY <1>5, <1>6
<1>11. QED BY <1>8, <1>9, <1>10

-----------------------------------------------------------------------------
(* The typing invariant and its proof.                                     *)

\* A connection has a user exactly when it has a session, and a ready one has
\* both; a connection whose handshake is still to be handled has neither.
Identified(c) ==
    /\ csess[c] = None <=> cuser[c] = NoOne
    /\ state[c] = "ready" \/ pc[c] \in {"presence", "ready", "resumed", "replay"}
           => csess[c] # None
    /\ pc[c] = "none" \/ (req[c].op # "none" /\ pc[c] # "resumed") => csess[c] = None

\* A handler only runs on the frame it is for, on an accepted connection.
Handled(c) ==
    /\ pc[c] \in {"identify", "resume"} => req[c].op = pc[c]
    /\ pc[c] = "resumed" => req[c].op = "resume"
    /\ pc[c] = "replay" => replayq[c] # <<>>
    /\ pc[c] # "none" => home[c] \in Worker

\* A refused RESUME is answered once, and the client identifies after that.
Refusals(c) == {i \in DOMAIN wire[c] : wire[c][i].t = "INVALID_SESSION"}

RefusedOnce(c) ==
    /\ Refusals(c) # {} => pc[c] # "none" /\ req[c].op = "none" /\ csess[c] = None
    /\ \A i, j \in Refusals(c) : i = j

\* Why no handler meets a value it cannot take.
InOrder(c) == Identified(c) /\ Handled(c) /\ RefusedOnce(c)
HandshakeOrder == \A c \in Conn : InOrder(c)

TypeInv == TypeOK /\ HandshakeOrder

-----------------------------------------------------------------------------
(* The operators                                                           *)

\* The handshake frames the client sends are requests.
LEMMA RequestType ==
    ASSUME SessionManagerAssumption
    PROVE  /\ NoRequest \in Request
           /\ \A u \in User : Identify(u) \in Request
           /\ \A u \in User, s \in Session, n \in Nat : Resume(u, s, n) \in Request
           /\ None \notin Session
BY DEF SessionManagerAssumption, NoRequest, Identify, Resume, Request, None, Session, Conn

\* The copy get_session returns is a session.
LEMMA GetSessionType ==
    ASSUME SessionTypeOK, NEW w \in Worker, NEW s \in Session
    PROVE  GetSession(w, s) \in SessionCopy
<1>1. sessions[w][s] \in SessionCopy /\ shared[s] \in SessionCopy
  BY DEF SessionTypeOK
<1>2. \A copy \in SessionCopy :
         [copy EXCEPT !.conn = None, !.fresh = copy.held] \in SessionCopy
  BY DEF SessionCopy
<1>3. QED BY <1>1, <1>2 DEF GetSession, Hydrated

\* The absence of a session is a session record.
LEMMA NoCopyType == NoCopy \in SessionCopy
BY DEF NoCopy, SessionCopy

\* What _persist_session leaves in Valkey is a session.
LEMMA PersistedType ==
    ASSUME SessionTypeOK, NEW s \in Session, NEW copy \in SessionCopy
    PROVE  Persisted(s, copy) \in SessionCopy
BY DEF SessionTypeOK, Persisted, SessionCopy

\* record_event keeps the types of both copies of every session.
LEMMA RecordEventsType ==
    ASSUME SessionManagerAssumption, SessionTypeOK,
           NEW w \in Worker, NEW new \in [Session -> Seq(Numbered)], RecordEvents(w, new)
    PROVE  /\ sessions' \in [Worker -> [Session -> SessionCopy]]
           /\ shared' \in [Session -> SessionCopy]
<1> DEFINE changed == {s \in Session : new[s] # <<>> /\ GetSession(w, s).held}
           after(s) == Recorded(GetSession(w, s), new[s])
<1>1. \A s \in Session : after(s) \in SessionCopy
  BY GetSessionType, RecordedProperties
<1>2. \A s \in Session : Persisted(s, after(s)) \in SessionCopy
  <2> HIDE DEF after
  <2> QED BY <1>1, PersistedType
<1>3. /\ sessions' = [sessions EXCEPT ![w] =
                [s \in Session |-> IF s \in changed THEN after(s) ELSE @[s]]]
      /\ shared' = [s \in Session |->
                IF s \in changed THEN Persisted(s, after(s)) ELSE shared[s]]
  BY DEF RecordEvents
<1> HIDE DEF changed, after
<1>4. QED BY <1>1, <1>2, <1>3 DEF SessionTypeOK

\* send_json adds a frame to the wire or does nothing.
LEMMA WrittenType ==
    ASSUME TypeOK, NEW c \in Conn, NEW f \in Frame
    PROVE  Written(c, f) \in [Conn -> Seq(Frame)]
BY DEF TypeOK, Written

\* add_connection, create_session, resume_session and a refusal keep the
\* types of the session manager's state.
LEMMA AddConnectionType ==
    ASSUME SessionTypeOK, NEW c \in Conn, NEW w \in Worker, AddConnection(c, w)
    PROVE  SessionTypeOK'
BY DEF SessionTypeOK, AddConnection, States, valkeyVars

\* create_session keeps the manager's types.
LEMMA CreateSessionType ==
    ASSUME SessionManagerAssumption, SessionTypeOK,
           NEW c \in Conn, home[c] \in Worker, NEW u \in User, CreateSession(c, u)
    PROVE  SessionTypeOK'
<1> DEFINE created == [NoCopy EXCEPT !.held = TRUE, !.user = u, !.conn = c, !.fresh = TRUE]
<1>1. created \in SessionCopy
  BY NoCopyType DEF SessionCopy
<1>2. Persisted(c, created) \in SessionCopy
  <2> HIDE DEF created
  <2> QED BY <1>1, PersistedType DEF Session
<1>3. /\ sessions' = [sessions EXCEPT ![home[c]][c] = created]
      /\ shared' = [shared EXCEPT ![c] = Persisted(c, created)]
  BY DEF CreateSession
<1> HIDE DEF created
<1>4. /\ sessions' \in [Worker -> [Session -> SessionCopy]]
      /\ shared' \in [Session -> SessionCopy]
  BY <1>1, <1>2, <1>3 DEF SessionTypeOK, Session
<1>5. members' \in SUBSET Conn /\ info' \in SUBSET Conn /\ total' \in Int
  BY DEF SessionTypeOK, CreateSession, Register
<1>6. QED BY <1>4, <1>5 DEF SessionTypeOK, CreateSession, States, Session

\* resume_session keeps the manager's types.
LEMMA ResumeSessionType ==
    ASSUME SessionManagerAssumption, SessionTypeOK, NEW c \in Conn, home[c] \in Worker,
           NEW s \in Session, NEW n \in Nat, ResumeSession(c, s, n)
    PROVE  SessionTypeOK'
<1> DEFINE found   == GetSession(home[c], s)
           old     == found.conn
           resumed == [found EXCEPT !.conn = c, !.sequence = ResumedSequence(found, n),
                                    !.fresh = TRUE]
<1>1. found \in SessionCopy
  BY GetSessionType
<1>2. resumed \in SessionCopy /\ resumed.sequence \in Nat
  <2>1. ResumedSequence(found, n) \in Nat
    BY <1>1 DEF SessionCopy, ResumedSequence, Larger
  <2> HIDE DEF found
  <2>2. QED BY <1>1, <2>1 DEF SessionCopy
<1>3. Persisted(s, resumed) \in SessionCopy
  <2> HIDE DEF resumed
  <2> QED BY <1>2, PersistedType
<1>4. /\ sessions' = [sessions EXCEPT ![home[c]][s] = resumed]
      /\ shared' = [shared EXCEPT ![s] = Persisted(s, resumed)]
      /\ state' = [d \in Conn |-> IF d = c THEN "ready"
                                  ELSE IF d = old /\ HeldHere(d, home[c]) THEN "disconnected"
                                  ELSE state[d]]
      /\ userConns' = {d \in userConns : ~ (d = old /\ home[d] = home[c])} \cup {c}
      /\ cuser' = [cuser EXCEPT ![c] = found.user]
      /\ csess' = [csess EXCEPT ![c] = s]
      /\ cseq' = [cseq EXCEPT ![c] = resumed.sequence]
      /\ UNCHANGED <<home, registered>>
      /\ \/ /\ members' = (members \cup {c}) \ DroppedMember(c, old, home[c])
            /\ info' = info \cup {c} /\ total' = total + 1
         \/ UNCHANGED <<members, info, total>>
  BY DEF ResumeSession
<1>5. found.user \in User \cup {NoOne}
  BY <1>1 DEF SessionCopy
<1> HIDE DEF found, old, resumed
<1>6. /\ sessions' \in [Worker -> [Session -> SessionCopy]]
      /\ shared' \in [Session -> SessionCopy]
  BY <1>2, <1>3, <1>4 DEF SessionTypeOK
<1>7. /\ state' \in [Conn -> States]
      /\ userConns' \in SUBSET Conn /\ registered' \in SUBSET Conn
  BY <1>4 DEF SessionTypeOK, States
<1>8. /\ cuser' \in [Conn -> User \cup {NoOne}] /\ csess' \in [Conn -> Session \cup {None}]
      /\ cseq' \in [Conn -> Nat] /\ home' \in [Conn -> Worker \cup {NoOne}]
  BY <1>2, <1>4, <1>5 DEF SessionTypeOK
<1>9. members' \in SUBSET Conn /\ info' \in SUBSET Conn /\ total' \in Int
  BY <1>4 DEF SessionTypeOK
<1>10. QED BY <1>6, <1>7, <1>8, <1>9 DEF SessionTypeOK

\* A refused can_resume_session keeps the manager's types.
LEMMA RefuseSessionType ==
    ASSUME SessionTypeOK, NEW w \in Worker, NEW s \in Session, NEW u, RefuseSession(w, s, u)
    PROVE  /\ sessions' \in [Worker -> [Session -> SessionCopy]]
           /\ shared' \in [Session -> SessionCopy]
<1> DEFINE found == GetSession(w, s)
<1>1. found \in SessionCopy
  BY GetSessionType
<1>2. /\ \E copy \in {NoCopy, found} : sessions' = [sessions EXCEPT ![w][s] = copy]
      /\ \E copy \in {NoCopy, shared[s]} : shared' = [shared EXCEPT ![s] = copy]
  BY DEF RefuseSession
<1> HIDE DEF found
<1>3. QED BY <1>1, <1>2, NoCopyType DEF SessionTypeOK

\* remove_connection keeps the types of the registry.
LEMMA RemoveConnectionType ==
    ASSUME SessionTypeOK, NEW c \in Conn, RemoveConnection(c)
    PROVE  /\ registered' \in SUBSET Conn /\ userConns' \in SUBSET Conn
           /\ members' \in SUBSET Conn /\ info' \in SUBSET Conn /\ total' \in Int
BY DEF SessionTypeOK, RemoveConnection, Unregister

\* Idle time and the death of a worker keep them too.
LEMMA CopyExpiresType ==
    ASSUME SessionTypeOK, NEW w \in Worker, NEW s \in Session, CopyExpires(w, s)
    PROVE  SessionTypeOK'
<1>1. [sessions[w][s] EXCEPT !.fresh = FALSE] \in SessionCopy
  <2>1. sessions[w][s] \in SessionCopy
    BY DEF SessionTypeOK
  <2>2. \A copy \in SessionCopy : [copy EXCEPT !.fresh = FALSE] \in SessionCopy
    BY DEF SessionCopy
  <2>3. QED BY <2>1, <2>2
<1>2. sessions' = [sessions EXCEPT ![w] =
                      [@ EXCEPT ![s] = [sessions[w][s] EXCEPT !.fresh = FALSE]]]
  BY DEF CopyExpires, SessionTypeOK
<1>3. sessions' \in [Worker -> [Session -> SessionCopy]]
  BY <1>1, <1>2 DEF SessionTypeOK
<1>4. QED BY <1>3 DEF SessionTypeOK, CopyExpires, connectionVars, valkeyVars

\* The expiry of a Valkey key keeps the manager's types.
LEMMA SharedExpiresType ==
    ASSUME SessionTypeOK, NEW s \in Session, SharedExpires(s)
    PROVE  SessionTypeOK'
BY NoCopyType DEF SessionTypeOK, SharedExpires, connectionVars, managerVars

\* The registry's TTLs only take members and info away.
LEMMA RegistryExpiresType ==
    ASSUME SessionTypeOK,
           (\E c \in Conn : InfoExpires(c)) \/ (\E u \in User : MembersExpire(u))
    PROVE  SessionTypeOK'
BY DEF SessionTypeOK, InfoExpires, MembersExpire, connectionVars, managerVars

\* The death of a worker keeps the manager's types.
LEMMA LoseWorkerType ==
    ASSUME SessionTypeOK, NEW w \in Worker, LoseWorker(w)
    PROVE  SessionTypeOK'
BY NoCopyType DEF SessionTypeOK, LoseWorker, States, valkeyVars

-----------------------------------------------------------------------------
(* What an action does to the order of a handshake                         *)

USE DEF sessionVars, connectionVars, managerVars, valkeyVars, loopVars, socketVars,
        sendVars, clientVars, eventVars

\* Writing a frame that is no refusal leaves the refusals alone, writing a
\* refusal adds one.
LEMMA WrittenRefusals ==
    ASSUME TypeOK, NEW c \in Conn, NEW f \in Frame, wire' = Written(c, f), NEW d \in Conn
    PROVE  /\ d # c \/ f.t # "INVALID_SESSION" => Refusals(d)' = Refusals(d)
           /\ Refusals(d)' \subseteq Refusals(d) \cup {Len(wire[d]) + 1}
<1>1. wire[d] \in Seq(Frame) /\ wire[c] \in Seq(Frame)
  BY DEF TypeOK
<1>2. CASE wire'[d] = wire[d]
  BY <1>2 DEF Refusals
<1>3. CASE d = c /\ wire'[d] = Append(wire[d], f)
  <2>1. /\ DOMAIN wire'[d] = 1 .. Len(wire[d]) + 1 /\ DOMAIN wire[d] = 1 .. Len(wire[d])
        /\ \A i \in 1 .. Len(wire[d]) : wire'[d][i] = wire[d][i]
        /\ wire'[d][Len(wire[d]) + 1] = f
        /\ Len(wire[d]) \in Nat
    BY <1>1, <1>3
  <2>2. QED BY <1>3, <2>1 DEF Refusals
<1>4. wire'[d] = wire[d] \/ (d = c /\ wire'[d] = Append(wire[d], f))
  BY DEF Written, TypeOK
<1>5. QED BY <1>2, <1>3, <1>4

-----------------------------------------------------------------------------
(* The client's actions                                                    *)

LEMMA InitType ==
    ASSUME SessionManagerAssumption, GatewayAssumption, Init
    PROVE  TypeInv
<1>1. SessionTypeOK
  BY NoCopyType DEF Init, SessionInit, SessionTypeOK, States, SessionManagerAssumption, None
<1>2. TypeOK
  BY <1>1, RequestType DEF Init, SessionInit, TypeOK, Steps, GatewayAssumption,
                           SessionManagerAssumption
<1>3. HandshakeOrder
  BY DEF Init, SessionInit, HandshakeOrder, InOrder, Identified, Handled, RefusedOnce, Refusals, NoRequest
<1>4. QED BY <1>2, <1>3 DEF TypeInv

\* A connection that is accepted starts with one unanswered frame.
LEMMA ConnectType ==
    ASSUME SessionManagerAssumption, GatewayAssumption, TypeInv,
           NEW t \in Tab, NEW c \in Conn, NEW w \in Worker, Connect(t, c, w)
    PROVE  TypeInv'
<1>1. SessionTypeOK'
  BY AddConnectionType DEF Connect, TypeInv, TypeOK
<1>2. req' \in [Conn -> Request]
  <2>1. UserOf[t] \in User /\ tseq[t] \in Nat /\ tsess[t] \in Session \cup {None}
    BY DEF GatewayAssumption, TypeInv, TypeOK
  <2>2. Identify(UserOf[t]) \in Request
        /\ (tsess[t] # None => Resume(UserOf[t], tsess[t], tseq[t]) \in Request)
    BY <2>1, RequestType
  <2>3. QED BY <2>2 DEF Connect, TypeInv, TypeOK
<1>3. TypeOK'
  BY <1>1, <1>2 DEF Connect, TypeInv, TypeOK, Steps, sendVars, eventVars
<1>4. HandshakeOrder'
  <2> SUFFICES ASSUME NEW d \in Conn PROVE InOrder(d)'
    BY DEF HandshakeOrder
  <2>1. InOrder(d)
    BY DEF TypeInv, HandshakeOrder
  <2>2. Refusals(d)' = Refusals(d)
    BY DEF Connect, Refusals
  <2>3. Identified(d)' /\ Handled(d)'
    BY <2>1 DEF Connect, AddConnection, TypeInv, TypeOK, SessionTypeOK, InOrder,
                Identified, Handled, Identify, Resume
  <2>4. RefusedOnce(d)'
    <3>1. d = c => Refusals(d) = {}
      BY <2>1 DEF Connect, InOrder, RefusedOnce
    <3>2. d # c => pc'[d] = pc[d] /\ req'[d] = req[d] /\ csess'[d] = csess[d]
      BY DEF Connect, AddConnection, TypeInv, TypeOK
    <3>3. QED BY <2>1, <2>2, <3>1, <3>2 DEF InOrder, RefusedOnce
  <2>5. QED BY <2>3, <2>4 DEF InOrder
<1>5. QED BY <1>3, <1>4 DEF TypeInv

\* A tab takes a frame; a refusal it takes was the last of its socket,
\* so its new IDENTIFY is the only unanswered frame.
LEMMA ReceiveType ==
    ASSUME SessionManagerAssumption, GatewayAssumption, TypeInv,
           NEW t \in Tab, Receive(t)
    PROVE  TypeInv'
<1> DEFINE c == tconn[t]
           f == Head(wire[c])
<1>1. c \in Conn /\ wire[c] \in Seq(Frame) /\ wire[c] # <<>>
  BY DEF Receive, TypeInv, TypeOK
<1>2. f \in Frame /\ Tail(wire[c]) \in Seq(Frame)
  BY <1>1
<1>3. /\ f.s \in Nat
      /\ f.t = "READY" => f.sess \in Session
      /\ f.t = "EVENT" => f.e \in Event
  <2> HIDE DEF f
  <2> QED BY <1>2 DEF Frame
<1>4. /\ UserOf[t] \in User /\ Identify(UserOf[t]) \in Request
  BY RequestType DEF GatewayAssumption
<1>5. /\ wire' = [wire EXCEPT ![c] = Tail(@)]
      /\ tseq' = [tseq EXCEPT ![t] = IF f.s # 0 THEN f.s ELSE @]
      /\ tsess' = [tsess EXCEPT ![t] = IF f.t = "READY" THEN f.sess
                                       ELSE IF f.t = "INVALID_SESSION" THEN None
                                       ELSE @]
      /\ req' = [req EXCEPT ![c] = IF f.t = "INVALID_SESSION" THEN Identify(UserOf[t]) ELSE @]
      /\ got' = [got EXCEPT ![t] = IF f.t = "EVENT" THEN @ \cup {f.e} ELSE @]
      /\ UNCHANGED <<sessionVars, loopVars, sock, sendVars, tconn, eventVars>>
  BY DEF Receive
<1> HIDE DEF c, f
<1>6. SessionTypeOK'
  BY <1>5 DEF TypeInv, TypeOK, SessionTypeOK, sessionVars, connectionVars, managerVars, valkeyVars
<1>7. wire' \in [Conn -> Seq(Frame)] /\ req' \in [Conn -> Request]
  BY <1>1, <1>2, <1>4, <1>5 DEF TypeInv, TypeOK
<1>8. tseq' \in [Tab -> Nat] /\ tsess' \in [Tab -> Session \cup {None}]
      /\ got' \in [Tab -> SUBSET Event]
  BY <1>3, <1>5 DEF TypeInv, TypeOK
<1>9. TypeOK'
  BY <1>5, <1>6, <1>7, <1>8 DEF TypeInv, TypeOK, loopVars, sendVars, eventVars
<1>10. HandshakeOrder'
  <2> SUFFICES ASSUME NEW d \in Conn PROVE InOrder(d)'
    BY DEF HandshakeOrder
  <2>1. InOrder(d)
    BY DEF TypeInv, HandshakeOrder
  <2>2. CASE d # c
    BY <1>5, <2>1, <2>2 DEF TypeInv, TypeOK, InOrder, Identified, Handled, RefusedOnce, Refusals
  <2>3. CASE d = c
    <3>0. /\ wire[d] \in Seq(Frame) /\ wire[d] # <<>> /\ wire'[d] = Tail(wire[d])
          /\ UNCHANGED <<sessionVars, loopVars, sendVars>>
          /\ req'[d] = IF f.t = "INVALID_SESSION" THEN Identify(UserOf[t]) ELSE req[d]
      BY <1>1, <1>5, <2>3 DEF TypeInv, TypeOK
    <3>1. \A i \in Refusals(d)' : i \in Nat /\ i # 0 /\ i + 1 \in Refusals(d)
      <4>1. DOMAIN Tail(wire[d]) = 1 .. Len(wire[d]) - 1 /\ Len(wire[d]) \in Nat
            /\ DOMAIN wire[d] = 1 .. Len(wire[d])
            /\ \A i \in 1 .. Len(wire[d]) - 1 : Tail(wire[d])[i] = wire[d][i+1]
        BY <3>0
      <4>2. QED BY <3>0, <4>1 DEF Refusals
    <3>2. CASE f.t = "INVALID_SESSION"
      <4>1. 1 \in Refusals(d)
        <5>1. f = wire[d][1] /\ 1 \in DOMAIN wire[d]
          BY <2>3, <3>0 DEF f
        <5>2. QED BY <3>2, <5>1 DEF Refusals
      <4>2. Refusals(d)' = {}
        <5> SUFFICES ASSUME NEW i \in Refusals(d)' PROVE FALSE
          OBVIOUS
        <5>1. i + 1 = 1 /\ i \in Nat /\ i # 0
          BY <2>1, <3>1, <4>1 DEF InOrder, RefusedOnce
        <5>2. QED BY <5>1
      <4>3. csess[d] = None /\ req[d].op = "none" /\ pc[d] # "none"
        BY <2>1, <4>1 DEF InOrder, RefusedOnce
      <4>4. req'[d].op = "identify"
        BY <3>0, <3>2 DEF Identify
      <4>5. QED BY <2>1, <3>0, <4>2, <4>3, <4>4 DEF InOrder, Identified, Handled, RefusedOnce
    <3>3. CASE f.t # "INVALID_SESSION"
      <4>1. req'[d] = req[d]
        BY <3>0, <3>3
      <4>2. Refusals(d)' # {} => Refusals(d) # {}
        BY <3>1
      <4>3. \A i, j \in Refusals(d)' : i = j
        <5>1. \A i, j \in Refusals(d)' : i + 1 = j + 1 /\ i \in Nat /\ j \in Nat
          BY <2>1, <3>1 DEF InOrder, RefusedOnce
        <5>2. QED BY <5>1
      <4>4. QED BY <2>1, <3>0, <4>1, <4>2, <4>3 DEF InOrder, Identified, Handled, RefusedOnce
    <3>4. QED BY <3>2, <3>3
  <2>4. QED BY <2>2, <2>3
<1>11. QED BY <1>9, <1>10 DEF TypeInv
\* A tab leaves its socket; no handler notices.
LEMMA LeaveType ==
    ASSUME SessionManagerAssumption, GatewayAssumption, TypeInv,
           NEW t \in Tab, NEW how \in {"lost", "closed"}, Leave(t, how)
    PROVE  TypeInv'
<1> DEFINE c == tconn[t]
<1>1. /\ c \in Conn
      /\ sock' = [sock EXCEPT ![c] = IF @ = "open" THEN how ELSE @]
      /\ wire' = [wire EXCEPT ![c] = <<>>]
      /\ tconn' = [tconn EXCEPT ![t] = None]
      /\ UNCHANGED <<sessionVars, loopVars, req, sendVars, tsess, tseq, got, eventVars>>
  BY DEF Leave, TypeInv, TypeOK
<1> HIDE DEF c
<1>2. TypeOK'
  BY <1>1 DEF TypeInv, TypeOK, SessionTypeOK
<1>3. HandshakeOrder'
  <2> SUFFICES ASSUME NEW d \in Conn PROVE InOrder(d)'
    BY DEF HandshakeOrder
  <2>1. InOrder(d)
    BY DEF TypeInv, HandshakeOrder
  <2>2. Refusals(d)' = Refusals(d) \/ Refusals(d)' = {}
    BY <1>1 DEF Refusals, TypeInv, TypeOK
  <2>3. QED BY <1>1, <2>1, <2>2 DEF InOrder, Identified, Handled, RefusedOnce
<1>4. QED BY <1>2, <1>3 DEF TypeInv

\* A lost socket is found closed; no handler notices.
LEMMA NoticeLossType ==
    ASSUME SessionManagerAssumption, GatewayAssumption, TypeInv, NEW c \in Conn, NoticeLoss(c)
    PROVE  TypeInv'
<1>1. TypeOK'
  BY DEF NoticeLoss, TypeInv, TypeOK, SessionTypeOK, Steps, States
<1>2. HandshakeOrder'
  <2> SUFFICES ASSUME NEW d \in Conn PROVE InOrder(d)'
    BY DEF HandshakeOrder
  <2>1. InOrder(d)
    BY DEF TypeInv, HandshakeOrder
  <2>2. Refusals(d)' = Refusals(d)
    BY DEF NoticeLoss, Refusals
  <2>3. QED BY <2>1, <2>2 DEF NoticeLoss, TypeInv, TypeOK, SessionTypeOK, InOrder, Identified,
                              Handled, RefusedOnce
<1>3. QED BY <1>1, <1>2 DEF TypeInv

-----------------------------------------------------------------------------
(* The message loop and its handlers                                       *)

LEMMA ReceiveRequestType ==
    ASSUME SessionManagerAssumption, GatewayAssumption, TypeInv, NEW c \in Conn, ReceiveRequest(c)
    PROVE  TypeInv'
<1>1. TypeOK'
  BY DEF ReceiveRequest, TypeInv, TypeOK, SessionTypeOK, Steps, States, Request
<1>2. HandshakeOrder'
  <2> SUFFICES ASSUME NEW d \in Conn PROVE InOrder(d)'
    BY DEF HandshakeOrder
  <2>1. InOrder(d)
    BY DEF TypeInv, HandshakeOrder
  <2>2. Refusals(d)' = Refusals(d)
    BY DEF ReceiveRequest, Refusals
  <2>3. QED BY <2>1, <2>2 DEF ReceiveRequest, Request, TypeInv, TypeOK, SessionTypeOK, InOrder, Identified,
                              Handled, RefusedOnce
<1>3. QED BY <1>1, <1>2 DEF TypeInv

\* A refused IDENTIFY ends the connection with its frame answered.
LEMMA IdentifyRefusedType ==
    ASSUME SessionManagerAssumption, GatewayAssumption, TypeInv, NEW c \in Conn, IdentifyRefused(c)
    PROVE  TypeInv'
<1>1. TypeOK'
  BY DEF IdentifyRefused, TypeInv, TypeOK, SessionTypeOK, Steps, States, CloseAndExit, NoRequest, Request, None
<1>2. HandshakeOrder'
  <2> SUFFICES ASSUME NEW d \in Conn PROVE InOrder(d)'
    BY DEF HandshakeOrder
  <2>1. InOrder(d)
    BY DEF TypeInv, HandshakeOrder
  <2>2. Refusals(d)' = Refusals(d)
    BY DEF IdentifyRefused, Refusals
  <2>3. QED BY <2>1, <2>2 DEF IdentifyRefused, CloseAndExit, NoRequest, TypeInv, TypeOK, SessionTypeOK, InOrder, Identified,
                              Handled, RefusedOnce
<1>3. QED BY <1>1, <1>2 DEF TypeInv

\* An accepted IDENTIFY gives the connection its user and session.
LEMMA IdentifyVerifiedType ==
    ASSUME SessionManagerAssumption, GatewayAssumption, TypeInv, NEW c \in Conn,
           IdentifyVerified(c)
    PROVE  TypeInv'
<1> DEFINE u == req[c].user
<1>1. InOrder(c) /\ pc[c] = "identify" /\ req[c] \in Request
  BY DEF TypeInv, TypeOK, HandshakeOrder, IdentifyVerified
<1>2. u \in User /\ u # NoOne /\ home[c] \in Worker /\ csess[c] = None /\ Refusals(c) = {}
  BY <1>1 DEF InOrder, Identified, Handled, RefusedOnce, Request, SessionManagerAssumption
<1>3. SessionTypeOK'
  <2> HIDE DEF u
  <2>1. CreateSession(c, u)
    BY DEF IdentifyVerified, u
  <2>2. QED BY <1>2, <2>1, CreateSessionType DEF TypeInv, TypeOK
<1>4. TypeOK'
  BY <1>3, RequestType DEF IdentifyVerified, TypeInv, TypeOK, Steps
<1>5. HandshakeOrder'
  <2> SUFFICES ASSUME NEW d \in Conn PROVE InOrder(d)'
    BY DEF HandshakeOrder
  <2>1. InOrder(d)
    BY DEF TypeInv, HandshakeOrder
  <2>2. Refusals(d)' = Refusals(d)
    BY DEF IdentifyVerified, Refusals
  <2>3. c # None /\ NoRequest.op = "none"
    BY RequestType DEF NoRequest, Session
  <2>4. /\ csess' = [csess EXCEPT ![c] = c] /\ cuser' = [cuser EXCEPT ![c] = u]
        /\ state' = [state EXCEPT ![c] = "ready"] /\ home' = home
        /\ pc' = [pc EXCEPT ![c] = "presence"] /\ req' = [req EXCEPT ![c] = NoRequest]
        /\ replayq' = replayq
    BY DEF IdentifyVerified, CreateSession
  <2> HIDE DEF u
  <2>5. QED BY <1>2, <2>1, <2>2, <2>3, <2>4 DEF TypeInv, TypeOK, SessionTypeOK, InOrder,
                                                 Identified, Handled, RefusedOnce
<1>6. QED BY <1>4, <1>5 DEF TypeInv

\* The presence promoted is that of a known user.
LEMMA PresenceOnlineType ==
    ASSUME SessionManagerAssumption, GatewayAssumption, TypeInv, NEW c \in Conn, PresenceOnline(c)
    PROVE  TypeInv'
<1>1. TypeOK'
  BY DEF PresenceOnline, TypeInv, TypeOK, SessionTypeOK, Steps, States
<1>2. HandshakeOrder'
  <2> SUFFICES ASSUME NEW d \in Conn PROVE InOrder(d)'
    BY DEF HandshakeOrder
  <2>1. InOrder(d)
    BY DEF TypeInv, HandshakeOrder
  <2>2. Refusals(d)' = Refusals(d)
    BY DEF PresenceOnline, Refusals
  <2>3. QED BY <2>1, <2>2 DEF PresenceOnline, TypeInv, TypeOK, SessionTypeOK, InOrder, Identified,
                              Handled, RefusedOnce
<1>3. QED BY <1>1, <1>2 DEF TypeInv

\* READY belongs to a session and takes a number of it.
LEMMA SendReadyType ==
    ASSUME SessionManagerAssumption, GatewayAssumption, TypeInv, NEW c \in Conn, SendReady(c)
    PROVE  TypeInv'
<1> DEFINE f == [t |-> "READY", s |-> cseq[c] + 1, sess |-> csess[c], e |-> None]
           new == [s \in Session |-> IF s = csess[c] THEN <<f>> ELSE <<>>]
<1>1. InOrder(c) /\ pc[c] = "ready" /\ cseq[c] \in Nat /\ csess[c] \in Session \cup {None}
  BY DEF TypeInv, TypeOK, SessionTypeOK, HandshakeOrder, SendReady
<1>2. csess[c] \in Session /\ csess[c] # None /\ home[c] \in Worker
  BY <1>1 DEF InOrder, Identified, Handled
<1>3. f \in Numbered /\ f \in Frame /\ f.t # "INVALID_SESSION"
  BY <1>1, <1>2 DEF Numbered, Frame
<1>4. /\ wire' = Written(c, f) /\ RecordEvents(home[c], new)
      /\ cseq' = [cseq EXCEPT ![c] = @ + 1]
      /\ numbered' = numbered \cup {[sess |-> csess[c], n |-> cseq[c] + 1, e |-> None]}
      /\ pc' = [pc EXCEPT ![c] = NextRead(c)]
      /\ UNCHANGED <<home, state, cuser, csess, registered, userConns, members, info,
                     total, mon, sock, req, sendVars, clientVars, presence, cursor, crashes>>
  BY DEF SendReady
<1>5. new \in [Session -> Seq(Numbered)]
  <2> HIDE DEF f
  <2>1. <<f>> \in Seq(Numbered) /\ <<>> \in Seq(Numbered)
    BY <1>3
  <2>2. QED BY <2>1
<1> HIDE DEF f, new
<1>6. /\ sessions' \in [Worker -> [Session -> SessionCopy]]
      /\ shared' \in [Session -> SessionCopy]
  BY <1>2, <1>4, <1>5, RecordEventsType DEF TypeInv, TypeOK
<1>7. wire' \in [Conn -> Seq(Frame)]
  BY <1>3, <1>4, WrittenType DEF TypeInv
<1>8. [sess |-> csess[c], n |-> cseq[c] + 1, e |-> None] \in Numbering
  BY <1>1, <1>2 DEF Numbering
<1>9. TypeOK'
  <2>1. NextRead(c) \in Steps
    BY DEF NextRead, Steps
  <2>2. cseq' \in [Conn -> Nat] /\ numbered' \in SUBSET Numbering
        /\ pc' \in [Conn -> Steps]
    BY <1>1, <1>4, <1>8, <2>1 DEF TypeInv, TypeOK, SessionTypeOK
  <2>3. SessionTypeOK'
    BY <1>4, <1>6, <2>2 DEF TypeInv, TypeOK, SessionTypeOK
  <2>4. QED BY <1>4, <1>7, <2>2, <2>3 DEF TypeInv, TypeOK
<1>10. HandshakeOrder'
  <2> SUFFICES ASSUME NEW d \in Conn PROVE InOrder(d)'
    BY DEF HandshakeOrder
  <2>1. InOrder(d)
    BY DEF TypeInv, HandshakeOrder
  <2>2. Refusals(d)' = Refusals(d)
    BY <1>3, <1>4, WrittenRefusals DEF TypeInv
  <2>3. NextRead(c) \in {"exit", "receive"}
    BY DEF NextRead
  <2>4. pc'[d] = IF d = c THEN NextRead(c) ELSE pc[d]
    BY <1>4 DEF TypeInv, TypeOK
  <2>5. QED BY <1>1, <1>2, <1>4, <2>1, <2>2, <2>3, <2>4 DEF InOrder, Identified, Handled,
                                                         RefusedOnce
<1>11. QED BY <1>9, <1>10 DEF TypeInv

\* A refused RESUME is answered with the one refusal on the wire.
LEMMA RefuseType ==
    ASSUME SessionManagerAssumption, GatewayAssumption, TypeInv, NEW c \in Conn,
           pc[c] = "resume", Refuse(c),
           sessions' \in [Worker -> [Session -> SessionCopy]],
           shared' \in [Session -> SessionCopy]
    PROVE  TypeInv'
<1>1. InvalidSession \in Frame
  BY DEF InvalidSession, Frame
<1>2. wire' = Written(c, InvalidSession)
  BY DEF Refuse
<1>3. wire' \in [Conn -> Seq(Frame)]
  BY <1>1, <1>2, WrittenType DEF TypeInv
<1>4. TypeOK'
  BY <1>3, RequestType DEF Refuse, TypeInv, TypeOK, SessionTypeOK, Steps, NextRead
<1>5. HandshakeOrder'
  <2> SUFFICES ASSUME NEW d \in Conn PROVE InOrder(d)'
    BY DEF HandshakeOrder
  <2>1. InOrder(d)
    BY DEF TypeInv, HandshakeOrder
  <2>2. /\ Refusals(d)' \subseteq Refusals(d) \cup {Len(wire[d]) + 1}
        /\ d # c => Refusals(d)' = Refusals(d)
    BY <1>1, <1>2, WrittenRefusals DEF TypeInv
  <2>3. CASE d # c
    BY <2>1, <2>2, <2>3 DEF Refuse, TypeInv, TypeOK, InOrder, Identified, Handled, RefusedOnce
  <2>4. CASE d = c
    <3>1. Refusals(d) = {} /\ csess[d] = None
      BY <2>1, <2>4 DEF InOrder, Identified, Handled, RefusedOnce
    <3>2. \A i, j \in Refusals(d)' : i = j
      BY <2>2, <3>1
    <3>3. req'[d].op = "none"
      BY <2>4 DEF Refuse, NoRequest, TypeInv, TypeOK
    <3>4. QED BY <2>1, <2>4, <3>1, <3>2, <3>3 DEF Refuse, TypeInv, TypeOK, SessionTypeOK, NextRead,
                                          InOrder, Identified, Handled, RefusedOnce
  <2>5. QED BY <2>3, <2>4
<1>6. QED BY <1>4, <1>5 DEF TypeInv

\* A RESUME with a refused token is answered once.
LEMMA ResumeUnauthorizedType ==
    ASSUME SessionManagerAssumption, GatewayAssumption, TypeInv, NEW c \in Conn,
           ResumeUnauthorized(c)
    PROVE  TypeInv'
BY RefuseType DEF ResumeUnauthorized, TypeInv, TypeOK, SessionTypeOK

\* The session a RESUME names, and the worker that handles it.
LEMMA ResumeNames ==
    ASSUME TypeInv, NEW c \in Conn, pc[c] = "resume"
    PROVE  /\ home[c] \in Worker
           /\ req[c].sess \in Session /\ req[c].sess # None
           /\ req[c].user # NoOne /\ req[c].seq \in Nat
           /\ csess[c] = None /\ Refusals(c) = {}
<1>1. InOrder(c) /\ req[c] \in Request
  BY DEF TypeInv, TypeOK, HandshakeOrder
<1>2. QED BY <1>1 DEF InOrder, Identified, Handled, RefusedOnce, Request

\* A RESUME that can_resume_session refuses is answered once.
LEMMA ResumeRejectedType ==
    ASSUME SessionManagerAssumption, GatewayAssumption, TypeInv, NEW c \in Conn,
           ResumeRejected(c)
    PROVE  TypeInv'
<1>1. pc[c] = "resume" /\ Refuse(c) /\ RefuseSession(home[c], req[c].sess, req[c].user)
  BY DEF ResumeRejected
<1>2. /\ sessions' \in [Worker -> [Session -> SessionCopy]]
      /\ shared' \in [Session -> SessionCopy]
  BY <1>1, ResumeNames, RefuseSessionType DEF TypeInv, TypeOK
<1>3. QED BY <1>1, <1>2, RefuseType

\* An accepted RESUME gives the connection the session's user.
LEMMA ResumeAcceptedType ==
    ASSUME SessionManagerAssumption, GatewayAssumption, TypeInv, NEW c \in Conn,
           ResumeAccepted(c)
    PROVE  TypeInv'
<1> DEFINE s == req[c].sess
           found == GetSession(home[c], s)
           f == [t |-> "RESUMED", s |-> cseq'[c], sess |-> s, e |-> None]
<1>1. /\ pc[c] = "resume" /\ ResumeSession(c, s, req[c].seq)
      /\ found.user = req[c].user
      /\ wire' = IF sock[c] = "open" THEN [wire EXCEPT ![c] = Append(@, f)] ELSE wire
      /\ pc' = [pc EXCEPT ![c] = "resumed"]
      /\ UNCHANGED <<mon, sock, req, sendVars, clientVars, eventVars>>
  BY DEF ResumeAccepted, CanResume
<1>2. InOrder(c)
  BY DEF TypeInv, HandshakeOrder
<1>3. /\ home[c] \in Worker /\ s \in Session /\ s # None /\ found.user # NoOne
      /\ req[c].seq \in Nat /\ Refusals(c) = {}
  BY <1>1, ResumeNames
<1>4. /\ cuser' = [cuser EXCEPT ![c] = found.user] /\ csess' = [csess EXCEPT ![c] = s]
      /\ \A d \in Conn : state'[d] = "ready" => d = c \/ state[d] = "ready"
      /\ home' = home
  BY <1>1 DEF ResumeSession
<1> HIDE DEF s, found
<1>5. SessionTypeOK'
  BY <1>1, <1>3, ResumeSessionType DEF TypeInv, TypeOK
<1>6. f \in Frame /\ f.t # "INVALID_SESSION"
  BY <1>3, <1>5 DEF SessionTypeOK, Frame
<1> HIDE DEF f
<1>7. TypeOK'
  BY <1>1, <1>5, <1>6 DEF TypeInv, TypeOK, Steps
<1>8. HandshakeOrder'
  <2> SUFFICES ASSUME NEW d \in Conn PROVE InOrder(d)'
    BY DEF HandshakeOrder
  <2>1. InOrder(d)
    BY DEF TypeInv, HandshakeOrder
  <2>2. Refusals(d)' = Refusals(d)
    <3>1. CASE wire'[d] = wire[d]
      BY <3>1 DEF Refusals
    <3>2. CASE wire'[d] = Append(wire[d], f)
      <4>1. /\ DOMAIN wire'[d] = 1 .. Len(wire[d]) + 1 /\ DOMAIN wire[d] = 1 .. Len(wire[d])
            /\ \A i \in 1 .. Len(wire[d]) : wire'[d][i] = wire[d][i]
            /\ wire'[d][Len(wire[d]) + 1] = f
            /\ Len(wire[d]) \in Nat
        BY <1>6, <3>2 DEF TypeInv, TypeOK
      <4>2. QED BY <1>6, <4>1 DEF Refusals
    <3>3. wire'[d] = wire[d] \/ wire'[d] = Append(wire[d], f)
      BY <1>1 DEF TypeInv, TypeOK
    <3>4. QED BY <3>1, <3>2, <3>3
  <2>3. CASE d = c
    <3>1. pc'[c] = "resumed" /\ cuser'[c] = found.user /\ csess'[c] = s
      BY <1>1, <1>4 DEF TypeInv, TypeOK, SessionTypeOK
    <3>2. req' = req /\ home' = home /\ req[c].op = "resume"
      BY <1>1, <1>2, <1>4 DEF InOrder, Handled
    <3>3. QED BY <1>3, <2>2, <2>3, <3>1, <3>2 DEF InOrder, Identified, Handled, RefusedOnce
  <2>4. CASE d # c
    <3>1. pc'[d] = pc[d] /\ cuser'[d] = cuser[d] /\ csess'[d] = csess[d]
          /\ (state'[d] = "ready" => state[d] = "ready")
      BY <1>1, <1>4, <2>4 DEF TypeInv, TypeOK, SessionTypeOK
    <3>2. UNCHANGED <<req, home, replayq>>
      BY <1>1, <1>4 DEF sendVars
    <3>3. QED BY <2>1, <2>2, <3>1, <3>2 DEF InOrder, Identified, Handled, RefusedOnce
  <2>5. QED BY <2>3, <2>4
<1>9. QED BY <1>7, <1>8 DEF TypeInv

\* replay_events takes numbered frames of the connection's session.
LEMMA ReplayStartType ==
    ASSUME SessionManagerAssumption, GatewayAssumption, TypeInv, NEW c \in Conn, ReplayStart(c)
    PROVE  TypeInv'
<1> DEFINE copy   == GetSession(home[c], csess[c])
           missed == Missed(copy, req[c].seq)
<1>1. InOrder(c) /\ pc[c] = "resumed"
  BY DEF TypeInv, HandshakeOrder, ReplayStart
<1>2. home[c] \in Worker /\ csess[c] \in Session
  BY <1>1 DEF TypeInv, TypeOK, SessionTypeOK, InOrder, Identified, Handled
<1>3. copy \in SessionCopy
  BY <1>2, GetSessionType DEF TypeInv, TypeOK
<1>4. missed \in Seq(Numbered)
  <2> HIDE DEF copy
  <2>1. copy.replay \in Seq(Numbered)
    BY <1>3 DEF SessionCopy
  <2>2. QED BY <2>1, FramesAfterType DEF Missed
<1>5. /\ sessions' = [sessions EXCEPT ![home[c]][csess[c]] = copy]
      /\ replayq' = [replayq EXCEPT ![c] = missed]
      /\ \E step \in {"exit", "receive", "replay"} :
            /\ pc' = [pc EXCEPT ![c] = step]
            /\ step = "replay" => missed # <<>>
      /\ req' = [req EXCEPT ![c] = NoRequest]
      /\ UNCHANGED <<connectionVars, registered, userConns, valkeyVars, mon, sock, wire,
                     tasks, sent, clientVars, eventVars>>
  BY DEF ReplayStart, NextRead
<1> HIDE DEF copy, missed
<1>6. sessions' \in [Worker -> [Session -> SessionCopy]]
  BY <1>2, <1>3, <1>5 DEF TypeInv, TypeOK, SessionTypeOK
<1>7. TypeOK'
  BY <1>4, <1>5, <1>6, RequestType DEF TypeInv, TypeOK, SessionTypeOK, Steps
<1>8. HandshakeOrder'
  <2> SUFFICES ASSUME NEW d \in Conn PROVE InOrder(d)'
    BY DEF HandshakeOrder
  <2>1. InOrder(d)
    BY DEF TypeInv, HandshakeOrder
  <2>2. Refusals(d)' = Refusals(d)
    BY <1>5 DEF Refusals
  <2>3. NoRequest.op = "none"
    BY DEF NoRequest
  <2>4. CASE d = c
    <3>1. PICK step \in {"exit", "receive", "replay"} :
              pc'[c] = step /\ (step = "replay" => missed # <<>>)
      BY <1>5 DEF TypeInv, TypeOK
    <3>2. replayq'[c] = missed /\ req'[c].op = "none"
      BY <1>5, <2>3 DEF TypeInv, TypeOK
    <3>3. UNCHANGED <<csess, cuser, state, home>>
      BY <1>5 DEF connectionVars
    <3>4. QED BY <1>1, <2>1, <2>2, <2>4, <3>1, <3>2, <3>3 DEF InOrder, Identified, Handled,
                                                             RefusedOnce
  <2>5. CASE d # c
    <3>1. pc'[d] = pc[d] /\ replayq'[d] = replayq[d] /\ req'[d] = req[d]
      BY <1>5, <2>5 DEF TypeInv, TypeOK
    <3>2. UNCHANGED <<csess, cuser, state, home>>
      BY <1>5 DEF connectionVars
    <3>3. QED BY <2>1, <2>2, <3>1, <3>2 DEF InOrder, Identified, Handled, RefusedOnce
  <2>6. QED BY <2>4, <2>5
<1>9. QED BY <1>7, <1>8 DEF TypeInv

\* Replay sends a frame that is there to send.
LEMMA ReplaySendType ==
    ASSUME SessionManagerAssumption, GatewayAssumption, TypeInv, NEW c \in Conn, ReplaySend(c)
    PROVE  TypeInv'
<1> DEFINE f == Head(replayq[c])
           rest == Tail(replayq[c])
<1>1. InOrder(c) /\ pc[c] = "replay" /\ replayq[c] \in Seq(Numbered)
  BY DEF TypeInv, TypeOK, HandshakeOrder, ReplaySend
<1>2. replayq[c] # <<>> /\ csess[c] # None
  BY <1>1 DEF InOrder, Handled, Identified
<1>3. f \in Numbered /\ rest \in Seq(Numbered)
  BY <1>1, <1>2
<1>4. /\ wire' = Written(c, f)
      /\ replayq' = [replayq EXCEPT ![c] = rest]
      /\ \E step \in {"exit", "receive", "replay"} :
            /\ pc' = [pc EXCEPT ![c] = step]
            /\ step = "replay" => rest # <<>>
      /\ UNCHANGED <<sessionVars, mon, sock, req, tasks, sent, clientVars, eventVars>>
  BY DEF ReplaySend, NextRead
<1> HIDE DEF f, rest
<1>5. f \in Frame /\ f.t # "INVALID_SESSION"
  BY <1>3 DEF Numbered
<1>6. wire' \in [Conn -> Seq(Frame)]
  BY <1>4, <1>5, WrittenType DEF TypeInv
<1>7. TypeOK'
  <2>1. pc' \in [Conn -> Steps]
    BY <1>4 DEF TypeInv, TypeOK, Steps
  <2>2. replayq' \in [Conn -> Seq(Numbered)]
    BY <1>3, <1>4 DEF TypeInv, TypeOK
  <2>3. SessionTypeOK'
    BY <1>4 DEF TypeInv, TypeOK, SessionTypeOK, sessionVars, connectionVars, managerVars, valkeyVars
  <2>4. QED BY <1>4, <1>6, <2>1, <2>2, <2>3 DEF TypeInv, TypeOK, clientVars, eventVars
<1>8. HandshakeOrder'
  <2> SUFFICES ASSUME NEW d \in Conn PROVE InOrder(d)'
    BY DEF HandshakeOrder
  <2>1. InOrder(d)
    BY DEF TypeInv, HandshakeOrder
  <2>2. Refusals(d)' = Refusals(d)
    BY <1>4, <1>5, WrittenRefusals DEF TypeInv
  <2>3. QED BY <1>1, <1>2, <1>4, <2>1, <2>2 DEF TypeInv, TypeOK, InOrder, Identified, Handled,
                                                 RefusedOnce
<1>9. QED BY <1>7, <1>8 DEF TypeInv

\* The loop ends on a closed socket with no handler running.
LEMMA LoopExitType ==
    ASSUME SessionManagerAssumption, GatewayAssumption, TypeInv, NEW c \in Conn, LoopExit(c)
    PROVE  TypeInv'
<1>1. TypeOK'
  BY DEF LoopExit, TypeInv, TypeOK, SessionTypeOK, Steps, States
<1>2. HandshakeOrder'
  <2> SUFFICES ASSUME NEW d \in Conn PROVE InOrder(d)'
    BY DEF HandshakeOrder
  <2>1. InOrder(d)
    BY DEF TypeInv, HandshakeOrder
  <2>2. Refusals(d)' = Refusals(d)
    BY DEF LoopExit, Refusals
  <2>3. QED BY <2>1, <2>2 DEF LoopExit, TypeInv, TypeOK, SessionTypeOK, InOrder, Identified,
                              Handled, RefusedOnce
<1>3. QED BY <1>1, <1>2 DEF TypeInv

\* The loop ends on a closing connection with no handler running.
LEMMA HeartbeatOnClosingType ==
    ASSUME SessionManagerAssumption, GatewayAssumption, TypeInv, NEW c \in Conn, HeartbeatOnClosing(c)
    PROVE  TypeInv'
<1>1. TypeOK'
  BY DEF HeartbeatOnClosing, TypeInv, TypeOK, SessionTypeOK, Steps, States
<1>2. HandshakeOrder'
  <2> SUFFICES ASSUME NEW d \in Conn PROVE InOrder(d)'
    BY DEF HandshakeOrder
  <2>1. InOrder(d)
    BY DEF TypeInv, HandshakeOrder
  <2>2. Refusals(d)' = Refusals(d)
    BY DEF HeartbeatOnClosing, Refusals
  <2>3. QED BY <2>1, <2>2 DEF HeartbeatOnClosing, TypeInv, TypeOK, SessionTypeOK, InOrder, Identified,
                              Handled, RefusedOnce
<1>3. QED BY <1>1, <1>2 DEF TypeInv

\* The finally block leaves a connection nothing refers to.
LEMMA FinallyType ==
    ASSUME SessionManagerAssumption, GatewayAssumption, TypeInv, NEW c \in Conn, Finally(c)
    PROVE  TypeInv'
<1>1. RemoveConnection(c)
  BY DEF Finally
<1>2. SessionTypeOK'
  BY <1>1, RemoveConnectionType DEF Finally, TypeInv, TypeOK, SessionTypeOK, States
<1>3. presence' \in [User -> {"offline", "online"}]
  BY DEF Finally, TypeInv, TypeOK
<1>4. TypeOK'
  BY <1>2, <1>3 DEF Finally, TypeInv, TypeOK, Steps
<1>5. HandshakeOrder'
  <2> SUFFICES ASSUME NEW d \in Conn PROVE InOrder(d)'
    BY DEF HandshakeOrder
  <2>1. InOrder(d)
    BY DEF TypeInv, HandshakeOrder
  <2>2. Refusals(d)' = Refusals(d)
    BY DEF Finally, Refusals
  <2>3. QED BY <2>1, <2>2 DEF Finally, TypeInv, TypeOK, SessionTypeOK, InOrder, Identified,
                              Handled, RefusedOnce
<1>6. QED BY <1>4, <1>5 DEF TypeInv

-----------------------------------------------------------------------------
(* The monitor, the dispatcher, time and failures                          *)

LEMMA HeartbeatCloseType ==
    ASSUME SessionManagerAssumption, GatewayAssumption, TypeInv, NEW c \in Conn, HeartbeatClose(c)
    PROVE  TypeInv'
<1>1. TypeOK'
  BY DEF HeartbeatClose, TypeInv, TypeOK, SessionTypeOK, Steps, States
<1>2. HandshakeOrder'
  <2> SUFFICES ASSUME NEW d \in Conn PROVE InOrder(d)'
    BY DEF HandshakeOrder
  <2>1. InOrder(d)
    BY DEF TypeInv, HandshakeOrder
  <2>2. Refusals(d)' = Refusals(d)
    BY DEF HeartbeatClose, Refusals
  <2>3. QED BY <2>1, <2>2 DEF HeartbeatClose, TypeInv, TypeOK, SessionTypeOK, InOrder, Identified,
                              Handled, RefusedOnce
<1>3. QED BY <1>1, <1>2 DEF TypeInv

\* The monitor's close ends in a disconnected connection.
LEMMA HeartbeatClosedType ==
    ASSUME SessionManagerAssumption, GatewayAssumption, TypeInv, NEW c \in Conn, HeartbeatClosed(c)
    PROVE  TypeInv'
<1>1. TypeOK'
  BY DEF HeartbeatClosed, TypeInv, TypeOK, SessionTypeOK, Steps, States
<1>2. HandshakeOrder'
  <2> SUFFICES ASSUME NEW d \in Conn PROVE InOrder(d)'
    BY DEF HandshakeOrder
  <2>1. InOrder(d)
    BY DEF TypeInv, HandshakeOrder
  <2>2. Refusals(d)' = Refusals(d)
    BY DEF HeartbeatClosed, Refusals
  <2>3. QED BY <2>1, <2>2 DEF HeartbeatClosed, TypeInv, TypeOK, SessionTypeOK, InOrder, Identified,
                              Handled, RefusedOnce
<1>3. QED BY <1>1, <1>2 DEF TypeInv

\* A scheduled send writes a numbered frame.
LEMMA TaskSendType ==
    ASSUME SessionManagerAssumption, GatewayAssumption, TypeInv, NEW c \in Conn, TaskSend(c)
    PROVE  TypeInv'
<1> DEFINE f == Head(tasks[c])
           rest == Tail(tasks[c])
<1>1. tasks[c] \in Seq(Numbered) /\ tasks[c] # <<>>
  BY DEF TypeInv, TypeOK, TaskSend
<1>2. f \in Numbered /\ rest \in Seq(Numbered)
  BY <1>1
<1>3. /\ wire' = Written(c, f)
      /\ tasks' = [tasks EXCEPT ![c] = rest]
      /\ UNCHANGED <<sessionVars, loopVars, sock, req, replayq, sent, clientVars, eventVars>>
  BY DEF TaskSend
<1> HIDE DEF f, rest
<1>4. f \in Frame /\ f.t # "INVALID_SESSION"
  BY <1>2 DEF Numbered
<1>5. wire' \in [Conn -> Seq(Frame)]
  BY <1>3, <1>4, WrittenType DEF TypeInv
<1>6. TypeOK'
  BY <1>2, <1>3, <1>5 DEF TypeInv, TypeOK, SessionTypeOK
<1>7. HandshakeOrder'
  <2> SUFFICES ASSUME NEW d \in Conn PROVE InOrder(d)'
    BY DEF HandshakeOrder
  <2>1. InOrder(d)
    BY DEF TypeInv, HandshakeOrder
  <2>2. Refusals(d)' = Refusals(d)
    BY <1>3, <1>4, WrittenRefusals DEF TypeInv
  <2>3. QED BY <1>3, <2>1, <2>2 DEF InOrder, Identified, Handled, RefusedOnce
<1>8. QED BY <1>6, <1>7 DEF TypeInv

\* A new rate window starts at zero.
LEMMA WindowResetType ==
    ASSUME SessionManagerAssumption, GatewayAssumption, TypeInv, NEW c \in Conn, WindowReset(c)
    PROVE  TypeInv'
<1>1. TypeOK'
  BY DEF WindowReset, TypeInv, TypeOK, SessionTypeOK, Steps, States, GatewayAssumption
<1>2. HandshakeOrder'
  <2> SUFFICES ASSUME NEW d \in Conn PROVE InOrder(d)'
    BY DEF HandshakeOrder
  <2>1. InOrder(d)
    BY DEF TypeInv, HandshakeOrder
  <2>2. Refusals(d)' = Refusals(d)
    BY DEF WindowReset, Refusals
  <2>3. QED BY <2>1, <2>2 DEF WindowReset, TypeInv, TypeOK, SessionTypeOK, InOrder, Identified,
                              Handled, RefusedOnce
<1>3. QED BY <1>1, <1>2 DEF TypeInv

\* Idle sessions expire without touching a connection.
LEMMA ExpireType ==
    ASSUME SessionManagerAssumption, GatewayAssumption, TypeInv, Expire
    PROVE  TypeInv'
<1>1. SessionTypeOK'
  BY CopyExpiresType, SharedExpiresType, RegistryExpiresType DEF Expire, TypeInv, TypeOK
<1>2. UNCHANGED <<connectionVars, loopVars, socketVars, sendVars, clientVars, eventVars>>
  BY DEF Expire, CopyExpires, SharedExpires, InfoExpires, MembersExpire
<1>3. TypeOK'
  BY <1>1, <1>2 DEF TypeInv, TypeOK
<1>4. HandshakeOrder'
  BY <1>2 DEF TypeInv, HandshakeOrder, InOrder, Identified, Handled, RefusedOnce, Refusals
<1>5. QED BY <1>3, <1>4 DEF TypeInv

\* A dying worker leaves no handler, frame or send behind.
LEMMA CrashType ==
    ASSUME SessionManagerAssumption, GatewayAssumption, TypeInv, NEW w \in Worker, Crash(w)
    PROVE  TypeInv'
<1>1. SessionTypeOK'
  BY LoseWorkerType DEF Crash, TypeInv, TypeOK
<1>2. crashes' \in 0 .. MaxCrash
  BY DEF Crash, TypeInv, TypeOK, GatewayAssumption
<1>3. TypeOK'
  BY <1>1, <1>2, RequestType DEF Crash, TypeInv, TypeOK, Steps
<1>4. HandshakeOrder'
  <2> SUFFICES ASSUME NEW d \in Conn PROVE InOrder(d)'
    BY DEF HandshakeOrder
  <2>1. InOrder(d)
    BY DEF TypeInv, HandshakeOrder
  <2>2. Refusals(d)' = Refusals(d)
    BY DEF Crash, Refusals
  <2>3. NoRequest.op = "none"
    BY DEF NoRequest
  <2>4. QED BY <2>1, <2>2, <2>3 DEF Crash, LoseWorker, TypeInv, TypeOK, SessionTypeOK, InOrder,
                                     Identified, Handled, RefusedOnce, SessionManagerAssumption
<1>5. QED BY <1>3, <1>4 DEF TypeInv

\* dispatch_event numbers an event for connections with a user and a
\* session, none of which exceeds its rate.
LEMMA DispatchType ==
    ASSUME SessionManagerAssumption, GatewayAssumption, TypeInv, NEW w \in Worker, Dispatch(w)
    PROVE  TypeInv'
<1> DEFINE e  == cursor[w] + 1
           to == {c \in ConnectionsFor(w, User) : WithinRate(c)}
           frame(c) == [t |-> "EVENT", s |-> cseq[c] + 1, sess |-> csess[c], e |-> e]
           order(s) == SetToSeq({c \in to : csess[c] = s})
           new == [s \in Session |-> [i \in DOMAIN order(s) |-> frame(order(s)[i])]]
<1>1. e \in Event /\ e # None /\ cursor[w] \in 0 .. MaxEvent
  BY DEF Dispatch, TypeInv, TypeOK, Event, None, SessionManagerAssumption
<1>2. to \in SUBSET Conn /\ IsFiniteSet(to)
  <2>1. to \in SUBSET Conn
    BY DEF ConnectionsFor, TypeInv, TypeOK, SessionTypeOK
  <2>2. QED BY <2>1, ConnFinite, FS_Subset
<1>3. \A c \in to : csess[c] \in Session /\ csess[c] # None /\ cseq[c] \in Nat /\ sent[c] < RateLimit
  BY DEF ConnectionsFor, IsAuthenticated, WithinRate, TypeInv, TypeOK, SessionTypeOK,
         HandshakeOrder, InOrder, Identified
<1>4. \A c \in to : frame(c) \in Numbered
  <2> HIDE DEF to, e
  <2>1. QED BY <1>1, <1>3 DEF Numbered, Frame
<1>5. new \in [Session -> Seq(Numbered)]
  <2> SUFFICES ASSUME NEW s \in Session
               PROVE  [i \in DOMAIN order(s) |-> frame(order(s)[i])] \in Seq(Numbered)
    OBVIOUS
  <2>1. IsFiniteSet({c \in to : csess[c] = s})
    BY <1>2, FS_Subset
  <2>2. order(s) \in Seq({c \in to : csess[c] = s})
    BY <2>1, SetToSeqLists
  <2> HIDE DEF order, frame, to
  <2>3. /\ DOMAIN order(s) = 1 .. Len(order(s)) /\ Len(order(s)) \in Nat
        /\ \A i \in DOMAIN order(s) : order(s)[i] \in to
    BY <2>2
  <2>4. QED BY <1>4, <2>3
<1>6. /\ cursor' = [cursor EXCEPT ![w] = e]
      /\ cseq' = [c \in Conn |-> IF c \in to THEN cseq[c] + 1 ELSE cseq[c]]
      /\ sent' = [c \in Conn |-> IF c \in to THEN sent[c] + 1 ELSE sent[c]]
      /\ tasks' = [c \in Conn |-> IF c \in to THEN Append(tasks[c], frame(c)) ELSE tasks[c]]
      /\ RecordEvents(w, new)
      /\ numbered' = numbered \cup
            {[sess |-> csess[c], n |-> cseq[c] + 1, e |-> e] : c \in to}
      /\ UNCHANGED <<home, state, cuser, csess, registered, userConns, members, info,
                     total, loopVars, socketVars, replayq, clientVars, presence, crashes>>
  BY DEF Dispatch
<1> HIDE DEF e, to, frame, new
<1>7. /\ sessions' \in [Worker -> [Session -> SessionCopy]]
      /\ shared' \in [Session -> SessionCopy]
  BY <1>5, <1>6, RecordEventsType DEF TypeInv, TypeOK
<1>8. cseq' \in [Conn -> Nat] /\ sent' \in [Conn -> 0 .. RateLimit]
      /\ cursor' \in [Worker -> 0 .. MaxEvent] /\ tasks' \in [Conn -> Seq(Numbered)]
  <2>1. tasks' \in [Conn -> Seq(Numbered)]
    BY <1>4, <1>6 DEF TypeInv, TypeOK
  <2>2. cseq' \in [Conn -> Nat]
    BY <1>6 DEF TypeInv, TypeOK, SessionTypeOK
  <2>3. sent' \in [Conn -> 0 .. RateLimit]
    BY <1>3, <1>6 DEF TypeInv, TypeOK, GatewayAssumption
  <2>4. cursor' \in [Worker -> 0 .. MaxEvent]
    BY <1>1, <1>6 DEF TypeInv, TypeOK, Event
  <2>5. QED BY <2>1, <2>2, <2>3, <2>4
<1>9. numbered' \in SUBSET Numbering
  <2>1. \A c \in to : [sess |-> csess[c], n |-> cseq[c] + 1, e |-> e] \in Numbering
    BY <1>1, <1>3 DEF Numbering
  <2>2. QED BY <1>6, <2>1 DEF TypeInv, TypeOK
<1>10. TypeOK'
  BY <1>6, <1>7, <1>8, <1>9 DEF TypeInv, TypeOK, SessionTypeOK
<1>11. HandshakeOrder'
  BY <1>6 DEF TypeInv, HandshakeOrder, InOrder, Identified, Handled, RefusedOnce, Refusals
<1>12. QED BY <1>10, <1>11 DEF TypeInv

-----------------------------------------------------------------------------

\* Every step of the gateway keeps the invariant.
LEMMA StepType ==
    ASSUME SessionManagerAssumption, GatewayAssumption, TypeInv, [Next]_vars
    PROVE  TypeInv'
<1>1. CASE UNCHANGED vars
  <2>1. TypeOK'
    BY <1>1 DEF vars, TypeInv, TypeOK, SessionTypeOK
  <2>2. HandshakeOrder'
    BY <1>1 DEF vars, TypeInv, HandshakeOrder, InOrder, Identified, Handled, RefusedOnce, Refusals
  <2>3. QED BY <2>1, <2>2 DEF TypeInv
<1>2. ASSUME NEW t \in Tab, NEW c \in Conn, NEW w \in Worker, Connect(t, c, w)
      PROVE  TypeInv'
  BY <1>2, ConnectType
<1>3. ASSUME NEW t \in Tab, Receive(t)
      PROVE  TypeInv'
  BY <1>3, ReceiveType
<1>4. ASSUME NEW t \in Tab, NEW how \in {"lost", "closed"}, Leave(t, how)
      PROVE  TypeInv'
  BY <1>4, LeaveType
<1>5. ASSUME NEW c \in Conn, ServerStep(c)
      PROVE  TypeInv'
  BY <1>5, ReceiveRequestType, IdentifyRefusedType, IdentifyVerifiedType, PresenceOnlineType,
     SendReadyType, ResumeUnauthorizedType, ResumeRejectedType, ResumeAcceptedType,
     ReplayStartType, ReplaySendType, LoopExitType, HeartbeatOnClosingType, FinallyType
     DEF ServerStep
<1>6. ASSUME NEW c \in Conn, MonitorStep(c) \/ TaskSend(c) \/ NoticeLoss(c) \/ WindowReset(c)
      PROVE  TypeInv'
  BY <1>6, HeartbeatCloseType, HeartbeatClosedType, TaskSendType, NoticeLossType,
     WindowResetType DEF MonitorStep
<1>7. ASSUME NEW w \in Worker, Dispatch(w) \/ Crash(w)
      PROVE  TypeInv'
  BY <1>7, DispatchType, CrashType
<1>8. CASE Expire
  BY <1>8, ExpireType
<1>9. QED BY <1>1, <1>2, <1>3, <1>4, <1>5, <1>6, <1>7, <1>8 DEF Next

\* The handshake order and the types always hold.
THEOREM HandshakeInvariant == Spec => []TypeInv
<1>1. Init => TypeInv
  BY InitType, SessionManagerAssumption, GatewayAssumption
<1>2. TypeInv /\ [Next]_vars => TypeInv'
  BY StepType, SessionManagerAssumption, GatewayAssumption
<1>3. QED BY <1>1, <1>2, PTL DEF Spec

\* Type correctness: whatever the workers, users, limits and failures, every
\* variable keeps its type; in particular no handler, replay or dispatch ever
\* acts on a session, user or frame that does not exist.
THEOREM TypeCorrect == Spec => []TypeOK
<1>1. TypeInv => TypeOK
  BY DEF TypeInv
<1>2. QED BY <1>1, HandshakeInvariant, PTL
=============================================================================
