---------------------------- MODULE RatchetProofs ----------------------------
(***************************************************************************)
(* Intervals and keys of the ratchet within one worker process, and how    *)
(* many messages are sent under a key before it is rotated, for every      *)
(* number of threads, messages, intervals and faults and every limit.      *)
(***************************************************************************)
EXTENDS ChannelRatchet, FiniteSetTheorems, SequenceTheorems, TLAPS

\* All threads share one manager and its lock.
OneWorker == \A v, w \in Worker : v = w

Row == [start : Nat \ {0}, end : Nat]

\* What a thread's position says about its call and its local variables.
CallOK(t) ==
    /\ pc[t] # "idle" => msg[t] \in Message /\ op[t] # "none"
    /\ pc[t] \in {"choose", "write"} => op[t] \in {"send", "edit"}
    /\ pc[t] \in {"close", "insert"} => from[t] # None
    /\ pc[t] \in {"close", "insert"} /\ op[t] \in {"send", "edit"} => from[t] = msg[t]
    /\ pc[t] = "write" /\ op[t] = "send" => chosen[t] # None
    /\ pc[t] = "write" /\ chosen[t] # None => rows[chosen[t]].start <= msg[t]
    /\ pc[t] = "delete" => op[t] = "delete"
    /\ op[t] = "delete" => msg[t] \in Message /\ stored[msg[t]] # "absent"

Calls == \A t \in Thread : CallOK(t)

\* A message is encrypted with an interval that starts at it or before it, or
\* with none.
Started ==
    \A m \in Message : stored[m] # "absent" /\ envelope[m] # None =>
        rows[envelope[m]].start <= m

\* There is one open interval at most, and none while another is inserted.
Single ==
    /\ \A i, j \in Open : i = j
    /\ \A t \in Thread : pc[t] = "insert" => Open = {}

\* The intervals of deleted messages are closed, unless a split may fail; a call
\* avoids those retired when it began.
Retired ==
    /\ "split" \notin Faults => \A i \in retired : rows[i].end # None
    /\ \A t \in Thread : avoid[t] \subseteq retired

KeysRest == "split" \notin Faults => DeletedKeyUnused

RatchetInv ==
    TypeOK /\ Calls /\ Started /\ Single /\ Retired /\ KeysRest

-----------------------------------------------------------------------------
(* The operators.                                                          *)

\* Closing an interval changes its end and nothing else.
LEMMA ClosedRows ==
    ASSUME rows \in Seq(Row), NEW i \in 0 .. Len(rows), NEW m \in Nat \ {0}
    PROVE  /\ Closed(i, m) \in Seq(Row) /\ Len(Closed(i, m)) = Len(rows)
           /\ \A j \in 1 .. Len(rows) :
                 /\ Closed(i, m)[j].start = rows[j].start
                 /\ Closed(i, m)[j].end = IF j = i THEN m ELSE rows[j].end
<1>1. CASE i = None
  BY <1>1 DEF Closed, None
<1>2. CASE i # None
  <2> DEFINE r == [rows[i] EXCEPT !.end = m]
  <2>1. i \in 1 .. Len(rows)
    BY <1>2 DEF None
  <2>2. rows[i] \in Row
    BY <2>1
  <2>3. r \in Row /\ r.start = rows[i].start /\ r.end = m
    BY <2>2 DEF Row
  <2>4. Closed(i, m) = [rows EXCEPT ![i] = r]
    BY <1>2 DEF Closed
  <2> HIDE DEF r
  <2>5. /\ [rows EXCEPT ![i] = r] \in Seq(Row) /\ Len([rows EXCEPT ![i] = r]) = Len(rows)
        /\ \A j \in 1 .. Len(rows) : [rows EXCEPT ![i] = r][j] = IF j = i THEN r ELSE rows[j]
    BY <2>1, <2>3, ExceptSeq
  <2>6. QED
    BY <2>3, <2>4, <2>5
<1>3. QED
  BY <1>1, <1>2

\* get_active() returns the open interval, if there is one.
LEMMA ActiveIsOpen ==
    ASSUME rows \in Seq(Row), \A i, j \in Open : i = j
    PROVE  /\ GetActive \in 0 .. Len(rows)
           /\ GetActive = None <=> Open = {}
           /\ Open \subseteq {GetActive}
<1>1. CASE Open = {}
  BY <1>1 DEF GetActive, None
<1>2. CASE Open # {}
  <2>1. PICK i \in Open : TRUE
    BY <1>2
  <2>2. \A j \in Open : rows[j].start <= rows[i].start
    <3>1. i \in 1 .. Len(rows)
      BY DEF Open
    <3>2. rows[i] \in Row
      BY <3>1
    <3>3. rows[i].start \in Nat
      BY <3>2 DEF Row
    <3>4. QED
      BY <2>1, <3>3
  <2>3. GetActive = CHOOSE k \in Open : \A j \in Open : rows[j].start <= rows[k].start
    BY <1>2 DEF GetActive
  <2>4. GetActive \in Open
    BY <2>1, <2>2, <2>3
  <2>5. GetActive \in 1 .. Len(rows)
    BY <2>4 DEF Open
  <2>6. QED
    BY <1>2, <2>4, <2>5 DEF None
<1>3. QED
  BY <1>1, <1>2

\* Nobody opens an interval while the lock of the one worker is free, and only
\* the holder does while it is taken.
LEMMA Exclusive ==
    ASSUME OneWorker, TypeOK, NEW t \in Thread
    PROVE  /\ lock[Home[t]] = Nobody => \A u \in Thread : pc[u] \notin {"close", "insert"}
           /\ pc[t] \in {"close", "insert"} =>
                 \A u \in Thread : pc[u] \in {"close", "insert"} => u = t
<1>1. \A u \in Thread : Home[u] = Home[t]
  BY RatchetAssumption DEF OneWorker
<1>2. \A u \in Thread : pc[u] \in {"close", "insert"} => lock[Home[u]] = u
  BY DEF TypeOK
<1>3. QED
  BY <1>1, <1>2, RatchetAssumption

\* Ended calls.
LEMMA Ended ==
    ASSUME TypeOK, NEW S \in SUBSET Thread, End(S)
    PROVE  /\ pc' \in [Thread -> {"idle", "choose", "lock", "close", "insert", "write", "delete"}]
           /\ op' \in [Thread -> {"none", "send", "edit", "delete", "rotate"}]
           /\ msg' \in [Thread -> 0 .. MaxMessage]
           /\ from' \in [Thread -> 0 .. MaxMessage + 1]
           /\ chosen' \in [Thread -> 0 .. Len(rows)]
           /\ avoid' \in [Thread -> SUBSET (1 .. Len(rows))]
           /\ \A t \in S : pc'[t] = "idle" /\ op'[t] = "none" /\ avoid'[t] = {}
           /\ \A t \in Thread \ S : /\ pc'[t] = pc[t] /\ op'[t] = op[t] /\ msg'[t] = msg[t]
                                    /\ from'[t] = from[t] /\ chosen'[t] = chosen[t]
                                    /\ avoid'[t] = avoid[t]
<1> USE RatchetAssumption DEF None
<1>1. pc' \in [Thread -> {"idle", "choose", "lock", "close", "insert", "write", "delete"}]
  BY DEF TypeOK, End
<1>2. op' \in [Thread -> {"none", "send", "edit", "delete", "rotate"}]
  BY DEF TypeOK, End
<1>3. msg' \in [Thread -> 0 .. MaxMessage] /\ from' \in [Thread -> 0 .. MaxMessage + 1]
  BY DEF TypeOK, End
<1>4. chosen' \in [Thread -> 0 .. Len(rows)]
  <2>1. rows \in Seq([start : Nat \ {0}, end : Nat])
    BY DEF TypeOK
  <2>2. 0 \in 0 .. Len(rows)
    BY <2>1
  <2>3. QED
    BY <2>2 DEF TypeOK, End
<1>5. avoid' \in [Thread -> SUBSET (1 .. Len(rows))]
  BY DEF TypeOK, End
<1>6. QED
  BY <1>1, <1>2, <1>3, <1>4, <1>5 DEF End

\* A thread whose call is over, and one that did not move.
LEMMA IdleCall ==
    ASSUME NEW u \in Thread, pc'[u] = "idle", op'[u] = "none"
    PROVE  CallOK(u)'
  BY DEF CallOK

LEMMA SameCall ==
    ASSUME NEW u \in Thread, CallOK(u), stored' = stored,
           pc'[u] = pc[u], op'[u] = op[u], msg'[u] = msg[u], from'[u] = from[u],
           chosen'[u] = chosen[u],
           pc[u] = "write" /\ chosen[u] # None => rows'[chosen[u]].start <= msg[u]
    PROVE  CallOK(u)'
  BY DEF CallOK

\* The parts about intervals and keys hold on where no interval is opened or
\* closed, no hard delete returns that may have split, and no thread comes to
\* write with a new choice.
LEMMA QuietKeys ==
    ASSUME Single, Retired, KeysRest, UNCHANGED rows, retired \subseteq retired',
           retired' = retired \/ "split" \in Faults,
           \A t \in Thread : /\ pc'[t] = "insert" => pc[t] = "insert"
                             /\ avoid'[t] \in {avoid[t], {}, retired}
                             /\ pc'[t] = "write" => pc[t] = "write" /\ chosen'[t] = chosen[t]
                                                    /\ avoid'[t] = avoid[t]
    PROVE  Single' /\ Retired' /\ KeysRest'
<1>1. Open' = Open
  BY DEF Open
<1>2. Single'
  BY <1>1 DEF Single
<1>3. Retired' /\ KeysRest'
  BY DEF Retired, KeysRest, DeletedKeyUnused
<1>4. QED
  BY <1>2, <1>3

-----------------------------------------------------------------------------
(* The initial state, and the message service.                             *)

\* An empty conversation.
LEMMA InitRatchet == Init => RatchetInv
<1> SUFFICES ASSUME Init PROVE RatchetInv
  OBVIOUS
<1> USE RatchetAssumption DEF None
<1>1. rows \in Seq([start : Nat \ {0}, end : Nat]) /\ Len(rows) = 0
  BY DEF Init
<1>2. TypeOK
  BY <1>1 DEF Init, TypeOK
<1>3. Open = {}
  BY DEF Init, Open
<1>4. Calls /\ Started
  BY DEF Init, Calls, CallOK, Started
<1>5. Single /\ Retired /\ KeysRest
  BY <1>3 DEF Init, Single, Retired, KeysRest, DeletedKeyUnused
<1>6. QED
  BY <1>2, <1>4, <1>5 DEF RatchetInv

\* A call begins.
LEMMA BeginKeeps ==
    ASSUME RatchetInv, NEW t \in Thread, NEW o \in {"send", "edit", "delete"},
           NEW m \in Message, NEW where \in {"choose", "delete"}, Begin(t, o, m, where),
           o = "delete" <=> where = "delete",
           o = "delete" => stored[m] # "absent",
           lastId' \in 0 .. MaxMessage, UNCHANGED <<stored, envelope, column>>
    PROVE  RatchetInv'
<1> USE RatchetAssumption
<1>1. /\ pc[t] = "idle" /\ op' = [op EXCEPT ![t] = o] /\ msg' = [msg EXCEPT ![t] = m]
      /\ pc' = [pc EXCEPT ![t] = where]
      /\ avoid' = [avoid EXCEPT ![t] = IF o = "delete" THEN {} ELSE retired]
      /\ UNCHANGED <<rows, lock, from, chosen, retired, faults>>
  BY DEF Begin, GoTo
<1>2. TypeOK'
  <2>1. msg' \in [Thread -> 0 .. MaxMessage]
    BY <1>1 DEF RatchetInv, TypeOK, Message
  <2>2. avoid' \in [Thread -> SUBSET (1 .. Len(rows))]
    BY <1>1 DEF RatchetInv, TypeOK
  <2>3. /\ pc' \in [Thread -> {"idle", "choose", "lock", "close", "insert", "write", "delete"}]
        /\ op' \in [Thread -> {"none", "send", "edit", "delete", "rotate"}]
    BY <1>1 DEF RatchetInv, TypeOK
  <2>4. \A u \in Thread : pc'[u] \in {"close", "insert"} => lock'[Home[u]] = u
    BY <1>1 DEF RatchetInv, TypeOK
  <2>5. QED
    BY <1>1, <2>1, <2>2, <2>3, <2>4 DEF RatchetInv, TypeOK
<1>3. \A u \in Thread :
        /\ pc'[u] = IF u = t THEN where ELSE pc[u]
        /\ op'[u] = IF u = t THEN o ELSE op[u]
        /\ msg'[u] = IF u = t THEN m ELSE msg[u]
        /\ avoid'[u] \in {avoid[u], {}, retired}
        /\ u # t => avoid'[u] = avoid[u]
  BY <1>1 DEF RatchetInv, TypeOK
<1>4. Calls'
  BY <1>1, <1>3 DEF RatchetInv, Calls, CallOK
<1>5. Started'
  BY <1>1 DEF RatchetInv, Started
<1>6. Single' /\ Retired' /\ KeysRest'
  BY <1>1, <1>3, QuietKeys DEF RatchetInv
<1>7. QED
  BY <1>2, <1>4, <1>5, <1>6 DEF RatchetInv

\* send_message(), edit_message() and delete_message() begin.
LEMMA CallKeeps ==
    ASSUME RatchetInv, NEW t \in Thread,
           Send(t) \/ \E m \in Message : Edit(t, m) \/ Delete(t, m)
    PROVE  RatchetInv'
<1> USE RatchetAssumption
<1>1. CASE Send(t)
  <2>1. lastId \in 0 .. MaxMessage
    BY DEF RatchetInv, TypeOK
  <2>2. lastId + 1 \in Message /\ lastId' \in 0 .. MaxMessage
    BY <1>1, <2>1 DEF Send, Message
  <2>3. QED
    BY <1>1, <2>2, BeginKeeps DEF Send
<1>2. ASSUME NEW m \in Message, Edit(t, m) PROVE RatchetInv'
  <2>1. lastId' \in 0 .. MaxMessage
    BY <1>2 DEF RatchetInv, TypeOK, Edit, tableVars
  <2>2. QED
    BY <1>2, <2>1, BeginKeeps DEF Edit, tableVars
<1>3. ASSUME NEW m \in Message, Delete(t, m) PROVE RatchetInv'
  <2>1. lastId' \in 0 .. MaxMessage
    BY <1>3 DEF RatchetInv, TypeOK, Delete, tableVars
  <2>2. QED
    BY <1>3, <2>1, BeginKeeps DEF Delete, tableVars
<1>4. QED
  BY <1>1, <1>2, <1>3

\* A soft delete only marks the row.
LEMMA SoftDeleteKeeps ==
    ASSUME RatchetInv, NEW m \in Message, SoftDelete(m)
    PROVE  RatchetInv'
<1>1. /\ stored[m] = "live" /\ stored' = [stored EXCEPT ![m] = "hidden"]
      /\ UNCHANGED <<rows, lastId, envelope, column, lock, pc, op, msg, from, chosen,
                     avoid, retired, faults>>
  BY DEF SoftDelete, callVars
<1>2. TypeOK'
  BY <1>1 DEF RatchetInv, TypeOK
<1>3. \A n \in Message : stored'[n] = IF n = m THEN "hidden" ELSE stored[n]
  BY <1>1 DEF RatchetInv, TypeOK
<1>4. Calls' /\ Started'
  BY <1>1, <1>3 DEF RatchetInv, Calls, CallOK, Started
<1>5. Single' /\ Retired' /\ KeysRest'
  BY <1>1, QuietKeys DEF RatchetInv
<1>6. QED
  BY <1>2, <1>4, <1>5 DEF RatchetInv

\* The message is inserted.
LEMMA InsertMessageKeeps ==
    ASSUME RatchetInv, NEW t \in Thread, InsertMessage(t)
    PROVE  RatchetInv'
<1> DEFINE m == msg[t]
<1>1. /\ pc[t] = "write" /\ op[t] = "send"
      /\ stored' = [stored EXCEPT ![m] = "live"]
      /\ envelope' = [envelope EXCEPT ![m] = chosen[t]]
      /\ column' = [column EXCEPT ![m] = chosen[t]]
      /\ op' = [op EXCEPT ![t] = "rotate"] /\ pc' = [pc EXCEPT ![t] = "lock"]
      /\ chosen' = [chosen EXCEPT ![t] = None] /\ avoid' = [avoid EXCEPT ![t] = {}]
      /\ UNCHANGED <<rows, lastId, lock, msg, from, retired, faults>>
  BY DEF InsertMessage, GoTo
<1>2. /\ m \in Message /\ chosen[t] \in 0 .. Len(rows) /\ chosen[t] # None
      /\ rows[chosen[t]].start <= m /\ 0 \in 0 .. Len(rows)
  BY <1>1 DEF RatchetInv, Calls, CallOK, TypeOK
<1>3. TypeOK'
  BY <1>1, <1>2 DEF RatchetInv, TypeOK, None
<1>4. \A u \in Thread :
        /\ pc'[u] = IF u = t THEN "lock" ELSE pc[u]
        /\ op'[u] = IF u = t THEN "rotate" ELSE op[u]
        /\ u # t => chosen'[u] = chosen[u] /\ avoid'[u] = avoid[u]
        /\ avoid'[u] \in {avoid[u], {}, retired}
  BY <1>1 DEF RatchetInv, TypeOK
<1>5. \A n \in Message : /\ stored'[n] = IF n = m THEN "live" ELSE stored[n]
                         /\ envelope'[n] = IF n = m THEN chosen[t] ELSE envelope[n]
  BY <1>1 DEF RatchetInv, TypeOK
<1> HIDE DEF m
<1>6. Calls'
  BY <1>1, <1>2, <1>4, <1>5 DEF RatchetInv, Calls, CallOK
<1>7. Started'
  BY <1>1, <1>2, <1>5 DEF RatchetInv, Started
<1>8. Single' /\ Retired' /\ KeysRest'
  BY <1>1, <1>4, QuietKeys DEF RatchetInv
<1>9. QED
  BY <1>3, <1>6, <1>7, <1>8 DEF RatchetInv

\* A call ends without touching intervals: the insert failed, an edit was
\* written, a rotation was not due, or a rotation or a split failed.
LEMMA EndKeeps ==
    ASSUME RatchetInv, NEW t \in Thread, End({t}), UNCHANGED lock \/ LeftLock(t),
           UNCHANGED <<rows, lastId, stored, column>>, faults' \in 0 .. MaxFault,
           retired \subseteq retired', retired' \in SUBSET (1 .. Len(rows)),
           retired' = retired \/ "split" \in Faults,
           envelope' \in [Message -> 0 .. Len(rows)], Started'
    PROVE  RatchetInv'
<1>0. TypeOK
  BY DEF RatchetInv
<1>1. TypeOK'
  <2>1. \A u \in Thread : pc'[u] \in {"close", "insert"} => lock'[Home[u]] = u
    <3>1. SUFFICES ASSUME NEW u \in Thread, pc'[u] \in {"close", "insert"}
                   PROVE  lock'[Home[u]] = u
      OBVIOUS
    <3>2. u # t /\ pc[u] \in {"close", "insert"}
      BY <1>0, <3>1, Ended
    <3>3. lock[Home[u]] = u
      BY <1>0, <3>2 DEF TypeOK
    <3>4. UNCHANGED lock \/ (lock[Home[t]] = t /\ lock' = [lock EXCEPT ![Home[t]] = Nobody])
      BY DEF LeftLock, Unlocked
    <3>5. Home[u] \in Worker /\ Home[t] \in Worker /\ lock \in [Worker -> Thread \cup {Nobody}]
      BY <1>0, RatchetAssumption DEF TypeOK
    <3>6. QED
      BY <3>2, <3>3, <3>4, <3>5
  <2>2. /\ pc' \in [Thread -> {"idle", "choose", "lock", "close", "insert", "write", "delete"}]
        /\ op' \in [Thread -> {"none", "send", "edit", "delete", "rotate"}]
        /\ msg' \in [Thread -> 0 .. MaxMessage]
        /\ from' \in [Thread -> 0 .. MaxMessage + 1]
        /\ chosen' \in [Thread -> 0 .. Len(rows)]
        /\ avoid' \in [Thread -> SUBSET (1 .. Len(rows))]
    BY <1>0, Ended
  <2>3. lock' \in [Worker -> Thread \cup {Nobody}]
    BY <1>0 DEF TypeOK, LeftLock, Unlocked
  <2>4. QED
    BY <1>0, <2>1, <2>2, <2>3 DEF TypeOK
<1>2. Calls'
  BY <1>0, Ended DEF RatchetInv, Calls, CallOK
<1>3. Single' /\ Retired' /\ KeysRest'
  BY <1>0, Ended, QuietKeys DEF RatchetInv
<1>4. QED
  BY <1>1, <1>2, <1>3 DEF RatchetInv

\* send_message() raises.
LEMMA SendFailsKeeps ==
    ASSUME RatchetInv, NEW t \in Thread, SendFails(t)
    PROVE  RatchetInv'
<1>1. /\ End({t}) /\ LeftLock(t)
      /\ UNCHANGED <<rows, lastId, stored, envelope, column, retired, faults>>
  BY DEF SendFails, tableVars
<1>2. Started' /\ envelope' \in [Message -> 0 .. Len(rows)] /\ faults' \in 0 .. MaxFault
      /\ retired' \in SUBSET (1 .. Len(rows))
  BY <1>1 DEF RatchetInv, Started, TypeOK
<1>3. QED
  BY <1>1, <1>2, EndKeeps

\* rotate_if_due() or split_on_delete() fails.  After a failed split the key of
\* the deleted message may still be the one in use.
LEMMA FailsKeeps ==
    ASSUME RatchetInv, NEW t \in Thread, Fails(t)
    PROVE  RatchetInv'
<1> USE RatchetAssumption
<1>0. TypeOK
  BY DEF RatchetInv
<1>1. /\ End({t}) /\ LeftLock(t) /\ faults' = faults + 1 /\ faults < MaxFault
      /\ UNCHANGED <<rows, lastId, stored, envelope, column>>
      /\ \/ retired' = retired
         \/ /\ op[t] = "delete" /\ "split" \in Faults
            /\ retired' = retired \cup ({envelope[msg[t]]} \ {None})
  BY DEF Fails, Returned, tableVars
<1>2. Started' /\ envelope' \in [Message -> 0 .. Len(rows)] /\ faults' \in 0 .. MaxFault
  BY <1>0, <1>1 DEF RatchetInv, Started, TypeOK
<1>3. retired' \in SUBSET (1 .. Len(rows)) /\ retired \subseteq retired'
  <2>1. retired \in SUBSET (1 .. Len(rows))
    BY <1>0 DEF TypeOK
  <2>2. op[t] = "delete" => envelope[msg[t]] \in 0 .. Len(rows)
    BY <1>0 DEF RatchetInv, Calls, CallOK, TypeOK
  <2>3. QED
    BY <1>1, <2>1, <2>2 DEF None
<1>4. QED
  BY <1>1, <1>2, <1>3, EndKeeps

\* edit_message() turns to the older scheme.
LEMMA EditFallsBackKeeps ==
    ASSUME RatchetInv, NEW t \in Thread, EditFallsBack(t)
    PROVE  RatchetInv'
<1> USE RatchetAssumption
<1>0. TypeOK
  BY DEF RatchetInv
<1>1. /\ pc[t] # "idle" /\ op[t] = "edit" /\ LeftLock(t)
      /\ chosen' = [chosen EXCEPT ![t] = None] /\ from' = [from EXCEPT ![t] = None]
      /\ pc' = [pc EXCEPT ![t] = "write"]
      /\ UNCHANGED <<rows, lastId, stored, envelope, column, op, msg, retired, avoid, faults>>
  BY DEF EditFallsBack, GoTo, tableVars
<1>2. \A u \in Thread :
        /\ pc'[u] = IF u = t THEN "write" ELSE pc[u]
        /\ chosen'[u] = IF u = t THEN None ELSE chosen[u]
        /\ u # t => from'[u] = from[u]
  BY <1>0, <1>1 DEF TypeOK
<1>3. TypeOK'
  <2>1. \A u \in Thread : pc'[u] \in {"close", "insert"} => lock'[Home[u]] = u
    <3>1. SUFFICES ASSUME NEW u \in Thread, pc'[u] \in {"close", "insert"}
                   PROVE  lock'[Home[u]] = u
      OBVIOUS
    <3>2. u # t /\ pc[u] \in {"close", "insert"}
      BY <1>2, <3>1
    <3>3. lock[Home[u]] = u
      BY <1>0, <3>2 DEF TypeOK
    <3>4. UNCHANGED lock \/ (lock[Home[t]] = t /\ lock' = [lock EXCEPT ![Home[t]] = Nobody])
      BY <1>1 DEF LeftLock, Unlocked
    <3>5. Home[u] \in Worker /\ Home[t] \in Worker /\ lock \in [Worker -> Thread \cup {Nobody}]
      BY <1>0 DEF TypeOK
    <3>6. QED
      BY <3>2, <3>3, <3>4, <3>5
  <2>2. lock' \in [Worker -> Thread \cup {Nobody}]
    BY <1>0, <1>1 DEF TypeOK, LeftLock, Unlocked
  <2>3. chosen' \in [Thread -> 0 .. Len(rows)]
    <3>1. Len(rows) \in Nat
      BY <1>0 DEF TypeOK
    <3>2. 0 \in 0 .. Len(rows)
      BY <3>1
    <3>3. QED
      BY <1>0, <1>1, <3>2 DEF TypeOK, None
  <2>4. /\ from' \in [Thread -> 0 .. MaxMessage + 1]
        /\ pc' \in [Thread -> {"idle", "choose", "lock", "close", "insert", "write", "delete"}]
    BY <1>0, <1>1 DEF TypeOK, None
  <2>5. QED
    BY <1>0, <1>1, <2>1, <2>2, <2>3, <2>4 DEF TypeOK
<1>4. Calls'
  <2>1. ASSUME NEW u \in Thread, u # t PROVE CallOK(u)'
    <3>1. CallOK(u)
      BY DEF RatchetInv, Calls
    <3>2. QED
      BY <1>1, <1>2, <2>1, <3>1, SameCall DEF CallOK
  <2>2. CallOK(t)'
    BY <1>1, <1>2 DEF RatchetInv, Calls, CallOK
  <2>3. QED
    BY <2>1, <2>2 DEF Calls
<1>5. Started' /\ Retired'
  BY <1>1 DEF RatchetInv, Started, Retired
<1>6. Single'
  BY <1>1, <1>2 DEF RatchetInv, Single, Open
<1>7. KeysRest'
  <2>1. None \notin avoid[t]
    BY <1>0 DEF TypeOK, None
  <2>2. QED
    BY <1>1, <1>2, <2>1 DEF RatchetInv, KeysRest, DeletedKeyUnused
<1>8. QED
  BY <1>3, <1>4, <1>5, <1>6, <1>7 DEF RatchetInv

\* An edit is written.
LEMMA UpdateContentKeeps ==
    ASSUME RatchetInv, NEW t \in Thread, UpdateContent(t)
    PROVE  RatchetInv'
<1>1. /\ pc[t] = "write" /\ UNCHANGED <<rows, stored>>
      /\ envelope' = IF stored[msg[t]] = "deleted" THEN envelope
                     ELSE [envelope EXCEPT ![msg[t]] = chosen[t]]
  BY DEF UpdateContent
<1>2. /\ msg[t] \in Message /\ chosen[t] \in 0 .. Len(rows)
      /\ chosen[t] # None => rows[chosen[t]].start <= msg[t]
      /\ envelope \in [Message -> 0 .. Len(rows)]
  BY <1>1 DEF RatchetInv, Calls, CallOK, TypeOK
<1>3. /\ envelope' \in [Message -> 0 .. Len(rows)]
      /\ \A n \in Message : envelope'[n] = envelope[n] \/ (n = msg[t] /\ envelope'[n] = chosen[t])
  BY <1>1, <1>2
<1>4. Started'
  BY <1>1, <1>2, <1>3 DEF RatchetInv, Started
<1>5. /\ retired' = retired /\ retired' \in SUBSET (1 .. Len(rows))
      /\ faults' \in 0 .. MaxFault
  BY DEF UpdateContent, RatchetInv, TypeOK
<1>6. QED
  BY <1>3, <1>4, <1>5, EndKeeps DEF UpdateContent

\* The row is deleted.
LEMMA HardDeleteKeeps ==
    ASSUME RatchetInv, NEW t \in Thread, HardDelete(t)
    PROVE  RatchetInv'
<1> DEFINE m == msg[t]
<1>1. /\ pc[t] = "delete" /\ stored' = [stored EXCEPT ![m] = "deleted"]
      /\ pc' = [pc EXCEPT ![t] = "lock"]
      /\ UNCHANGED <<rows, lastId, envelope, column, lock, op, msg, from, chosen,
                     retired, avoid, faults>>
  BY DEF HardDelete, GoTo
<1>2. m \in Message /\ op[t] = "delete" /\ stored[m] # "absent"
  BY <1>1 DEF RatchetInv, Calls, CallOK
<1>3. TypeOK'
  BY <1>1 DEF RatchetInv, TypeOK
<1>4. \A u \in Thread : pc'[u] = IF u = t THEN "lock" ELSE pc[u]
  BY <1>1 DEF RatchetInv, TypeOK
<1>5. \A n \in Message : stored'[n] = IF n = m THEN "deleted" ELSE stored[n]
  BY <1>1 DEF RatchetInv, TypeOK
<1> HIDE DEF m
<1>6. Calls'
  BY <1>1, <1>2, <1>4, <1>5 DEF RatchetInv, Calls, CallOK
<1>7. Started'
  BY <1>1, <1>2, <1>5 DEF RatchetInv, Started
<1>8. Single' /\ Retired' /\ KeysRest'
  BY <1>1, <1>4, QuietKeys DEF RatchetInv
<1>9. QED
  BY <1>3, <1>6, <1>7, <1>8 DEF RatchetInv

-----------------------------------------------------------------------------
(* The manager.                                                            *)

\* The open interval is chosen for a message that lies in it, with or without
\* the lock: no retired interval is open.
LEMMA ChosenKeeps ==
    ASSUME RatchetInv, NEW t \in Thread, op[t] \in {"send", "edit"}, pc[t] # "idle",
           GetActive # None, Contains(GetActive, msg[t]),
           chosen' = [chosen EXCEPT ![t] = GetActive], GoTo(t, "write"),
           UNCHANGED <<rows, tableVars, lock, op, msg, from, retired, avoid, faults>>
    PROVE  RatchetInv'
<1> DEFINE i == GetActive
<1>0. TypeOK /\ rows \in Seq(Row)
  BY DEF RatchetInv, TypeOK, Row
<1>1. i \in 0 .. Len(rows) /\ i \in Open
  BY <1>0, ActiveIsOpen DEF RatchetInv, Single
<1>2. rows[i].end = None /\ rows[i].start <= msg[t]
  BY <1>1 DEF Open, Contains
<1> HIDE DEF i
<1>3. /\ pc' = [pc EXCEPT ![t] = "write"] /\ chosen' = [chosen EXCEPT ![t] = i]
      /\ UNCHANGED <<rows, lastId, stored, envelope, column, lock, op, msg, from,
                     retired, avoid, faults>>
  BY DEF GoTo, i, tableVars
<1>4. TypeOK'
  BY <1>0, <1>1, <1>3 DEF TypeOK
<1>5. \A u \in Thread : /\ pc'[u] = IF u = t THEN "write" ELSE pc[u]
                        /\ chosen'[u] = IF u = t THEN i ELSE chosen[u]
  BY <1>0, <1>3 DEF TypeOK
<1>6. Calls'
  BY <1>2, <1>3, <1>5 DEF RatchetInv, Calls, CallOK, i
<1>7. Started'
  BY <1>3 DEF RatchetInv, Started
<1>8. Single'
  BY <1>3, <1>5 DEF RatchetInv, Single, Open
<1>9. Retired'
  BY <1>3 DEF RatchetInv, Retired
<1>10. KeysRest'
  <2>1. "split" \notin Faults => i \notin avoid[t]
    BY <1>2 DEF RatchetInv, Retired
  <2>2. QED
    BY <1>3, <1>5, <2>1 DEF RatchetInv, KeysRest, DeletedKeyUnused
<1>11. QED
  BY <1>4, <1>6, <1>7, <1>8, <1>9, <1>10 DEF RatchetInv

\* _ensure_interval() before its lock.
LEMMA ChooseKeeps ==
    ASSUME RatchetInv, NEW t \in Thread, ChooseInterval(t)
    PROVE  RatchetInv'
<1>1. pc[t] = "choose" /\ op[t] \in {"send", "edit"}
  BY DEF ChooseInterval, RatchetInv, Calls, CallOK
<1>2. CASE GetActive # None /\ Contains(GetActive, msg[t])
  BY <1>1, <1>2, ChosenKeeps DEF ChooseInterval
<1>3. CASE ~(GetActive # None /\ Contains(GetActive, msg[t]))
  <2>1. /\ pc' = [pc EXCEPT ![t] = "lock"]
        /\ UNCHANGED <<rows, lastId, stored, envelope, column, lock, op, msg, from,
                       chosen, retired, avoid, faults>>
    BY <1>3 DEF ChooseInterval, GoTo, tableVars
  <2>2. TypeOK'
    BY <2>1 DEF RatchetInv, TypeOK
  <2>3. \A u \in Thread : pc'[u] = IF u = t THEN "lock" ELSE pc[u]
    BY <2>1 DEF RatchetInv, TypeOK
  <2>4. Calls' /\ Started'
    BY <1>1, <2>1, <2>3 DEF RatchetInv, Calls, CallOK, Started
  <2>5. Single' /\ Retired' /\ KeysRest'
    BY <2>1, <2>3, QuietKeys DEF RatchetInv
  <2>6. QED
    BY <2>2, <2>4, <2>5 DEF RatchetInv
<1>4. QED
  BY <1>2, <1>3

\* A thread takes the lock to open an interval from n on; it has closed the
\* open one already (split_on_delete) or not.
LEMMA LockKeeps ==
    ASSUME RatchetInv, NEW t \in Thread, pc[t] = "lock", Locked(t),
           NEW n \in 1 .. MaxMessage + 1, from' = [from EXCEPT ![t] = n],
           op[t] \in {"send", "edit"} => n = msg[t], GoTo(t, "close"),
           rows' \in {rows, Closed(GetActive, n)},
           UNCHANGED <<tableVars, op, msg, chosen, retired, avoid, faults>>
    PROVE  RatchetInv'
<1> USE RatchetAssumption
<1>0. TypeOK /\ rows \in Seq(Row)
  BY DEF RatchetInv, TypeOK, Row
<1>1. /\ lock[Home[t]] = Nobody /\ lock' = [lock EXCEPT ![Home[t]] = t]
      /\ pc' = [pc EXCEPT ![t] = "close"]
      /\ UNCHANGED <<lastId, stored, envelope, column>>
  BY DEF Locked, GoTo, tableVars
<1>2. GetActive \in 0 .. Len(rows)
  BY <1>0, ActiveIsOpen DEF RatchetInv, Single
<1>3. /\ rows' \in Seq(Row) /\ Len(rows') = Len(rows)
      /\ \A j \in 1 .. Len(rows) : /\ rows'[j].start = rows[j].start
                                   /\ rows[j].end # None => rows'[j].end # None
  <2>1. n \in Nat \ {0}
    OBVIOUS
  <2>2. /\ Closed(GetActive, n) \in Seq(Row) /\ Len(Closed(GetActive, n)) = Len(rows)
        /\ \A j \in 1 .. Len(rows) :
              /\ Closed(GetActive, n)[j].start = rows[j].start
              /\ Closed(GetActive, n)[j].end = IF j = GetActive THEN n ELSE rows[j].end
    <3>1. rows \in Seq(Row) /\ GetActive \in 0 .. Len(rows) /\ n \in Nat \ {0}
      BY <1>0, <1>2, <2>1
    <3>2. QED
      BY ONLY <3>1, ClosedRows
  <2>3. QED
    BY <1>0, <2>1, <2>2 DEF None
<1>4. \A u \in Thread : /\ pc'[u] = IF u = t THEN "close" ELSE pc[u]
                        /\ from'[u] = IF u = t THEN n ELSE from[u]
                        /\ lock'[Home[u]] = IF Home[u] = Home[t] THEN t ELSE lock[Home[u]]
  BY <1>0, <1>1 DEF TypeOK
<1>5. TypeOK'
  <2>1. \A u \in Thread : pc'[u] \in {"close", "insert"} => lock'[Home[u]] = u
    BY <1>0, <1>1, <1>4 DEF TypeOK
  <2>2. from' \in [Thread -> 0 .. MaxMessage + 1]
    BY <1>0 DEF TypeOK
  <2>3. lock' \in [Worker -> Thread \cup {Nobody}]
    BY <1>0, <1>1 DEF TypeOK
  <2>4. pc' \in [Thread -> {"idle", "choose", "lock", "close", "insert", "write", "delete"}]
    BY <1>0, <1>1 DEF TypeOK
  <2>5. QED
    BY <1>0, <1>1, <1>3, <2>1, <2>2, <2>3, <2>4 DEF TypeOK, Row
<1>6. Calls'
  <2>1. \A u \in Thread : pc'[u] = "write" /\ chosen[u] # None =>
          chosen[u] \in 1 .. Len(rows) /\ rows'[chosen[u]].start <= msg[u]
    <3>1. SUFFICES ASSUME NEW u \in Thread, pc'[u] = "write", chosen[u] # None
                   PROVE  chosen[u] \in 1 .. Len(rows) /\ rows'[chosen[u]].start <= msg[u]
      OBVIOUS
    <3>2. pc[u] = "write"
      BY <1>4, <3>1
    <3>3. chosen[u] # None /\ rows[chosen[u]].start <= msg[u]
      BY <3>1, <3>2 DEF RatchetInv, Calls, CallOK
    <3>4. chosen[u] \in 1 .. Len(rows)
      BY <1>0, <3>3 DEF TypeOK, None
    <3>5. QED
      BY <1>3, <3>3, <3>4
  <2>2. QED
    BY <1>1, <1>4, <2>1 DEF RatchetInv, Calls, CallOK, None
<1>7. Started'
  <2>1. \A m \in Message : envelope[m] # None => envelope[m] \in 1 .. Len(rows)
    BY <1>0 DEF TypeOK, None
  <2>2. QED
    BY <1>1, <1>3, <2>1 DEF RatchetInv, Started
<1>8. Single'
  <2>1. Open' \subseteq Open
    BY <1>0, <1>3 DEF Open
  <2>2. QED
    BY <1>4, <2>1 DEF RatchetInv, Single
<1>9. Retired'
  <2>1. retired \subseteq 1 .. Len(rows)
    BY <1>0 DEF TypeOK
  <2>2. QED
    BY <1>3, <2>1 DEF RatchetInv, Retired
<1>10. KeysRest'
  BY <1>4 DEF RatchetInv, KeysRest, DeletedKeyUnused
<1>11. QED
  BY <1>5, <1>6, <1>7, <1>8, <1>9, <1>10 DEF RatchetInv

\* _ensure_interval() with its lock.
LEMMA EnsureKeeps ==
    ASSUME RatchetInv, NEW t \in Thread, EnsureInterval(t)
    PROVE  RatchetInv'
<1>1. pc[t] = "lock" /\ op[t] \in {"send", "edit"} /\ msg[t] \in Message
  BY DEF EnsureInterval, RatchetInv, Calls, CallOK
<1>2. CASE GetActive # None /\ Contains(GetActive, msg[t])
  BY <1>1, <1>2, ChosenKeeps DEF EnsureInterval
<1>3. CASE ~(GetActive # None /\ Contains(GetActive, msg[t]))
  <2>1. msg[t] \in 1 .. MaxMessage + 1
    BY <1>1, RatchetAssumption DEF Message
  <2>2. QED
    BY <1>1, <1>3, <2>1, LockKeeps DEF EnsureInterval
<1>4. QED
  BY <1>2, <1>3

\* rotate_if_due().
LEMMA RotateKeeps ==
    ASSUME RatchetInv, NEW t \in Thread, RotateIfDue(t)
    PROVE  RatchetInv'
<1>1. pc[t] = "lock" /\ op[t] = "rotate" /\ msg[t] \in Message
  BY DEF RotateIfDue, RatchetInv, Calls, CallOK
<1>2. CASE from' = [from EXCEPT ![t] = msg[t] + 1] /\ GoTo(t, "close") /\ Locked(t)
           /\ UNCHANGED <<op, msg, chosen, avoid>>
  <2>1. msg[t] + 1 \in 1 .. MaxMessage + 1
    BY <1>1, RatchetAssumption DEF Message
  <2>2. QED
    BY <1>1, <1>2, <2>1, LockKeeps DEF RotateIfDue
<1>3. CASE End({t}) /\ UNCHANGED lock
  <2>1. Started' /\ envelope' \in [Message -> 0 .. Len(rows)]
    BY DEF RotateIfDue, RatchetInv, Started, TypeOK, tableVars
  <2>2. /\ retired' = retired /\ retired' \in SUBSET (1 .. Len(rows))
        /\ faults' \in 0 .. MaxFault
    BY DEF RotateIfDue, RatchetInv, TypeOK
  <2>3. QED
    BY <1>3, <2>1, <2>2, EndKeeps DEF RotateIfDue, tableVars
<1>4. QED
  BY <1>2, <1>3 DEF RotateIfDue

\* split_on_delete() closes the open interval.
LEMMA SplitKeeps ==
    ASSUME RatchetInv, NEW t \in Thread, SplitOnDelete(t)
    PROVE  RatchetInv'
<1>1. pc[t] = "lock" /\ op[t] = "delete" /\ msg[t] \in Message
  BY DEF SplitOnDelete, RatchetInv, Calls, CallOK
<1>2. msg[t] + 1 \in 1 .. MaxMessage + 1
  BY <1>1, RatchetAssumption DEF Message
<1>3. QED
  BY <1>1, <1>2, LockKeeps DEF SplitOnDelete

\* A hard delete that finds nothing to split: the interval of its message is
\* closed, for the open one would contain the message.
LEMMA NoSplitKeeps ==
    ASSUME RatchetInv, NEW t \in Thread, NoSplit(t)
    PROVE  RatchetInv'
<1> DEFINE i == envelope[msg[t]]
<1>0. TypeOK /\ rows \in Seq(Row)
  BY DEF RatchetInv, TypeOK, Row
<1>1. /\ pc[t] = "lock" /\ op[t] = "delete" /\ ~MustSplit(t) /\ End({t})
      /\ retired' = retired \cup ({i} \ {None})
      /\ UNCHANGED <<rows, lastId, stored, envelope, column, lock, faults>>
  BY DEF NoSplit, Returned, tableVars
<1>2. msg[t] \in Message /\ (i # None => rows[i].start <= msg[t])
  BY <1>1 DEF RatchetInv, Calls, CallOK, Started
<1>3. i # None => i \in 1 .. Len(rows)
  BY <1>0, <1>2 DEF TypeOK, None
<1>4. i # None => rows[i].end # None
  <2>1. SUFFICES ASSUME i \in Open, i # None PROVE FALSE
    BY <1>0, <1>3 DEF Open
  <2>2. GetActive = i
    BY <1>0, <2>1, ActiveIsOpen DEF RatchetInv, Single
  <2>3. QED
    BY <1>1, <1>2, <2>1, <2>2 DEF MustSplit, Contains
<1> HIDE DEF i
<1>5. /\ pc' \in [Thread -> {"idle", "choose", "lock", "close", "insert", "write", "delete"}]
      /\ op' \in [Thread -> {"none", "send", "edit", "delete", "rotate"}]
      /\ msg' \in [Thread -> 0 .. MaxMessage]
      /\ from' \in [Thread -> 0 .. MaxMessage + 1]
      /\ chosen' \in [Thread -> 0 .. Len(rows)]
      /\ avoid' \in [Thread -> SUBSET (1 .. Len(rows))]
      /\ pc'[t] = "idle" /\ op'[t] = "none" /\ avoid'[t] = {}
      /\ \A u \in Thread : u # t => /\ pc'[u] = pc[u] /\ op'[u] = op[u] /\ msg'[u] = msg[u]
                                    /\ from'[u] = from[u] /\ chosen'[u] = chosen[u]
                                    /\ avoid'[u] = avoid[u]
  BY <1>0, <1>1, Ended
<1>6. TypeOK'
  <2>1. \A u \in Thread : pc'[u] \in {"close", "insert"} => lock'[Home[u]] = u
    BY <1>0, <1>1, <1>5 DEF TypeOK
  <2>2. retired' \in SUBSET (1 .. Len(rows))
    BY <1>0, <1>1, <1>3 DEF TypeOK
  <2>3. QED
    BY <1>0, <1>1, <1>5, <2>1, <2>2 DEF TypeOK
<1>7. Calls'
  <2>1. ASSUME NEW u \in Thread, u # t PROVE CallOK(u)'
    <3>1. CallOK(u)
      BY DEF RatchetInv, Calls
    <3>2. pc[u] = "write" /\ chosen[u] # None => rows'[chosen[u]].start <= msg[u]
      BY <1>1, <3>1 DEF CallOK
    <3>3. stored' = stored
      BY <1>1
    <3>4. QED
      BY <1>5, <2>1, <3>1, <3>2, <3>3, SameCall
  <2>2. CallOK(t)'
    BY <1>5, IdleCall
  <2>3. QED
    BY <2>1, <2>2 DEF Calls
<1>8. Started'
  BY <1>1 DEF RatchetInv, Started
<1>9. Single'
  BY <1>1, <1>5 DEF RatchetInv, Single, Open
<1>10. Retired'
  BY <1>1, <1>4, <1>5 DEF RatchetInv, Retired
<1>11. KeysRest'
  BY <1>5 DEF RatchetInv, KeysRest, DeletedKeyUnused
<1>12. QED
  BY <1>6, <1>7, <1>8, <1>9, <1>10, <1>11 DEF RatchetInv

\* create() closes what is open.
LEMMA CloseKeeps ==
    ASSUME OneWorker, RatchetInv, NEW t \in Thread, CloseOpen(t)
    PROVE  RatchetInv'
<1>0. TypeOK /\ rows \in Seq(Row)
  BY DEF RatchetInv, TypeOK, Row
<1>1. /\ pc[t] = "close" /\ rows' = Closed(GetActive, from[t])
      /\ pc' = [pc EXCEPT ![t] = "insert"]
      /\ UNCHANGED <<lastId, stored, envelope, column, lock, op, msg, from, chosen,
                     retired, avoid, faults>>
  BY DEF CloseOpen, GoTo, tableVars
<1>2. GetActive \in 0 .. Len(rows) /\ Open \subseteq {GetActive}
  BY <1>0, ActiveIsOpen DEF RatchetInv, Single
<1>3. from[t] \in Nat \ {0}
  BY <1>0, <1>1, RatchetAssumption DEF RatchetInv, Calls, CallOK, TypeOK, None
<1>4. /\ rows' \in Seq(Row) /\ Len(rows') = Len(rows)
      /\ \A j \in 1 .. Len(rows) :
            /\ rows'[j].start = rows[j].start
            /\ rows'[j].end = IF j = GetActive THEN from[t] ELSE rows[j].end
  <2> DEFINE n == from[t]
             R == Closed(GetActive, n)
  <2>1. /\ R \in Seq(Row) /\ Len(R) = Len(rows)
        /\ \A j \in 1 .. Len(rows) :
              /\ R[j].start = rows[j].start
              /\ R[j].end = IF j = GetActive THEN n ELSE rows[j].end
    <3>1. n \in Nat \ {0}
      BY <1>3
    <3> HIDE DEF n
    <3>2. QED
      BY <1>0, <1>2, <3>1, ClosedRows
  <2>2. rows' = R
    BY <1>1
  <2> HIDE DEF R
  <2>3. QED
    BY <2>1, <2>2
<1>5. Open' = {}
  <2>1. SUFFICES ASSUME NEW j \in 1 .. Len(rows), rows'[j].end = None PROVE FALSE
    BY <1>4 DEF Open
  <2>2. j # GetActive /\ rows[j].end = None
    BY <1>3, <1>4, <2>1 DEF None
  <2>3. j \in Open
    BY <1>0, <2>2 DEF Open
  <2>4. QED
    BY <1>2, <2>2, <2>3
<1>6. \A j \in 1 .. Len(rows) : rows'[j].end # None
  BY <1>4, <1>5 DEF Open
<1>7. \A u \in Thread : pc'[u] = IF u = t THEN "insert" ELSE pc[u]
  BY <1>0, <1>1 DEF TypeOK
<1>8. TypeOK'
  BY <1>0, <1>1, <1>4, <1>7 DEF TypeOK, Row
<1>9. Calls'
  <2>1. \A u \in Thread : pc[u] = "write" /\ chosen[u] # None =>
          rows'[chosen[u]].start <= msg[u]
    <3>1. SUFFICES ASSUME NEW u \in Thread, pc[u] = "write", chosen[u] # None
                   PROVE  rows'[chosen[u]].start <= msg[u]
      OBVIOUS
    <3>2. chosen[u] # None /\ rows[chosen[u]].start <= msg[u]
      BY <3>1 DEF RatchetInv, Calls, CallOK
    <3>3. chosen[u] \in 1 .. Len(rows)
      BY <1>0, <3>2 DEF TypeOK, None
    <3>4. QED
      BY <1>4, <3>2, <3>3
  <2>2. QED
    BY <1>1, <1>7, <2>1 DEF RatchetInv, Calls, CallOK
<1>10. Started'
  <2>1. \A m \in Message : envelope[m] # None => envelope[m] \in 1 .. Len(rows)
    BY <1>0 DEF TypeOK, None
  <2>2. QED
    BY <1>1, <1>4, <2>1 DEF RatchetInv, Started
<1>11. Single'
  BY <1>5 DEF Single
<1>12. Retired'
  <2>1. retired \subseteq 1 .. Len(rows)
    BY <1>0 DEF TypeOK
  <2>2. QED
    BY <1>1, <1>6, <2>1 DEF RatchetInv, Retired
<1>13. KeysRest'
  BY <1>1, <1>7 DEF RatchetInv, KeysRest, DeletedKeyUnused
<1>14. QED
  BY <1>8, <1>9, <1>10, <1>11, <1>12, <1>13 DEF RatchetInv

\* create() inserts the new interval, which is the only open one, and the call
\* goes on: to write with it, or to its end.
LEMMA InsertKeeps ==
    ASSUME OneWorker, RatchetInv, NEW t \in Thread, InsertInterval(t)
    PROVE  RatchetInv'
<1> USE RatchetAssumption
<1> DEFINE n == Len(rows) + 1
           r == [start |-> from[t], end |-> None]
<1>0. TypeOK /\ rows \in Seq(Row)
  BY DEF RatchetInv, TypeOK, Row
<1>1. /\ pc[t] = "insert" /\ Len(rows) < MaxInterval /\ rows' = Append(rows, r)
      /\ lock' = [lock EXCEPT ![Home[t]] = Nobody]
      /\ UNCHANGED <<lastId, stored, envelope, column, faults>>
  BY DEF InsertInterval, Unlocked, tableVars
<1>2. /\ from[t] \in Nat \ {0} /\ msg[t] \in Message /\ op[t] # "none"
      /\ op[t] \in {"send", "edit"} => from[t] = msg[t]
      /\ op[t] \in {"none", "send", "edit", "delete", "rotate"}
      /\ op[t] = "delete" => stored[msg[t]] # "absent"
  BY <1>0, <1>1 DEF RatchetInv, Calls, CallOK, TypeOK, None
<1>3. r \in Row /\ r.start = from[t] /\ r.end = None
  BY <1>2 DEF Row, None
<1> HIDE DEF r
<1>4. /\ rows' \in Seq(Row) /\ Len(rows') = n /\ rows'[n] = r /\ Len(rows) \in Nat
      /\ \A j \in 1 .. Len(rows) : rows'[j] = rows[j]
  BY <1>0, <1>1, <1>3
<1>5. Open = {}
  BY <1>1 DEF RatchetInv, Single
<1>6. \A j \in 1 .. Len(rows) : rows'[j] = rows[j] /\ rows'[j].end # None
  BY <1>0, <1>4, <1>5 DEF Open
<1>7. \A u \in Thread : pc[u] = "insert" => u = t
  BY <1>0, <1>1, Exclusive
<1>8. /\ pc' \in [Thread -> {"idle", "choose", "lock", "close", "insert", "write", "delete"}]
      /\ op' \in [Thread -> {"none", "send", "edit", "delete", "rotate"}]
      /\ msg' \in [Thread -> 0 .. MaxMessage]
      /\ from' \in [Thread -> 0 .. MaxMessage + 1]
      /\ chosen' \in [Thread -> 0 .. n]
      /\ avoid' \in [Thread -> SUBSET (1 .. Len(rows))]
      /\ retired' \in SUBSET (1 .. Len(rows)) /\ retired \subseteq retired'
      /\ avoid'[t] \subseteq retired
      /\ \/ pc'[t] = "idle" /\ op'[t] = "none"
         \/ /\ pc'[t] = "write" /\ chosen'[t] = n /\ op'[t] = op[t] /\ msg'[t] = msg[t]
            /\ from[t] = msg[t] /\ op[t] \in {"send", "edit"}
      /\ \A u \in Thread : u # t => /\ pc'[u] = pc[u] /\ op'[u] = op[u] /\ msg'[u] = msg[u]
                                    /\ from'[u] = from[u] /\ chosen'[u] = chosen[u]
                                    /\ avoid'[u] = avoid[u]
  <2>0. /\ retired \in SUBSET (1 .. Len(rows)) /\ n \in 0 .. n /\ avoid[t] \subseteq retired
        /\ \A k \in 0 .. Len(rows) : k \in 0 .. n
    BY <1>0, <1>4 DEF TypeOK, RatchetInv, Retired
  <2>1. CASE op[t] \in {"send", "edit"}
    <3>1. /\ chosen' = [chosen EXCEPT ![t] = n] /\ from' = [from EXCEPT ![t] = None]
          /\ pc' = [pc EXCEPT ![t] = "write"] /\ UNCHANGED <<op, msg, avoid, retired>>
      BY <2>1 DEF InsertInterval, GoTo
    <3>2. chosen' \in [Thread -> 0 .. n]
      BY <1>0, <2>0, <3>1 DEF TypeOK
    <3>3. from' \in [Thread -> 0 .. MaxMessage + 1]
      BY <1>0, <3>1 DEF TypeOK, None
    <3>4. pc' \in [Thread -> {"idle", "choose", "lock", "close", "insert", "write", "delete"}]
      BY <1>0, <3>1 DEF TypeOK
    <3>5. QED
      BY <1>0, <1>2, <2>0, <2>1, <3>1, <3>2, <3>3, <3>4 DEF TypeOK
  <2>2. CASE op[t] \in {"rotate", "delete"}
    <3>1. /\ End({t})
          /\ retired' = retired \/ (op[t] = "delete" /\ retired' = retired \cup ({envelope[msg[t]]} \ {None}))
      BY <2>2 DEF InsertInterval, Returned
    <3>2. {envelope[msg[t]]} \ {None} \subseteq 1 .. Len(rows)
      <4>1. envelope[msg[t]] \in 0 .. Len(rows)
        BY <1>0, <1>2 DEF TypeOK
      <4>2. QED
        BY <1>4, <4>1 DEF None
    <3>3. retired' \in SUBSET (1 .. Len(rows)) /\ retired \subseteq retired'
      BY <2>0, <3>1, <3>2
    <3>4. /\ pc' \in [Thread -> {"idle", "choose", "lock", "close", "insert", "write", "delete"}]
          /\ op' \in [Thread -> {"none", "send", "edit", "delete", "rotate"}]
          /\ msg' \in [Thread -> 0 .. MaxMessage]
          /\ from' \in [Thread -> 0 .. MaxMessage + 1]
          /\ chosen' \in [Thread -> 0 .. Len(rows)]
          /\ avoid' \in [Thread -> SUBSET (1 .. Len(rows))]
          /\ pc'[t] = "idle" /\ op'[t] = "none" /\ avoid'[t] = {}
          /\ \A u \in Thread : u # t => /\ pc'[u] = pc[u] /\ op'[u] = op[u] /\ msg'[u] = msg[u]
                                        /\ from'[u] = from[u] /\ chosen'[u] = chosen[u]
                                        /\ avoid'[u] = avoid[u]
      BY <1>0, <3>1, Ended
    <3>5. chosen' \in [Thread -> 0 .. n]
      BY <2>0, <3>4
    <3>6. QED
      BY <3>3, <3>4, <3>5
  <2>3. QED
    BY <1>2, <2>1, <2>2
<1> HIDE DEF n
<1>9. TypeOK'
  <2>1. \A u \in Thread : pc'[u] \in {"close", "insert"} => lock'[Home[u]] = u
    <3>1. SUFFICES ASSUME NEW u \in Thread, pc'[u] \in {"close", "insert"}
                   PROVE  FALSE
      OBVIOUS
    <3>2. u # t /\ pc[u] \in {"close", "insert"}
      BY <1>8, <3>1
    <3>3. QED
      BY <1>0, <1>1, <3>2, Exclusive
  <2>2. n = Len(rows) + 1
    BY DEF n
  <2>3. /\ envelope' \in [Message -> 0 .. Len(rows')] /\ column' \in [Message -> 0 .. Len(rows')]
        /\ avoid' \in [Thread -> SUBSET (1 .. Len(rows'))] /\ retired' \in SUBSET (1 .. Len(rows'))
    <3>1. 0 .. Len(rows) \subseteq 0 .. Len(rows') /\ 1 .. Len(rows) \subseteq 1 .. Len(rows')
      BY <1>4, <2>2
    <3>2. envelope' \in [Message -> 0 .. Len(rows')] /\ column' \in [Message -> 0 .. Len(rows')]
      BY <1>0, <1>1, <3>1 DEF TypeOK
    <3>3. avoid' \in [Thread -> SUBSET (1 .. Len(rows'))] /\ retired' \in SUBSET (1 .. Len(rows'))
      BY <1>8, <3>1
    <3>4. QED
      BY <3>2, <3>3
  <2>4. lock' \in [Worker -> Thread \cup {Nobody}]
    BY <1>0, <1>1 DEF TypeOK
  <2>5. Len(rows') <= MaxInterval
    BY <1>1, <1>4, <2>2
  <2>6. QED
    BY <1>0, <1>1, <1>4, <1>8, <2>1, <2>3, <2>4, <2>5 DEF TypeOK, Row
<1>10. Calls'
  <2>1. \A u \in Thread : pc[u] = "write" /\ chosen[u] # None =>
          rows'[chosen[u]].start <= msg[u]
    <3>1. SUFFICES ASSUME NEW u \in Thread, pc[u] = "write", chosen[u] # None
                   PROVE  rows'[chosen[u]].start <= msg[u]
      OBVIOUS
    <3>2. chosen[u] # None /\ rows[chosen[u]].start <= msg[u]
      BY <3>1 DEF RatchetInv, Calls, CallOK
    <3>3. chosen[u] \in 1 .. Len(rows)
      BY <1>0, <3>2 DEF TypeOK, None
    <3>4. QED
      BY <1>4, <3>2, <3>3
  <2>2. n # None /\ rows'[n].start <= from[t]
    BY <1>2, <1>3, <1>4 DEF n, None
  <2>3. ASSUME NEW u \in Thread, u # t
        PROVE  CallOK(u)'
    <3>1. CallOK(u)
      BY DEF RatchetInv, Calls
    <3>2. pc[u] = "write" /\ chosen[u] # None => rows'[chosen[u]].start <= msg[u]
      BY <2>1, <2>3
    <3>3. stored' = stored
      BY <1>1
    <3>4. QED
      BY <1>8, <2>3, <3>1, <3>2, <3>3, SameCall
  <2>4. ASSUME NEW u \in Thread, u = t
        PROVE  CallOK(u)'
    BY <1>2, <1>8, <2>2, <2>4 DEF CallOK
  <2>5. QED
    BY <2>3, <2>4 DEF Calls
<1>11. Started'
  <2>1. \A m \in Message : envelope[m] # None => envelope[m] \in 1 .. Len(rows)
    BY <1>0 DEF TypeOK, None
  <2>2. QED
    BY <1>1, <1>4, <2>1 DEF RatchetInv, Started
<1>12. Single'
  <2>1. Open' \subseteq {n}
    BY <1>4, <1>6 DEF Open, n
  <2>2. \A u \in Thread : pc'[u] # "insert"
    BY <1>7, <1>8
  <2>3. QED
    BY <2>1, <2>2 DEF Single
<1>13. Retired'
  BY <1>6, <1>8 DEF RatchetInv, Retired
<1>14. KeysRest'
  <2>1. n \notin 1 .. Len(rows)
    BY <1>4 DEF n
  <2>2. avoid'[t] \subseteq 1 .. Len(rows)
    BY <1>8
  <2>3. QED
    BY <1>8, <2>1, <2>2 DEF RatchetInv, KeysRest, DeletedKeyUnused
<1>15. QED
  BY <1>9, <1>10, <1>11, <1>12, <1>13, <1>14 DEF RatchetInv

\* The worker dies between any two statements.
LEMMA CrashKeeps ==
    ASSUME RatchetInv, NEW w \in Worker, Crash(w)
    PROVE  RatchetInv'
<1> USE RatchetAssumption
<1> DEFINE S == {t \in Thread : Home[t] = w}
<1>0. TypeOK
  BY DEF RatchetInv
<1>1. /\ End(S) /\ lock' = [lock EXCEPT ![w] = Nobody] /\ faults' \in 0 .. MaxFault
      /\ UNCHANGED <<rows, lastId, stored, envelope, column, retired>>
  BY <1>0 DEF Crash, TypeOK, tableVars
<1>2. S \in SUBSET Thread /\ \A t \in Thread \ S : Home[t] # w
  OBVIOUS
<1> HIDE DEF S
<1>3. /\ pc' \in [Thread -> {"idle", "choose", "lock", "close", "insert", "write", "delete"}]
      /\ op' \in [Thread -> {"none", "send", "edit", "delete", "rotate"}]
      /\ msg' \in [Thread -> 0 .. MaxMessage]
      /\ from' \in [Thread -> 0 .. MaxMessage + 1]
      /\ chosen' \in [Thread -> 0 .. Len(rows)]
      /\ avoid' \in [Thread -> SUBSET (1 .. Len(rows))]
      /\ \A t \in S : pc'[t] = "idle" /\ op'[t] = "none" /\ avoid'[t] = {}
      /\ \A t \in Thread \ S : /\ pc'[t] = pc[t] /\ op'[t] = op[t] /\ msg'[t] = msg[t]
                               /\ from'[t] = from[t] /\ chosen'[t] = chosen[t]
                               /\ avoid'[t] = avoid[t]
  BY <1>0, <1>1, <1>2, Ended
<1>4. TypeOK'
  <2>1. \A t \in Thread : pc'[t] \in {"close", "insert"} => lock'[Home[t]] = t
    BY <1>0, <1>1, <1>2, <1>3 DEF TypeOK
  <2>2. lock' \in [Worker -> Thread \cup {Nobody}]
    BY <1>0, <1>1 DEF TypeOK
  <2>3. QED
    BY <1>0, <1>1, <1>3, <2>1, <2>2 DEF TypeOK
<1>5. Calls'
  <2>1. ASSUME NEW u \in Thread, u \in S
        PROVE  CallOK(u)'
    BY <1>3, <2>1, IdleCall
  <2>2. ASSUME NEW u \in Thread, u \notin S
        PROVE  CallOK(u)'
    <3>1. CallOK(u)
      BY DEF RatchetInv, Calls
    <3>2. pc[u] = "write" /\ chosen[u] # None => rows'[chosen[u]].start <= msg[u]
      BY <1>1, <3>1 DEF CallOK
    <3>3. stored' = stored
      BY <1>1
    <3>4. QED
      BY <1>3, <2>2, <3>1, <3>2, <3>3, SameCall
  <2>3. QED
    BY <2>1, <2>2 DEF Calls
<1>6. Started'
  BY <1>1 DEF RatchetInv, Started
<1>7. Single' /\ Retired' /\ KeysRest'
  BY <1>1, <1>3, QuietKeys DEF RatchetInv
<1>8. QED
  BY <1>4, <1>5, <1>6, <1>7 DEF RatchetInv

\* Every step keeps the invariant.
LEMMA StepRatchet == ASSUME OneWorker, RatchetInv, [Next]_vars PROVE RatchetInv'
<1>1. ASSUME NEW t \in Thread,
             \/ Send(t)
             \/ \E m \in Message : Edit(t, m) \/ Delete(t, m)
             \/ InsertMessage(t) \/ SendFails(t) \/ EditFallsBack(t)
             \/ UpdateContent(t) \/ HardDelete(t)
             \/ ChooseInterval(t) \/ EnsureInterval(t) \/ RotateIfDue(t)
             \/ NoSplit(t) \/ SplitOnDelete(t) \/ CloseOpen(t) \/ InsertInterval(t)
             \/ Fails(t)
      PROVE  RatchetInv'
  BY <1>1, CallKeeps, InsertMessageKeeps, SendFailsKeeps, EditFallsBackKeeps,
     FailsKeeps, UpdateContentKeeps, HardDeleteKeeps, ChooseKeeps, EnsureKeeps, RotateKeeps, NoSplitKeeps, SplitKeeps,
     CloseKeeps, InsertKeeps
<1>2. CASE UNCHANGED vars
  <2>1. UNCHANGED <<rows, lastId, stored, envelope, column, lock, pc, op, msg, from,
                    chosen, avoid, retired, faults>>
    BY <1>2 DEF vars, tableVars, callVars
  <2>2. TypeOK'
    BY <2>1 DEF RatchetInv, TypeOK
  <2>3. Calls' /\ Started'
    BY <2>1 DEF RatchetInv, Calls, CallOK, Started
  <2>4. Single' /\ Retired' /\ KeysRest'
    BY <2>1, QuietKeys DEF RatchetInv
  <2>5. QED
    BY <2>2, <2>3, <2>4 DEF RatchetInv
<1>3. QED
  BY <1>1, <1>2, SoftDeleteKeeps, CrashKeeps DEF Next

-----------------------------------------------------------------------------

\* The inductive invariant: what the lock of the one manager protects, and
\* what holds of the interval that encrypt() uses without it.
THEOREM RatchetInvariant == OneWorker /\ Spec => []RatchetInv
<1> DEFINE I == OneWorker /\ RatchetInv
<1>1. OneWorker /\ Init => I
  BY InitRatchet
<1>2. I /\ [Next]_vars => I'
  BY StepRatchet DEF OneWorker
<1>3. I => RatchetInv
  OBVIOUS
<1> HIDE DEF I
<1>4. QED
  BY <1>1, <1>2, <1>3, PTL DEF Spec

\* Within one worker every variable keeps its type, and a thread that opens an
\* interval holds the lock.
THEOREM RatchetTypes == OneWorker /\ Spec => []TypeOK
<1>1. RatchetInv => TypeOK
  BY DEF RatchetInv
<1>2. QED
  BY <1>1, RatchetInvariant, PTL

\* Within one worker a conversation has one open interval at most, whatever
\* a crash between closing and inserting leaves behind.
THEOREM OneIntervalOpen == OneWorker /\ Spec => []OneOpen
<1>1. RatchetInv => OneOpen
  <2> SUFFICES ASSUME RatchetInv PROVE OneOpen
    OBVIOUS
  <2>1. \A i, j \in Open : i = j
    BY DEF RatchetInv, Single
  <2>2. CASE Open = {}
    BY <2>2, FS_EmptySet DEF OneOpen
  <2>3. CASE Open # {}
    <3>1. PICK i \in Open : TRUE
      BY <2>3
    <3>2. Open = {i}
      BY <2>1, <3>1
    <3>3. Cardinality({i}) = 1
      BY FS_Singleton
    <3>4. QED
      BY <3>2, <3>3 DEF OneOpen
  <2>4. QED
    BY <2>2, <2>3
<1>2. QED
  BY <1>1, RatchetInvariant, PTL

\* Within one worker no call that began after the hard delete of a message
\* returned encrypts with the key that had encrypted the message, although
\* encrypt() looks at the open interval without the lock and workers die between
\* any two statements; provided that no statement of split_on_delete() fails.
THEOREM DeletedKeysRest ==
    OneWorker /\ "split" \notin Faults /\ Spec => []DeletedKeyUnused
<1> SUFFICES ASSUME "split" \notin Faults
             PROVE  OneWorker /\ Spec => []DeletedKeyUnused
  OBVIOUS
<1>1. RatchetInv => DeletedKeyUnused
  BY DEF RatchetInv, KeysRest
<1>2. QED
  BY <1>1, RatchetInvariant, PTL

-----------------------------------------------------------------------------
(* How many messages are sent under an interval.                           *)

\* The live messages sent under interval i, the calls that have inserted
\* theirs and not yet been through rotate_if_due(), and the sends that will
\* still insert one under i.
SentUnder(i) == {m \in Message : stored[m] = "live" /\ column[m] = i}
Rotating == {t \in Thread : pc[t] # "idle" /\ op[t] = "rotate"}
Writing(i) == {t \in Thread : pc[t] = "write" /\ op[t] = "send" /\ chosen[t] = i}

\* The calls that deaths and failures kept from rotating.
Lost == Cardinality(Thread) * faults

\* Above the limit, an open interval has a message for a call that has yet to
\* rotate it or died before it did; a closed one may still get those of its
\* writers.
Loaded(i) ==
    IF rows[i].end = None
    THEN Cardinality(SentUnder(i)) <= Limit - 1 + Cardinality(Rotating) + Lost
    ELSE Cardinality(SentUnder(i)) + Cardinality(Writing(i))
             <= Limit - 1 + Cardinality(Thread) + Lost

Load == \A i \in DOMAIN rows : Loaded(i)

\* The counts are numbers, and rotating and writing threads differ.
LEMMA Counts ==
    ASSUME TypeOK, NEW i
    PROVE  /\ IsFiniteSet(SentUnder(i)) /\ Cardinality(SentUnder(i)) \in Nat
           /\ IsFiniteSet(Rotating) /\ Cardinality(Rotating) \in Nat
           /\ IsFiniteSet(Writing(i)) /\ Cardinality(Writing(i)) \in Nat
           /\ Cardinality(Thread) \in Nat /\ Lost \in Nat /\ Limit \in Nat \ {0}
           /\ Cardinality(Rotating) + Cardinality(Writing(i)) <= Cardinality(Thread)
<1>1. IsFiniteSet(Message)
  BY RatchetAssumption, FS_Interval DEF Message
<1>2. SentUnder(i) \subseteq Message
  BY DEF SentUnder
<1>3. IsFiniteSet(SentUnder(i)) /\ Cardinality(SentUnder(i)) \in Nat
  BY <1>1, <1>2, FS_Subset, FS_CardinalityType
<1>4. IsFiniteSet(Thread) /\ Cardinality(Thread) \in Nat
  BY RatchetAssumption, FS_CardinalityType
<1>5. /\ Rotating \subseteq Thread /\ Writing(i) \subseteq Thread
      /\ Rotating \cap Writing(i) = {}
  BY DEF Rotating, Writing
<1>6. /\ IsFiniteSet(Rotating) /\ Cardinality(Rotating) \in Nat
      /\ IsFiniteSet(Writing(i)) /\ Cardinality(Writing(i)) \in Nat
  BY <1>4, <1>5, FS_Subset, FS_CardinalityType
<1>7. Cardinality(Rotating) + Cardinality(Writing(i)) <= Cardinality(Thread)
  <2>1. Rotating \cup Writing(i) \subseteq Thread
    BY <1>5
  <2>2. Cardinality(Rotating \cup Writing(i)) <= Cardinality(Thread)
    BY <1>4, <2>1, FS_Subset
  <2>3. Cardinality(Rotating \cup Writing(i)) =
            Cardinality(Rotating) + Cardinality(Writing(i)) - Cardinality(Rotating \cap Writing(i))
    BY <1>6, FS_Union
  <2>4. Cardinality(Rotating \cap Writing(i)) = 0
    BY <1>5, FS_EmptySet
  <2>5. QED
    BY <1>4, <1>6, <2>2, <2>3, <2>4
<1>8. Lost \in Nat
  <2>1. faults \in Nat
    BY RatchetAssumption DEF TypeOK
  <2>2. QED
    BY <1>4, <2>1 DEF Lost
<1>9. QED
  BY <1>3, <1>4, <1>6, <1>7, <1>8, RatchetAssumption

\* An interval that no message joins, that no rotation leaves while it is open
\* and that gets no writer while it is closed, stays within its load.
LEMMA QuietLoad ==
    ASSUME TypeOK, TypeOK', NEW i, Loaded(i), SentUnder(i)' \subseteq SentUnder(i),
           rows'[i].end = rows[i].end, faults' = faults,
           rows[i].end = None => Rotating \subseteq Rotating',
           rows[i].end # None => Writing(i)' \subseteq Writing(i)
    PROVE  Loaded(i)'
<1>1. /\ Cardinality(SentUnder(i)') <= Cardinality(SentUnder(i))
      /\ Cardinality(SentUnder(i)') \in Nat
  BY Counts, FS_Subset, FS_CardinalityType
<1>2. Lost' = Lost /\ Cardinality(Thread)' = Cardinality(Thread)
  BY DEF Lost
<1>3. CASE rows[i].end = None
  <2>1. Rotating' \subseteq Thread
    BY DEF Rotating
  <2>2. IsFiniteSet(Rotating')
    BY <2>1, RatchetAssumption, FS_Subset
  <2>3. Cardinality(Rotating) <= Cardinality(Rotating') /\ Cardinality(Rotating') \in Nat
    BY <1>3, <2>2, FS_Subset, FS_CardinalityType
  <2>4. Cardinality(SentUnder(i)) <= Limit - 1 + Cardinality(Rotating) + Lost
    BY <1>3 DEF Loaded
  <2>5. Cardinality(SentUnder(i)') <= Limit - 1 + Cardinality(Rotating') + Lost
    BY <1>1, <2>3, <2>4, Counts
  <2>6. QED
    BY <1>2, <1>3, <2>5 DEF Loaded
<1>4. CASE rows[i].end # None
  <2>1. Cardinality(Writing(i)') <= Cardinality(Writing(i)) /\ Cardinality(Writing(i)') \in Nat
    BY <1>4, Counts, FS_Subset, FS_CardinalityType
  <2>2. Cardinality(SentUnder(i)) + Cardinality(Writing(i))
            <= Limit - 1 + Cardinality(Thread) + Lost
    BY <1>4 DEF Loaded
  <2>3. Cardinality(SentUnder(i)') + Cardinality(Writing(i)')
            <= Limit - 1 + Cardinality(Thread) + Lost
    BY <1>1, <2>1, <2>2, Counts
  <2>4. QED
    BY <1>2, <1>4, <2>3 DEF Loaded
<1>5. QED
  BY <1>3, <1>4

\* A step that closes and opens no interval, and moves one thread.
LEMMA QuietStep ==
    ASSUME TypeOK, TypeOK', Load, UNCHANGED <<rows, faults, column>>,
           \A m \in Message : stored'[m] = "live" => stored[m] = "live",
           \A u \in Thread : pc[u] # "idle" /\ op[u] = "rotate" =>
                                 pc'[u] # "idle" /\ op'[u] = "rotate",
           \A u \in Thread : pc'[u] = "write" /\ op'[u] = "send" =>
               \/ pc[u] = "write" /\ op[u] = "send" /\ chosen'[u] = chosen[u]
               \/ rows[chosen'[u]].end = None
    PROVE  Load'
<1>1. ASSUME NEW i \in DOMAIN rows
      PROVE  Loaded(i)'
  <2>1. SentUnder(i)' \subseteq SentUnder(i)
    BY DEF SentUnder
  <2>2. Rotating \subseteq Rotating'
    BY DEF Rotating
  <2>3. rows[i].end # None => Writing(i)' \subseteq Writing(i)
    BY DEF Writing
  <2>4. Loaded(i)
    BY DEF Load
  <2>5. QED
    BY <2>1, <2>2, <2>3, <2>4, QuietLoad
<1>2. QED
  BY <1>1 DEF Load

\* Calls begin.
LEMMA BeginLoad ==
    ASSUME RatchetInv, TypeOK', Load, NEW t \in Thread, NEW o \in {"send", "edit", "delete"},
           NEW m \in Message, NEW where \in {"choose", "delete"}, Begin(t, o, m, where),
           UNCHANGED <<stored, column>>
    PROVE  Load'
<1>1. /\ pc[t] = "idle" /\ op' = [op EXCEPT ![t] = o] /\ pc' = [pc EXCEPT ![t] = where]
      /\ UNCHANGED <<rows, chosen, faults>>
  BY DEF Begin, GoTo
<1>2. \A u \in Thread : /\ pc'[u] = IF u = t THEN where ELSE pc[u]
                        /\ op'[u] = IF u = t THEN o ELSE op[u]
  BY <1>1 DEF RatchetInv, TypeOK
<1>3. QED
  BY <1>1, <1>2, QuietStep DEF RatchetInv

LEMMA CallLoad ==
    ASSUME RatchetInv, TypeOK', Load, NEW t \in Thread,
           Send(t) \/ \E m \in Message : Edit(t, m) \/ Delete(t, m)
    PROVE  Load'
<1>1. CASE Send(t)
  <2>1. lastId + 1 \in Message
    BY <1>1, RatchetAssumption DEF Send, Message, RatchetInv, TypeOK
  <2>2. QED
    BY <1>1, <2>1, BeginLoad DEF Send
<1>2. ASSUME NEW m \in Message, Edit(t, m) \/ Delete(t, m) PROVE Load'
  BY <1>2, BeginLoad DEF Edit, Delete, tableVars
<1>3. QED
  BY <1>1, <1>2

\* A message is hidden or deleted: its interval has one message less.
LEMMA HideLoad ==
    ASSUME RatchetInv, TypeOK', Load,
           (\E m \in Message : SoftDelete(m)) \/ (\E t \in Thread : HardDelete(t))
    PROVE  Load'
<1>1. ASSUME NEW m \in Message, SoftDelete(m) PROVE Load'
  <2>1. /\ stored' = [stored EXCEPT ![m] = "hidden"]
        /\ UNCHANGED <<rows, column, pc, op, chosen, faults>>
    BY <1>1 DEF SoftDelete, callVars
  <2>2. \A n \in Message : stored'[n] = "live" => stored[n] = "live"
    BY <2>1 DEF RatchetInv, TypeOK
  <2>3. QED
    BY <2>1, <2>2, QuietStep DEF RatchetInv
<1>2. ASSUME NEW t \in Thread, HardDelete(t) PROVE Load'
  <2>1. /\ pc[t] = "delete" /\ stored' = [stored EXCEPT ![msg[t]] = "deleted"]
        /\ pc' = [pc EXCEPT ![t] = "lock"]
        /\ UNCHANGED <<rows, column, op, chosen, faults>>
    BY <1>2 DEF HardDelete, GoTo
  <2>2. \A n \in Message : stored'[n] = "live" => stored[n] = "live"
    BY <2>1 DEF RatchetInv, TypeOK
  <2>3. \A u \in Thread : pc'[u] = IF u = t THEN "lock" ELSE pc[u]
    BY <2>1 DEF RatchetInv, TypeOK
  <2>4. QED
    BY <2>1, <2>2, <2>3, QuietStep DEF RatchetInv
<1>3. QED
  BY <1>1, <1>2

\* Calls that end, other than a rotation, leave the load alone.
LEMMA EndLoad ==
    ASSUME RatchetInv, TypeOK', Load, NEW t \in Thread,
           SendFails(t) \/ UpdateContent(t) \/ NoSplit(t)
    PROVE  Load'
<1>1. /\ op[t] # "rotate" /\ End({t})
      /\ UNCHANGED <<rows, faults, column, stored>>
  BY DEF SendFails, UpdateContent, NoSplit, Returned, tableVars
<1>2. TypeOK
  BY DEF RatchetInv
<1>3. /\ pc'[t] = "idle"
      /\ \A u \in Thread : u # t =>
            pc'[u] = pc[u] /\ op'[u] = op[u] /\ chosen'[u] = chosen[u]
  BY <1>1, <1>2, Ended
<1>4. QED
  BY <1>1, <1>2, <1>3, QuietStep

\* An edit that falls back sends nothing.
LEMMA EditFallsBackLoad ==
    ASSUME RatchetInv, TypeOK', Load, NEW t \in Thread, EditFallsBack(t)
    PROVE  Load'
<1>1. /\ op[t] = "edit" /\ pc' = [pc EXCEPT ![t] = "write"]
      /\ chosen' = [chosen EXCEPT ![t] = None]
      /\ UNCHANGED <<rows, stored, column, op, faults>>
  BY DEF EditFallsBack, GoTo, tableVars
<1>2. TypeOK
  BY DEF RatchetInv
<1>3. \A u \in Thread : u # t => pc'[u] = pc[u] /\ chosen'[u] = chosen[u]
  BY <1>1, <1>2 DEF TypeOK
<1>4. QED
  BY <1>1, <1>2, <1>3, QuietStep

\* An interval is chosen, which is open, or the call takes the lock.
LEMMA ChooseLoad ==
    ASSUME RatchetInv, TypeOK', Load, NEW t \in Thread,
           ChooseInterval(t) \/ EnsureInterval(t)
    PROVE  Load'
<1>0. TypeOK /\ rows \in Seq(Row)
  BY DEF RatchetInv, TypeOK, Row
<1>1. /\ pc[t] \in {"choose", "lock"} /\ op[t] \in {"send", "edit"}
      /\ UNCHANGED <<rows, column, stored, op, faults>>
      /\ \/ /\ GetActive # None /\ chosen' = [chosen EXCEPT ![t] = GetActive]
            /\ pc' = [pc EXCEPT ![t] = "write"]
         \/ chosen' = chosen /\ pc' = [pc EXCEPT ![t] = "lock"]
         \/ chosen' = chosen /\ pc' = [pc EXCEPT ![t] = "close"]
  <2>1. CASE ChooseInterval(t)
    BY <2>1 DEF ChooseInterval, GoTo, tableVars, RatchetInv, Calls, CallOK
  <2>2. CASE EnsureInterval(t)
    BY <2>2 DEF EnsureInterval, GoTo, tableVars
  <2>3. QED
    BY <2>1, <2>2
<1>2. GetActive # None => rows[GetActive].end = None
  <2>1. GetActive # None => Open # {} /\ GetActive \in Open
    <3>1. \A i, j \in Open : i = j
      BY DEF RatchetInv, Single
    <3>2. QED
      BY <1>0, <3>1, ActiveIsOpen
  <2>2. QED
    BY <2>1 DEF Open
<1>3. \A u \in Thread :
        /\ u # t => pc'[u] = pc[u] /\ chosen'[u] = chosen[u]
        /\ pc'[t] # "write" \/ rows[chosen'[t]].end = None
        /\ pc'[t] # "idle"
  BY <1>0, <1>1, <1>2 DEF TypeOK
<1>4. QED
  BY <1>0, <1>1, <1>3, QuietStep

\* The message is inserted: its open interval gains a message and a call that
\* will rotate it; its closed interval gains what it loses of writers.
LEMMA InsertMessageLoad ==
    ASSUME RatchetInv, TypeOK', Load, NEW t \in Thread, InsertMessage(t)
    PROVE  Load'
<1> DEFINE m == msg[t]
           c == chosen[t]
<1>0. TypeOK
  BY DEF RatchetInv
<1>1. /\ pc[t] = "write" /\ op[t] = "send" /\ m \in Message
      /\ stored' = [stored EXCEPT ![m] = "live"] /\ column' = [column EXCEPT ![m] = c]
      /\ op' = [op EXCEPT ![t] = "rotate"] /\ pc' = [pc EXCEPT ![t] = "lock"]
      /\ chosen' = [chosen EXCEPT ![t] = None] /\ UNCHANGED <<rows, faults>>
  BY DEF InsertMessage, GoTo, RatchetInv, Calls, CallOK
<1>2. \A n \in Message : /\ stored'[n] = IF n = m THEN "live" ELSE stored[n]
                         /\ column'[n] = IF n = m THEN c ELSE column[n]
  BY <1>0, <1>1 DEF TypeOK
<1>3. \A u \in Thread : /\ pc'[u] = IF u = t THEN "lock" ELSE pc[u]
                        /\ op'[u] = IF u = t THEN "rotate" ELSE op[u]
                        /\ u # t => chosen'[u] = chosen[u]
  BY <1>0, <1>1 DEF TypeOK
<1>4. t \in Writing(c)
  BY <1>1 DEF Writing
<1> HIDE DEF m, c
<1>5. t \notin Rotating /\ Rotating' = Rotating \cup {t}
  BY <1>1, <1>3 DEF Rotating
<1>6. Cardinality(Rotating') = Cardinality(Rotating) + 1
  BY <1>0, <1>5, Counts, FS_AddElement
<1>7. ASSUME NEW i \in DOMAIN rows, i # c
      PROVE  Loaded(i)'
  <2>1. SentUnder(i)' \subseteq SentUnder(i)
    BY <1>2, <1>7 DEF SentUnder
  <2>2. Rotating \subseteq Rotating' /\ Writing(i)' \subseteq Writing(i)
    BY <1>3, <1>5 DEF Writing
  <2>3. QED
    BY <1>0, <1>1, <2>1, <2>2, QuietLoad DEF Load
<1>8. ASSUME NEW i \in DOMAIN rows, i = c
      PROVE  Loaded(i)'
  <2>1. SentUnder(i)' \subseteq SentUnder(i) \cup {m}
    BY <1>2 DEF SentUnder
  <2>2. /\ IsFiniteSet(SentUnder(i) \cup {m})
        /\ Cardinality(SentUnder(i) \cup {m}) \in
               {Cardinality(SentUnder(i)), Cardinality(SentUnder(i)) + 1}
    BY <1>0, Counts, FS_AddElement
  <2>3. /\ Cardinality(SentUnder(i)') <= Cardinality(SentUnder(i) \cup {m})
        /\ Cardinality(SentUnder(i)') \in Nat
    BY <2>1, <2>2, FS_Subset, FS_CardinalityType
  <2>4. Cardinality(SentUnder(i)') <= Cardinality(SentUnder(i)) + 1
    BY <1>0, <2>2, <2>3, Counts
  <2>5. Lost' = Lost /\ rows'[i].end = rows[i].end
    BY <1>1 DEF Lost
  <2>6. Loaded(i)
    BY DEF Load
  <2>7. CASE rows[i].end = None
    <3>1. Cardinality(SentUnder(i)') <= Limit - 1 + Cardinality(Rotating') + Lost
      BY <1>0, <1>6, <2>3, <2>4, <2>6, <2>7, Counts DEF Loaded
    <3>2. QED
      BY <2>5, <2>7, <3>1 DEF Loaded
  <2>8. CASE rows[i].end # None
    <3>1. Writing(i)' = Writing(i) \ {t}
      BY <1>1, <1>3 DEF Writing
    <3>2. Cardinality(Writing(i)') = Cardinality(Writing(i)) - 1
      BY <1>0, <1>4, <1>8, <3>1, Counts, FS_RemoveElement
    <3>3. Cardinality(SentUnder(i)') + Cardinality(Writing(i)')
              <= Limit - 1 + Cardinality(Thread) + Lost
      BY <1>0, <2>3, <2>4, <2>6, <2>8, <3>2, Counts DEF Loaded
    <3>4. QED
      BY <2>5, <2>8, <3>3 DEF Loaded
  <2>9. QED
    BY <2>7, <2>8
<1>9. QED
  BY <1>1, <1>7, <1>8 DEF Load

\* A rotation that is not due ends: the open interval is below the limit.
LEMMA RotateLoad ==
    ASSUME RatchetInv, TypeOK', Load, NEW t \in Thread, RotateIfDue(t)
    PROVE  Load'
<1>0. TypeOK /\ rows \in Seq(Row)
  BY DEF RatchetInv, TypeOK, Row
<1>1. UNCHANGED <<rows, stored, column, faults>> /\ pc[t] = "lock" /\ op[t] = "rotate"
  BY DEF RotateIfDue, tableVars
<1>2. CASE pc' = [pc EXCEPT ![t] = "close"] /\ UNCHANGED <<op, chosen>>
  <2>1. \A u \in Thread : pc'[u] = IF u = t THEN "close" ELSE pc[u]
    BY <1>0, <1>2 DEF TypeOK
  <2>2. QED
    BY <1>0, <1>1, <1>2, <2>1, QuietStep
<1>3. CASE (GetActive # None => ~IsFull(GetActive)) /\ End({t})
  <2>1. /\ pc'[t] = "idle"
        /\ \A u \in Thread : u # t =>
              pc'[u] = pc[u] /\ op'[u] = op[u] /\ chosen'[u] = chosen[u]
    BY <1>0, <1>3, Ended
  <2>2. ASSUME NEW i \in DOMAIN rows, rows[i].end # None
        PROVE  Loaded(i)'
    <3>1. SentUnder(i)' \subseteq SentUnder(i) /\ Writing(i)' \subseteq Writing(i)
      BY <1>1, <2>1 DEF SentUnder, Writing
    <3>2. QED
      BY <1>0, <1>1, <2>2, <3>1, QuietLoad DEF Load
  <2>3. ASSUME NEW i \in DOMAIN rows, rows[i].end = None
        PROVE  Loaded(i)'
    <3>1. i \in Open /\ \A j, k \in Open : j = k
      BY <2>3 DEF Open, RatchetInv, Single
    <3>2. GetActive = i /\ GetActive # None
      BY <1>0, <3>1, ActiveIsOpen
    <3>3. ~(Cardinality(SentUnder(i)) >= Limit)
      BY <1>3, <3>2 DEF IsFull, SentUnder
    <3>4. Cardinality(Rotating') \in Nat
      <4>1. Rotating' \subseteq Thread
        BY DEF Rotating
      <4>2. QED
        BY <4>1, RatchetAssumption, FS_Subset, FS_CardinalityType
    <3>5. Cardinality(SentUnder(i)) <= Limit - 1 + Cardinality(Rotating') + Lost
      BY <1>0, <3>3, <3>4, Counts
    <3>6. SentUnder(i)' = SentUnder(i) /\ Lost' = Lost /\ rows'[i].end = None
      BY <1>1, <2>3 DEF SentUnder, Lost
    <3>7. QED
      BY <3>5, <3>6 DEF Loaded
  <2>4. QED
    BY <1>1, <2>2, <2>3 DEF Load
<1>4. QED
  BY <1>2, <1>3 DEF RotateIfDue, GoTo

\* The open interval is closed: no more messages can join it than there are
\* threads that rotate or write, and no thread does both.
LEMMA CloseLoad ==
    ASSUME RatchetInv, TypeOK', Load, NEW t \in Thread, SplitOnDelete(t) \/ CloseOpen(t)
    PROVE  Load'
<1>0. TypeOK /\ rows \in Seq(Row) /\ Len(rows) \in Nat
  <2>1. TypeOK /\ rows \in Seq(Row)
    BY DEF RatchetInv, TypeOK, Row
  <2>2. QED
    BY <2>1
<1> DEFINE n == IF pc[t] = "close" THEN from[t] ELSE msg[t] + 1
<1>1. /\ rows' = Closed(GetActive, n) /\ n \in Nat \ {0} /\ pc[t] \in {"lock", "close"}
      /\ pc' \in {[pc EXCEPT ![t] = "close"], [pc EXCEPT ![t] = "insert"]}
      /\ UNCHANGED <<stored, column, op, chosen, faults>>
  <2>1. CASE SplitOnDelete(t)
    BY <1>0, <2>1 DEF SplitOnDelete, GoTo, tableVars, RatchetInv, Calls, CallOK, TypeOK, Message
  <2>2. CASE CloseOpen(t)
    BY <1>0, <2>2 DEF CloseOpen, GoTo, tableVars, RatchetInv, Calls, CallOK, TypeOK, None
  <2>3. QED
    BY <2>1, <2>2
<1>3. \A u \in Thread : /\ u # t => pc'[u] = pc[u]
                        /\ pc'[t] \in {"close", "insert"}
  BY <1>0, <1>1 DEF TypeOK
<1> HIDE DEF n
<1>4. /\ GetActive \in 0 .. Len(rows) /\ Len(rows') = Len(rows) /\ rows' \in Seq(Row)
      /\ \A j \in 1 .. Len(rows) : rows'[j].end = IF j = GetActive THEN n ELSE rows[j].end
  <2>1. \A i, j \in Open : i = j
    BY DEF RatchetInv, Single
  <2>2. GetActive \in 0 .. Len(rows)
    BY <1>0, <2>1, ActiveIsOpen
  <2>3. /\ Closed(GetActive, n) \in Seq(Row) /\ Len(Closed(GetActive, n)) = Len(rows)
        /\ \A j \in 1 .. Len(rows) :
              Closed(GetActive, n)[j].end = IF j = GetActive THEN n ELSE rows[j].end
    BY <1>0, <1>1, <2>2, ClosedRows
  <2>4. QED
    BY <1>1, <2>2, <2>3
<1>5. Rotating' = Rotating /\ Lost' = Lost
  BY <1>1, <1>3 DEF Rotating, Lost
<1>6. ASSUME NEW i \in 1 .. Len(rows)
      PROVE  /\ SentUnder(i)' = SentUnder(i) /\ Writing(i)' = Writing(i)
             /\ Loaded(i)
  BY <1>0, <1>1, <1>3 DEF SentUnder, Writing, Load
<1>7. ASSUME NEW i \in 1 .. Len(rows), i # GetActive
      PROVE  Loaded(i)'
  BY <1>4, <1>5, <1>6, <1>7 DEF Loaded
<1>8. ASSUME NEW i \in 1 .. Len(rows), i = GetActive
      PROVE  Loaded(i)'
  <2>1. Cardinality(SentUnder(i)) + Cardinality(Writing(i))
            <= Limit - 1 + Cardinality(Thread) + Lost
    BY <1>0, <1>6, Counts DEF Loaded
  <2>2. rows'[i].end # None
    BY <1>1, <1>4, <1>8 DEF None
  <2>3. QED
    BY <1>5, <1>6, <2>1, <2>2 DEF Loaded
<1>9. QED
  BY <1>4, <1>7, <1>8 DEF Load

\* The new interval protects no message; nobody writes with a closed one who
\* did not before.
LEMMA InsertLoad ==
    ASSUME OneWorker, RatchetInv, TypeOK', Load, NEW t \in Thread, InsertInterval(t)
    PROVE  Load'
<1> DEFINE n == Len(rows) + 1
           r == [start |-> from[t], end |-> None]
<1>0. TypeOK /\ rows \in Seq(Row)
  BY DEF RatchetInv, TypeOK, Row
<1>1. /\ pc[t] = "insert" /\ rows' = Append(rows, r)
      /\ UNCHANGED <<stored, column, faults>>
  BY DEF InsertInterval, tableVars
<1>2. r \in Row /\ r.end = None
  BY <1>0, <1>1, RatchetAssumption DEF RatchetInv, Calls, CallOK, TypeOK, Row, None
<1> HIDE DEF r
<1>3. /\ rows' \in Seq(Row) /\ Len(rows') = n /\ rows'[n] = r /\ Len(rows) \in Nat
      /\ \A j \in 1 .. Len(rows) : rows'[j] = rows[j]
  BY <1>0, <1>1, <1>2
<1>4. \A j \in 1 .. Len(rows) : rows[j].end # None
  BY <1>0, <1>1 DEF RatchetInv, Single, Open
<1>5. /\ \/ pc'[t] = "idle"
         \/ pc'[t] = "write" /\ chosen'[t] = n
      /\ \A u \in Thread : u # t =>
            pc'[u] = pc[u] /\ op'[u] = op[u] /\ chosen'[u] = chosen[u]
  <2>1. op[t] \in {"send", "edit", "rotate", "delete"}
    BY <1>0, <1>1 DEF RatchetInv, Calls, CallOK, TypeOK
  <2>2. CASE op[t] \in {"send", "edit"}
    <3>1. /\ chosen' = [chosen EXCEPT ![t] = n] /\ pc' = [pc EXCEPT ![t] = "write"]
          /\ op' = op
      BY <2>2 DEF InsertInterval, GoTo
    <3> HIDE DEF n
    <3>2. QED
      BY <1>0, <3>1 DEF TypeOK
  <2>3. CASE op[t] \in {"rotate", "delete"}
    <3>1. End({t})
      BY <2>3 DEF InsertInterval, Returned
    <3>2. QED
      BY <1>0, <3>1, Ended
  <2>4. QED
    BY <2>1, <2>2, <2>3
<1>6. ASSUME NEW i \in 1 .. Len(rows)
      PROVE  Loaded(i)'
  <2>1. i # n
    BY <1>3
  <2> HIDE DEF n
  <2>2. SentUnder(i)' \subseteq SentUnder(i)
    BY <1>1 DEF SentUnder
  <2>3. Writing(i)' \subseteq Writing(i)
    BY <1>5, <2>1 DEF Writing
  <2>4. rows'[i].end = rows[i].end /\ rows[i].end # None /\ Loaded(i)
    BY <1>0, <1>3, <1>4 DEF Load
  <2>5. QED
    BY <1>0, <1>1, <2>2, <2>3, <2>4, QuietLoad
<1>7. ASSUME NEW i \in 1 .. Len(rows'), i \notin 1 .. Len(rows)
      PROVE  Loaded(i)'
  <2>1. i = n /\ i \notin 0 .. Len(rows) /\ rows'[i].end = None
    BY <1>2, <1>3, <1>7
  <2>2. \A m \in Message : column[m] \in 0 .. Len(rows)
    BY <1>0 DEF TypeOK
  <2>3. SentUnder(i)' = {}
    BY <1>1, <2>1, <2>2 DEF SentUnder
  <2>4. Cardinality(SentUnder(i)') = 0
    BY <2>3, FS_EmptySet
  <2>5. Cardinality(Rotating') \in Nat
    <3>1. Rotating' \subseteq Thread
      BY DEF Rotating
    <3>2. QED
      BY <3>1, RatchetAssumption, FS_Subset, FS_CardinalityType
  <2>6. Lost' = Lost
    BY <1>1 DEF Lost
  <2>7. Cardinality(SentUnder(i)') <= Limit - 1 + Cardinality(Rotating') + Lost
    <3>1. Lost \in Nat /\ Limit \in Nat \ {0}
      BY <1>0, Counts
    <3>2. QED
      BY <2>4, <2>5, <3>1
  <2>8. QED
    BY <2>1, <2>6, <2>7 DEF Loaded
<1>8. QED
  BY <1>3, <1>6, <1>7 DEF Load

\* A death or a failure takes away at most as many rotations as there are
\* threads.
LEMMA FaultLoad ==
    ASSUME RatchetInv, TypeOK', Load, NEW S \in SUBSET Thread, End(S),
           faults' = faults + 1, UNCHANGED <<rows, stored, column>>
    PROVE  Load'
<1>0. TypeOK
  BY DEF RatchetInv
<1>1. End(S) /\ faults' = faults + 1 /\ UNCHANGED <<rows, stored, column>>
  OBVIOUS
<1>2. S \in SUBSET Thread
  OBVIOUS
<1>3. /\ \A t \in S : pc'[t] = "idle"
      /\ \A t \in Thread \ S : pc'[t] = pc[t] /\ op'[t] = op[t] /\ chosen'[t] = chosen[t]
  BY <1>0, <1>1, <1>2, Ended
<1>4. Lost' = Lost + Cardinality(Thread)
  <2>1. faults \in Nat /\ Cardinality(Thread) \in Nat
    <3>1. faults \in Nat
      BY <1>0, RatchetAssumption DEF TypeOK
    <3>2. QED
      BY <1>0, <3>1, Counts
  <2>2. Cardinality(Thread) * (faults + 1) = Cardinality(Thread) * faults + Cardinality(Thread)
    BY <2>1
  <2>3. QED
    BY <1>1, <2>2 DEF Lost
<1>5. ASSUME NEW i \in DOMAIN rows
      PROVE  Loaded(i)'
  <2>1. SentUnder(i)' = SentUnder(i) /\ Writing(i)' \subseteq Writing(i)
    BY <1>1, <1>3 DEF SentUnder, Writing
  <2>2. /\ Cardinality(Writing(i)') <= Cardinality(Writing(i))
        /\ Cardinality(Writing(i)') \in Nat
    BY <1>0, <2>1, Counts, FS_Subset, FS_CardinalityType
  <2>3. Cardinality(Rotating') \in Nat
    <3>1. Rotating' \subseteq Thread
      BY DEF Rotating
    <3>2. QED
      BY <3>1, RatchetAssumption, FS_Subset, FS_CardinalityType
  <2>4. Loaded(i)
    BY DEF Load
  <2>5. CASE rows[i].end = None
    <3>1. Cardinality(SentUnder(i)) <= Limit - 1 + Cardinality(Rotating') + Lost'
      BY <1>0, <1>4, <2>3, <2>4, <2>5, Counts DEF Loaded
    <3>2. QED
      BY <1>1, <2>1, <2>5, <3>1 DEF Loaded
  <2>6. CASE rows[i].end # None
    <3>1. Cardinality(SentUnder(i)) + Cardinality(Writing(i)')
              <= Limit - 1 + Cardinality(Thread) + Lost'
      BY <1>0, <1>4, <2>2, <2>4, <2>6, Counts DEF Loaded
    <3>2. QED
      BY <1>1, <2>1, <2>6, <3>1 DEF Loaded
  <2>7. QED
    BY <2>5, <2>6
<1>6. QED
  BY <1>1, <1>5 DEF Load

LEMMA CrashLoad ==
    ASSUME RatchetInv, TypeOK', Load,
           (\E w \in Worker : Crash(w)) \/ (\E t \in Thread : Fails(t))
    PROVE  Load'
<1>1. ASSUME NEW w \in Worker, Crash(w) PROVE Load'
  <2> DEFINE S == {t \in Thread : Home[t] = w}
  <2>1. S \in SUBSET Thread /\ End(S)
    BY <1>1 DEF Crash
  <2>2. faults' = faults + 1 /\ UNCHANGED <<rows, stored, column>>
    BY <1>1 DEF Crash, tableVars
  <2> HIDE DEF S
  <2>3. QED
    BY <2>1, <2>2, FaultLoad
<1>2. ASSUME NEW t \in Thread, Fails(t) PROVE Load'
  <2>1. {t} \in SUBSET Thread /\ End({t})
    BY <1>2 DEF Fails, Returned
  <2>2. faults' = faults + 1 /\ UNCHANGED <<rows, stored, column>>
    BY <1>2 DEF Fails, tableVars
  <2>3. QED
    BY <2>1, <2>2, FaultLoad
<1>3. QED
  BY <1>1, <1>2

\* Every step keeps the load.
LEMMA StepLoad ==
    ASSUME OneWorker, RatchetInv, RatchetInv', Load, [Next]_vars
    PROVE  Load'
<1>1. TypeOK /\ TypeOK'
  BY DEF RatchetInv
<1>2. ASSUME NEW t \in Thread,
             \/ Send(t)
             \/ \E m \in Message : Edit(t, m) \/ Delete(t, m)
             \/ InsertMessage(t) \/ SendFails(t) \/ EditFallsBack(t)
             \/ UpdateContent(t) \/ HardDelete(t)
             \/ ChooseInterval(t) \/ EnsureInterval(t) \/ RotateIfDue(t)
             \/ NoSplit(t) \/ SplitOnDelete(t) \/ CloseOpen(t) \/ InsertInterval(t)
             \/ Fails(t)
      PROVE  Load'
  BY <1>1, <1>2, CallLoad, InsertMessageLoad, EndLoad, EditFallsBackLoad, HideLoad,
     ChooseLoad, RotateLoad, CloseLoad, InsertLoad, CrashLoad
<1>3. CASE UNCHANGED vars
  <2>1. UNCHANGED <<rows, stored, column, pc, op, chosen, faults>>
    BY <1>3 DEF vars, tableVars, callVars
  <2>2. QED
    BY <1>1, <2>1, QuietStep
<1>4. QED
  BY <1>1, <1>2, <1>3, HideLoad, CrashLoad DEF Next

\* Within one worker rotation keeps up with its senders: at most Limit - 1 live
\* messages were sent under an interval, and one for every thread, which may
\* have chosen it before the limit was reached, again for each death and each
\* failed rotation.  What edits encrypt anew under it is not counted.
THEOREM RotationInTime == OneWorker /\ Spec => []RotationKeepsUp
<1> DEFINE I == OneWorker /\ RatchetInv /\ Load
<1>1. OneWorker /\ Init => I
  <2>1. Init => Load
    BY DEF Init, Load
  <2>2. QED
    BY <2>1, InitRatchet
<1>2. I /\ [Next]_vars => I'
  BY StepRatchet, StepLoad DEF OneWorker
<1>3. I => RotationKeepsUp
  <2> SUFFICES ASSUME I, NEW i \in DOMAIN rows
               PROVE  Cardinality(SentUnder(i))
                          <= Limit - 1 + Cardinality(Thread) * (faults + 1)
    BY DEF RotationKeepsUp, MayHold, SentUnder
  <2>1. TypeOK /\ Loaded(i)
    BY DEF RatchetInv, Load
  <2>2. faults \in Nat /\ Cardinality(Thread) \in Nat
    <3>1. faults \in Nat
      BY <2>1, RatchetAssumption DEF TypeOK
    <3>2. QED
      BY <2>1, <3>1, Counts
  <2>3. Cardinality(Thread) * (faults + 1) = Lost + Cardinality(Thread)
    BY <2>2 DEF Lost
  <2>4. Cardinality(SentUnder(i)) <= Limit - 1 + Cardinality(Thread) + Lost
    BY <2>1, Counts DEF Loaded
  <2>5. QED
    BY <2>1, <2>2, <2>3, <2>4, Counts
<1> HIDE DEF I
<1>4. QED
  BY <1>1, <1>2, <1>3, PTL DEF Spec
=============================================================================
