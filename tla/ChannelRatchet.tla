--------------------------- MODULE ChannelRatchet ---------------------------
(***************************************************************************)
(* The channel ratchet of one conversation                                 *)
(* (src/src/utils/encryption/channel_ratchet) under the message service    *)
(* that sends, edits and deletes (src/src/core/messaging/services/message). *)
(*                                                                         *)
(* Every message is encrypted with the key of an interval of message ids;  *)
(* the open interval is closed, and one with a new key opened, when it     *)
(* holds enough messages, gets too old, or loses a message to a hard       *)
(* delete.  SQL statements commit one by one, and the manager's lock       *)
(* excludes the threads of one worker only.  Message and interval ids are  *)
(* numbers in the order they are made.                                     *)
(***************************************************************************)
EXTENDS Integers, Sequences, FiniteSets

CONSTANTS
    Worker,      \* processes, each with one ChannelRatchetManager
    Thread,      \* the request threads of all of them
    Home,        \* the worker of a thread
    Nobody,      \* no thread
    Limit,       \* _max_messages
    MaxMessage,  \* messages sent (bound)
    MaxInterval, \* intervals opened (bound)
    Faults,      \* what may go wrong: see Crash and Fails
    MaxFault     \* how often (bound)

ASSUME RatchetAssumption ==
    /\ IsFiniteSet(Thread) /\ Nobody \notin Thread
    /\ Home \in [Thread -> Worker]
    /\ Limit \in Nat \ {0} /\ MaxMessage \in Nat /\ MaxInterval \in Nat
    /\ Faults \subseteq {"crash", "rotation", "split"} /\ MaxFault \in Nat

Message == 1 .. MaxMessage
None == 0   \* no message, no interval, and the NULL of end_message_id

VARIABLES
    rows,     \* channel_ratchet_intervals: the row of interval i is rows[i]
    lastId,   \* the last message id made
    stored,   \* msg_messages: "absent", "live", "hidden" (soft-deleted) or
              \* "deleted"
    envelope, \* the interval the stored ciphertext names, None for a
              \* ciphertext of the older scheme
    column,   \* ratchet_interval_id of the row
    lock,     \* the holder of each manager's _lock
    pc,       \* where a thread is in the call it makes
    op,       \* the call, or the part of it that opens an interval
    msg,      \* its message
    from,     \* start_message_id of the interval it opens
    chosen,   \* the interval it encrypts with
    retired,  \* intervals of messages whose hard delete has returned
    avoid,    \* what was retired when the thread's call began
    faults    \* deaths of workers, and rotations and splits that failed

tableVars == <<lastId, stored, envelope, column>>
callVars == <<pc, op, msg, from, chosen, avoid>>
vars == <<rows, tableVars, lock, callVars, retired, faults>>

Init ==
    /\ rows = << >>
    /\ lastId = 0
    /\ stored = [m \in Message |-> "absent"]
    /\ envelope = [m \in Message |-> None]
    /\ column = [m \in Message |-> None]
    /\ lock = [w \in Worker |-> Nobody]
    /\ pc = [t \in Thread |-> "idle"]
    /\ op = [t \in Thread |-> "none"]
    /\ msg = [t \in Thread |-> None]
    /\ from = [t \in Thread |-> None]
    /\ chosen = [t \in Thread |-> None]
    /\ retired = {}
    /\ avoid = [t \in Thread |-> {}]
    /\ faults = 0

\* The open intervals, and the one get_active() returns: the last to start.
Open == {i \in DOMAIN rows : rows[i].end = None}
GetActive ==
    IF Open = {} THEN None
    ELSE CHOOSE i \in Open : \A j \in Open : rows[j].start <= rows[i].start

\* contains() of an interval that is open.
Contains(i, m) == rows[i].start <= m

\* _close_active(): UPDATE ... WHERE end_message_id IS NULL.
Closed(i, m) == IF i = None THEN rows ELSE [rows EXCEPT ![i].end = m]

\* Control moves on inside the call.
GoTo(t, where) == pc' = [pc EXCEPT ![t] = where]

\* The calls of the threads in S are over, and with them their local variables.
End(S) ==
    /\ pc' = [t \in Thread |-> IF t \in S THEN "idle" ELSE pc[t]]
    /\ op' = [t \in Thread |-> IF t \in S THEN "none" ELSE op[t]]
    /\ msg' = [t \in Thread |-> IF t \in S THEN None ELSE msg[t]]
    /\ from' = [t \in Thread |-> IF t \in S THEN None ELSE from[t]]
    /\ chosen' = [t \in Thread |-> IF t \in S THEN None ELSE chosen[t]]
    /\ avoid' = [t \in Thread |-> IF t \in S THEN {} ELSE avoid[t]]

MutLocked(t) == lock[Home[t]] = Nobody /\ UNCHANGED lock

\* The manager's lock is taken, given back, or given back if the thread has it.
Locked(t) == lock[Home[t]] = Nobody /\ lock' = [lock EXCEPT ![Home[t]] = t]
Unlocked(t) == lock' = [lock EXCEPT ![Home[t]] = Nobody]
LeftLock(t) == IF lock[Home[t]] = t THEN Unlocked(t) ELSE UNCHANGED lock

\* A call begins, on message m.
Begin(t, o, m, where) ==
    /\ pc[t] = "idle"
    /\ op' = [op EXCEPT ![t] = o]
    /\ msg' = [msg EXCEPT ![t] = m]
    /\ avoid' = [avoid EXCEPT ![t] = IF o = "delete" THEN {} ELSE retired]
    /\ GoTo(t, where)
    /\ UNCHANGED <<rows, lock, from, chosen, retired, faults>>

-----------------------------------------------------------------------------
(* The message service.                                                    *)

\* send_message() makes the id and calls encrypt().
Send(t) ==
    /\ lastId < MaxMessage
    /\ lastId' = lastId + 1
    /\ Begin(t, "send", lastId + 1, "choose")
    /\ UNCHANGED <<stored, envelope, column>>

\* edit_message() encrypts the new content under the old id.
Edit(t, m) ==
    /\ stored[m] = "live"
    /\ Begin(t, "edit", m, "choose")
    /\ UNCHANGED tableVars

\* delete_message(hard_delete=True) has found the row.
Delete(t, m) ==
    /\ stored[m] \in {"live", "hidden"}
    /\ Begin(t, "delete", m, "delete")
    /\ UNCHANGED tableVars

\* delete_message(): the row is only marked.
SoftDelete(m) ==
    /\ stored[m] = "live"
    /\ stored' = [stored EXCEPT ![m] = "hidden"]
    /\ UNCHANGED <<rows, lastId, envelope, column, lock, callVars, retired, faults>>

\* The transaction that inserts the message commits; rotate_if_due() is next.
InsertMessage(t) ==
    /\ pc[t] = "write" /\ op[t] = "send"
    /\ stored' = [stored EXCEPT ![msg[t]] = "live"]
    /\ envelope' = [envelope EXCEPT ![msg[t]] = chosen[t]]
    /\ column' = [column EXCEPT ![msg[t]] = chosen[t]]
    /\ op' = [op EXCEPT ![t] = "rotate"]
    /\ chosen' = [chosen EXCEPT ![t] = None]
    /\ avoid' = [avoid EXCEPT ![t] = {}]
    /\ GoTo(t, "lock")
    /\ UNCHANGED <<rows, lastId, lock, msg, from, retired, faults>>

\* ... or encrypt() fails, at any statement of it, or the transaction is rolled
\* back, and send_message() raises.
SendFails(t) ==
    /\ pc[t] # "idle" /\ op[t] = "send"
    /\ LeftLock(t)
    /\ End({t})
    /\ UNCHANGED <<rows, tableVars, retired, faults>>

\* edit_message() turns to the older scheme, encrypt_message(), when encrypt()
\* fails.
EditFallsBack(t) ==
    /\ pc[t] # "idle" /\ op[t] = "edit"
    /\ LeftLock(t)
    /\ chosen' = [chosen EXCEPT ![t] = None]
    /\ from' = [from EXCEPT ![t] = None]
    /\ GoTo(t, "write")
    /\ UNCHANGED <<rows, tableVars, op, msg, retired, avoid, faults>>

\* update_content() replaces the envelope of a row that is still there and
\* leaves its ratchet_interval_id alone.
UpdateContent(t) ==
    /\ pc[t] = "write" /\ op[t] = "edit"
    /\ envelope' = IF stored[msg[t]] = "deleted" THEN envelope
                   ELSE [envelope EXCEPT ![msg[t]] = chosen[t]]
    /\ End({t})
    /\ UNCHANGED <<rows, lastId, stored, column, lock, retired, faults>>

\* hard_delete(); split_on_delete() is next.
HardDelete(t) ==
    /\ pc[t] = "delete"
    /\ stored' = [stored EXCEPT ![msg[t]] = "deleted"]
    /\ GoTo(t, "lock")
    /\ UNCHANGED <<rows, lastId, envelope, column, lock, op, msg, from, chosen,
                   retired, avoid, faults>>

-----------------------------------------------------------------------------
(* The manager.                                                            *)

\* _ensure_interval() before its lock: the open interval, if the message is in
\* it, is used without the lock.
ChooseInterval(t) ==
    /\ pc[t] = "choose"
    /\ IF GetActive # None /\ Contains(GetActive, msg[t])
       THEN chosen' = [chosen EXCEPT ![t] = GetActive] /\ GoTo(t, "write")
       ELSE UNCHANGED chosen /\ GoTo(t, "lock")
    /\ UNCHANGED <<rows, tableVars, lock, op, msg, from, retired, avoid, faults>>

\* ... and with the lock: look again, or open an interval from this message.
EnsureInterval(t) ==
    /\ pc[t] = "lock" /\ op[t] \in {"send", "edit"}
    /\ lock[Home[t]] = Nobody
    /\ IF GetActive # None /\ Contains(GetActive, msg[t])
       THEN /\ chosen' = [chosen EXCEPT ![t] = GetActive]
            /\ GoTo(t, "write")
            /\ UNCHANGED <<from, lock>>
       ELSE /\ from' = [from EXCEPT ![t] = msg[t]]
            /\ GoTo(t, "close")
            /\ Locked(t)
            /\ UNCHANGED chosen
    /\ UNCHANGED <<rows, tableVars, op, msg, retired, avoid, faults>>

MutIsFull(i) == Cardinality({m \in Message : stored[m] = "live" /\ column[m] = i}) > Limit

\* The active interval has as many live messages as it may.
IsFull(i) == Cardinality({m \in Message : stored[m] = "live" /\ column[m] = i}) >= Limit

\* rotate_if_due(): a full interval, or one that may be too old, is replaced
\* from the next message on; one that is neither is kept.
RotateIfDue(t) ==
    /\ pc[t] = "lock" /\ op[t] = "rotate" /\ lock[Home[t]] = Nobody
    /\ \/ /\ GetActive # None
          /\ from' = [from EXCEPT ![t] = msg[t] + 1]
          /\ GoTo(t, "close")
          /\ Locked(t)
          /\ UNCHANGED <<op, msg, chosen, avoid>>
       \/ /\ GetActive # None => ~IsFull(GetActive)
          /\ End({t})
          /\ UNCHANGED lock
    /\ UNCHANGED <<rows, tableVars, retired, faults>>

MutMustSplit(t) == GetActive # None /\ rows[GetActive].start < msg[t]

\* split_on_delete() acts if the open interval may hold the message.
MustSplit(t) == GetActive # None /\ Contains(GetActive, msg[t])

\* The hard delete returns.
Returned(t) ==
    /\ retired' = retired \cup ({envelope[msg[t]]} \ {None})
    /\ End({t})

\* split_on_delete() has nothing to do, ...
NoSplit(t) ==
    /\ pc[t] = "lock" /\ op[t] = "delete" /\ lock[Home[t]] = Nobody
    /\ ~MustSplit(t)
    /\ Returned(t)
    /\ UNCHANGED <<rows, tableVars, lock, faults>>

\* ... or closes the open interval behind the message and then calls create().
SplitOnDelete(t) ==
    /\ pc[t] = "lock" /\ op[t] = "delete" /\ Locked(t)
    /\ MustSplit(t)
    /\ rows' = Closed(GetActive, msg[t] + 1)
    /\ from' = [from EXCEPT ![t] = msg[t] + 1]
    /\ GoTo(t, "close")
    /\ UNCHANGED <<tableVars, op, msg, chosen, retired, avoid, faults>>

MutCloseOpen(t) ==
    /\ pc[t] = "close"
    /\ GoTo(t, "insert")
    /\ UNCHANGED <<rows, tableVars, lock, op, msg, from, chosen, retired, avoid,
                   faults>>

\* create() closes the interval it finds open, in one statement, ...
CloseOpen(t) ==
    /\ pc[t] = "close"
    /\ rows' = Closed(GetActive, from[t])
    /\ GoTo(t, "insert")
    /\ UNCHANGED <<tableVars, lock, op, msg, from, chosen, retired, avoid, faults>>

\* ... and inserts the new one in another; the caller's lock is released.
InsertInterval(t) ==
    /\ pc[t] = "insert" /\ Len(rows) < MaxInterval
    /\ rows' = Append(rows, [start |-> from[t], end |-> None])
    /\ Unlocked(t)
    /\ CASE op[t] \in {"send", "edit"} ->
              /\ chosen' = [chosen EXCEPT ![t] = Len(rows) + 1]
              /\ from' = [from EXCEPT ![t] = None]
              /\ GoTo(t, "write") /\ UNCHANGED <<op, msg, avoid, retired>>
         [] op[t] = "rotate" -> End({t}) /\ UNCHANGED retired
         [] op[t] = "delete" -> Returned(t)
    /\ UNCHANGED <<tableVars, faults>>

\* A statement of rotate_if_due() or split_on_delete() fails; the callers log
\* it and return as if it had not.
Fails(t) ==
    /\ pc[t] \in {"lock", "close", "insert"}
    /\ faults < MaxFault
    /\ faults' = faults + 1
    /\ LeftLock(t)
    /\ \/ op[t] = "rotate" /\ "rotation" \in Faults /\ End({t}) /\ UNCHANGED retired
       \/ op[t] = "delete" /\ "split" \in Faults /\ Returned(t)
    /\ UNCHANGED <<rows, tableVars>>

\* A worker dies, at any moment: its threads and its lock are gone, the tables
\* stay.
Crash(w) ==
    /\ "crash" \in Faults /\ faults < MaxFault
    /\ faults' = faults + 1
    /\ End({t \in Thread : Home[t] = w})
    /\ lock' = [lock EXCEPT ![w] = Nobody]
    /\ UNCHANGED <<rows, tableVars, retired>>

Next ==
    \/ \E t \in Thread :
          \/ Send(t)
          \/ \E m \in Message : Edit(t, m) \/ Delete(t, m)
          \/ InsertMessage(t) \/ SendFails(t) \/ EditFallsBack(t)
          \/ UpdateContent(t) \/ HardDelete(t)
          \/ ChooseInterval(t) \/ EnsureInterval(t) \/ RotateIfDue(t)
          \/ NoSplit(t) \/ SplitOnDelete(t) \/ CloseOpen(t) \/ InsertInterval(t)
          \/ Fails(t)
    \/ \E m \in Message : SoftDelete(m)
    \/ \E w \in Worker : Crash(w)

Spec == Init /\ [][Next]_vars

-----------------------------------------------------------------------------

\* The type invariant; a thread that opens an interval holds its manager's lock.
TypeOK ==
    /\ rows \in Seq([start : Nat \ {0}, end : Nat]) /\ Len(rows) <= MaxInterval
    /\ lastId \in 0 .. MaxMessage
    /\ stored \in [Message -> {"absent", "live", "hidden", "deleted"}]
    /\ envelope \in [Message -> 0 .. Len(rows)]
    /\ column \in [Message -> 0 .. Len(rows)]
    /\ lock \in [Worker -> Thread \cup {Nobody}]
    /\ pc \in [Thread -> {"idle", "choose", "lock", "close", "insert", "write",
                          "delete"}]
    /\ op \in [Thread -> {"none", "send", "edit", "delete", "rotate"}]
    /\ msg \in [Thread -> 0 .. MaxMessage]
    /\ from \in [Thread -> 0 .. MaxMessage + 1]
    /\ chosen \in [Thread -> 0 .. Len(rows)]
    /\ retired \in SUBSET (1 .. Len(rows))
    /\ avoid \in [Thread -> SUBSET (1 .. Len(rows))]
    /\ faults \in 0 .. MaxFault
    /\ \A t \in Thread : pc[t] \in {"close", "insert"} => lock[Home[t]] = t

\* A conversation never has two open intervals, whatever a crash between close
\* and insert leaves behind (get_active: LIMIT 1, and the sends, edits, splits
\* and rotations that take it for the only one).
OneOpen == Cardinality(Open) <= 1

\* split_on_delete(): "a fresh start key protects everything from the next
\* message onward".  No call that began after the hard delete of a message
\* returned encrypts with the key that had encrypted the message.
DeletedKeyUnused ==
    \A t \in Thread : pc[t] = "write" => chosen[t] \notin avoid[t]

\* With Limit messages an interval is replaced (rotate_if_due); one more may
\* come from every other thread that was past it then, and as many again from
\* each crash or failed rotation.
MayHold == Limit - 1 + Cardinality(Thread) * (faults + 1)

\* Rotation keeps up with concurrent senders, crashes and its own failures: no
\* interval is given to more live messages than that when they are sent.  What
\* an edit encrypts again is not counted, in the code as here: the column stays.
RotationKeepsUp ==
    \A i \in DOMAIN rows :
        Cardinality({m \in Message : stored[m] = "live" /\ column[m] = i}) <= MayHold
=============================================================================
