--------------------------- MODULE SessionStream ---------------------------
(***************************************************************************)
(* What the gateway promises about a resumable session, without            *)
(* connections, workers, buffers or Valkey: a session is a log of events   *)
(* numbered 1, 2, 3, ... in the order they were built, which only grows at *)
(* its end; and a client that holds a session only ever knows numbers the  *)
(* log has reached.                                                        *)
(***************************************************************************)
EXTENDS Naturals, Sequences

CONSTANTS Streams,   \* the sessions
          Readers,   \* the clients
          Entries,   \* what a log entry may be
          Nothing    \* no session

VARIABLES log,    \* the events of each session, in order
          held,   \* the session a client holds
          known   \* the last number it received

streamVars == <<log, held, known>>

StreamInit ==
    /\ log = [s \in Streams |-> <<>>]
    /\ held = [r \in Readers |-> Nothing]
    /\ known = [r \in Readers |-> 0]

\* An event is appended to the logs of some sessions at once.
Number ==
    /\ \E S \in SUBSET Streams, e \in Entries :
          log' = [s \in Streams |-> IF s \in S THEN Append(log[s], e) ELSE log[s]]
    /\ UNCHANGED <<held, known>>

\* A client takes up a session, or learns another number of the one it holds.
Learn(r) ==
    \E s \in Streams :
        /\ held[r] \in {Nothing, s}
        /\ held' = [held EXCEPT ![r] = s]
        /\ \E n \in 1 .. Len(log[s]) : known' = [known EXCEPT ![r] = n]
        /\ UNCHANGED log

\* A client is told that its session is gone.
Forget(r) ==
    /\ held' = [held EXCEPT ![r] = Nothing]
    /\ known' = [known EXCEPT ![r] = 0]
    /\ UNCHANGED log

StreamNext == Number \/ \E r \in Readers : Learn(r) \/ Forget(r)

StreamSpec == StreamInit /\ [][StreamNext]_streamVars
=============================================================================
