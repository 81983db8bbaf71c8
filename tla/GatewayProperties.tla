------------------------- MODULE GatewayProperties -------------------------
(* What the gateway of Gateway.tla must guarantee.                         *)
EXTENDS Gateway

\* Within one worker a number of a session is given to one event only:
\* record_event and RESUME's max() together never let a number be given
\* again, whoever resumes the session and whatever number the client names.
NumberUnique ==
    \A a, b \in numbered : a.sess = b.sess /\ a.n = b.n => a = b

\* A ready connection whose session its worker still holds is the one the
\* session points to, so a session has one ready connection and dispatch_event
\* never sends its stream twice (resume_session disconnects the old one).
ReadyOwnsSession ==
    \A c \in Conn : IsAuthenticated(c) /\ sessions[home[c]][csess[c]].held
                        => sessions[home[c]][csess[c]].conn = c

\* The frames between the server's memory and the client of c.
OnTheWay(c) ==
    {wire[c][i] : i \in DOMAIN wire[c]} \cup {tasks[c][i] : i \in DOMAIN tasks[c]}
        \cup {replayq[c][i] : i \in DOMAIN replayq[c]}

\* While a tab's connection serves its session, every buffered event above
\* the tab's number has been received, is on its way, or its replay has yet
\* to begin: the replay snapshot, the dispatches that interleave with it and
\* the number RESUMED carries leave nothing behind (_message_loop's RESUMED
\* branch and replay_events).
RetainedIsComing ==
    \A t \in Tab : LET c == tconn[t] IN
        c # None /\ tsess[t] # None =>
            (sock[c] = "open" /\ IsAuthenticated(c) /\ csess[c] = tsess[t] /\ pc[c] # "resumed" =>
                LET replay == sessions[home[c]][tsess[t]].replay
                IN  \A i \in DOMAIN replay :
                        replay[i].s > tseq[t] /\ replay[i].e # None =>
                            replay[i].e \in got[t] \/ replay[i] \in OnTheWay(c))

\* The user's global set counts a session once, however often it was resumed:
\* "the old connection id must stop counting toward the per-user cap
\* immediately" (_valkey_drop_connection_member).  It holds within one worker,
\* also when conn:<id>:info is gone, and not across workers.
OneMemberPerSession ==
    \A c, d \in members : csess[c] = csess[d] => c = d

\* Valkey's registry follows the connections: members are registered
\* connections of a known user; a ready connection counts for dispatch, and
\* for the cap as long as its conn:<id>:info lives, whoever else of the user
\* registers, resumes or leaves (after that hour the user's set may go);
\* stats:total_connections counts the registered connections with a user.
RegistryExact ==
    ValkeyAvailable =>
        /\ \A c \in members : c \in registered /\ cuser[c] # NoOne
        /\ \A c \in Conn : IsAuthenticated(c) =>
              c \in userConns /\ (c \in info => c \in members)
        /\ total = Cardinality({c \in registered : cuser[c] # NoOne})

\* The log a session's numbers make: entry n is the event that got number n,
\* READY being entry None; a number skipped or given twice makes no legal
\* entry.
LogOf(s) ==
    LET given == {x \in numbered : x.sess = s}
    IN  [n \in 1 .. Cardinality(given) |->
            IF \E x \in given : x.n = n THEN (CHOOSE x \in given : x.n = n).e ELSE -1]

Stream == INSTANCE SessionStream WITH
    Streams <- Session, Readers <- Tab, Entries <- Event \cup {None}, Nothing <- None,
    log   <- [s \in Session |-> LogOf(s)],
    held  <- tsess,
    known <- [t \in Tab |-> IF tsess[t] = None THEN 0 ELSE tseq[t]]

\* The gateway implements the stream: numbers without gap or reuse, and no
\* client ahead of the log, across reconnects, expiries and restarts of the
\* one worker.
ImplementsStream == Stream!StreamSpec

\* Whatever worker answers, a tab only learns numbers its session was given:
\* RESUMED carries the larger of two numbers that exist.
KnownWasGiven ==
    \A t \in Tab : tsess[t] # None =>
        \E x \in numbered : x.sess = tsess[t] /\ x.n = tseq[t]

-----------------------------------------------------------------------------
(* Liveness                                                                *)

\* A socket whose client is gone is noticed, and its connection leaves the
\* manager and the user's count, whatever handler was running.
AbandonedIsRemoved ==
    \A c \in Conn : sock[c] \in {"lost", "closed"} ~> c \notin registered \cup members

\* A tab is not kept on a connection the server considers closed, such as
\* one a late RESUME took its session from: it learns of it or leaves.
ClosedIsSeen ==
    \A t \in Tab, c \in Conn :
        (tconn[t] = c /\ Closing(c)) ~> tconn[t] # c

\* A tab that stays on a connection ends up served by it: with READY, with
\* RESUMED, or with INVALID_SESSION and then READY.
HandshakeCompletes ==
    \A t \in Tab, c \in Conn :
        tconn[t] = c ~> \/ tconn[t] # c
                        \/ IsAuthenticated(c) /\ tsess[t] = csess[c]
=============================================================================
