# Verification of the PlexiChat server

TLA+ models of the PlexiChat server, TLC configurations that check them on
small instances, and TLAPS proofs. Paths are relative to the repository root;
the server's packages are under `src/`.

## 1. Inventory

PlexiChat is a chat server: a REST API and a WebSocket gateway (FastAPI on
uvicorn, several worker processes) over an SQL database, with Valkey as the
optional store the workers share. Every worker runs its coroutines on one event
loop, so code between two awaits is atomic inside a worker; SQL, files and
Valkey are where workers meet.

| component | state | operations | hard behaviour | what makes it correct |
|---|---|---|---|---|
| session manager `src/api/websocket/session.py`, `connection.py` | connections, resumable sessions with a replay buffer and a sequence, per worker; a shared copy, a per-user member set and a total in Valkey | add, identify, resume, record, remove, expire | stale local copies, resume races the old socket's cleanup, buffer at its limit, worker death | a number means one event; one ready connection per session; the registry follows the connections as long as its entries live |
| gateway `gateway.py`, `handlers/connection.py`, `dispatcher.py` | one message loop and one heartbeat monitor per socket; scheduled sends | HELLO, IDENTIFY, RESUME, replay, dispatch, heartbeat close, cleanup | awaits inside handlers, sends that run later, lost sockets noticed late, clients that give up and retry | nothing the buffer retains is lost to a served client; every handshake ends; every abandoned connection is removed; the last disconnect takes the user offline |
| opcodes for artifacts, sheets, guilds, presence, voice `handlers/`, `artifacts.py`, `sum.py` | subscription registries | subscribe, operate, relay | subscription before snapshot | a subscriber sees every operation once |
| event bus `src/core/events`, cross-worker listener `src/api/websocket/__init__.py` | subscribers with a cap and an idle sweep, a bounded queue, a consumer, a pub/sub inbox | subscribe, dispatch on the loop or on a thread, drain, stop, publish, listen | full queue, stop against dispatch, echo of a worker's own events | one delivery per event, or the loss is counted |
| keyring and KEK migration `src/utils/encryption/core/keyring.py`, `kek_migration` | key versions, peppers, blind-index root in a locked file | rotate, create pepper, migrate, roll back | several processes, crash between steps | a key that encrypted data is never lost; the pepper never changes (both fail in some deployments, section 8) |
| channel ratchet `src/utils/encryption/channel_ratchet` | intervals of message ids per conversation | encrypt, rotate, split on delete | lock of one process, close then create | one open interval; no key of a deleted message is used again; rotation keeps up |
| artifact log `src/core/artifacts` | operations numbered per artifact | append with retry, list, relay | MAX+1 races, replay limit of 500 | dense numbers, no gap for a late joiner |
| authentication `src/core/auth` | sessions, refresh hashes, a verification cache, tickets | verify, refresh, log out | cache against revocation, double refresh | a revoked token stops working |
| chunked upload `src/core/media` | received chunks of an upload | receive, complete, abort | optimistic update on a clock | no received chunk is forgotten |
| connection pool and facade `src/core/database` | pooled connections and their owners, a connection per thread, its transaction | acquire, release, touch, reap, execute with retries, begin, commit, roll back, monitor | exhaustion, a lock held while waiting, thread death, connections reclaimed under their owner | exact books, one holder, no lost wake-up, every call returns, a transaction is whole |
| rate limiting, suite, migrations, presence, voice, other packages | rows, caches | request handlers | see `PROJECT.json` | |

Interactions: a request handler writes SQL and publishes on the event bus; the
bus calls the dispatcher of its worker and, through Valkey, of the others; the
dispatcher numbers the event for each ready connection, records it in the
session and schedules a send. IDENTIFY and RESUME call authentication, the
session manager and presence.

`PROJECT.json` lists every part with its status, and under `hazards` what is
hard to test in this code, each at its line.

## 2. Plan

1. **Gateway** (done): `SessionManager`, `Gateway`, `GatewayProperties`,
   `SessionStream` (abstract), `MCGateway`, proofs in `GatewayType`,
   `GatewayKnown`, `GatewayNumbers` and `GatewayRegistry`. It is the part every
   client depends on, where the process, socket and Valkey interleavings are.
2. **EventBus** (done): subscribers, queue, consumer, shutdown, and the channel
   between workers. It ends where `Gateway` begins: the critical subscriber it
   calls is the dispatcher of `Gateway`'s `Dispatch`, which takes each event of
   its worker once; `GatewayOnce` is what entitles it to.
3. **Database** (done): `ConnectionPool` and the facade `Database`, which
   extends it; proofs in `DatabaseProofs`.
4. **Keyring** (done), except KEK migration.
5. **ChannelRatchet** (done) under the message service.
6. Left: **ArtifactLog** (append, relay, late joiner; refines a log): MAX(seq)+1
   is read and inserted in two statements (`artifacts/repository.py:527`), and a
   late joiner is subscribed before it is sent at most 500 operations
   (`handlers/artifacts.py:182`). **AuthSession** (token cache against revocation,
   refresh): `logout_all` empties the cache before it revokes
   (`auth/managers/session.py:898`), two refreshes of one token both succeed
   (`:868`). **ChunkedUpload**: the optimistic update compares a clock
   (`media/chunked.py:441`). KEK migration against a running rotation
   (`kek_migration/migration.py:181`), rate limiting.

Every invariant, the action property and the refinement that a passing run
checks is also a theorem, within the premises that section 9 names. Theorems
planned next: an abstract connection pool, and that `ConnectionPool` under `Database` implements it; an abstract
exactly-once channel for the event bus; the operators of the models that grow.

## 3. The gateway model

### Modules

| module | what it is |
|---|---|
| `SessionManager` | state and operations of `session.py`, and the fields of `Connection` it writes. Operations are stretches without an await; they constrain only this module's variables |
| `Gateway` | endpoint, message loop, handlers, heartbeat monitor, dispatcher, the documented client, worker death and time. `EXTENDS SessionManager` and conjoins its operations with the handler that calls them |
| `GatewayProperties` | the properties, and the refinement mapping to `SessionStream` |
| `SessionStream` | the abstract promise: a session is a log numbered 1, 2, 3, ... that grows at its end, and a client knows only numbers the log has reached |
| `MCGateway` | the instance TLC checks (one user for every tab) |
| `GatewayType` | lemmas on the operators, and the proof of the type and handshake invariant |
| `GatewayKnown` | proofs of who can know a session id, the layer the next two rest on, and of `KnownWasGiven` |
| `GatewayNumbers` | for one worker: proofs of `NumberUnique`, `ReadyOwnsSession`, `ImplementsStream` and `RetainedIsComing` |
| `GatewayRegistry` | proofs of `RegistryExact` without crashes, and of `OneMemberPerSession` for one worker |

### State

A connection `c` has the fields of `Connection` (`state`, `cuser`, `csess`,
`cseq`, event count `sent`), a coroutine position `pc`, a monitor `mon`, a
socket `sock`, and frames in `tasks` (scheduled sends), `replayq` (the rest of a
running replay) and `wire` (written, not yet read by the client).
`sessions[w][s]` is worker `w`'s `Session` object; `shared[s]` its copy in
Valkey (sequence, replay and owner, never the connection). `members`, `info`
and `total` are the keys `user:<id>:connections`, `conn:<id>:info` and
`stats:total_connections`. A tab holds what the client guide tells clients to
keep: the session id and the last number received. `numbered` is a history
variable: every (session, number, event) ever built.

### Actions

`pc` moves through the awaits of the code:

    receive -> identify -> presence -> ready -> receive      handle_identify
    receive -> resume -> receive                             INVALID_SESSION
    receive -> resume -> resumed -> replay... -> receive     RESUMED, replay_events
    receive -> exit -> done                                  loop ends, finally block

Each arrow is the stretch up to the next await. `IdentifyVerified`, for
instance, checks the cap and creates the session without an await in between,
as `handle_identify` does, and `ReplayStart` takes its snapshot after the await
that writes RESUMED. The heartbeat monitor is `HeartbeatClose` (up to
`await websocket.close`) and `HeartbeatClosed` (after it), so that a handler
can run between them and set the connection ready again. `Dispatch` is
synchronous up to the scheduling of the sends; each send is a step of its own,
`TaskSend`, in the order the tasks were created.

### Abstractions

- The registry's TTLs, 24 hours for a user's set and one hour for
  `conn:<id>:info`, are set by a registration and renewed by nothing else. They
  run out in `MembersExpire` and `InfoExpires`, at any time where `Faults` has
  "ttl"; all that is kept of the clock is that a set outlives the info of the
  connections registered before it was last renewed.
- The session timeout is a flag `fresh`, cleared by `CopyExpires` at any time,
  so every relation between clock readings is covered; a Valkey key expires
  only after every worker's copy, whose saves renew it.
- The rate window is `sent`, reset by `WindowReset`; the code resets it lazily
  at the next test, which the model may do earlier without a visible
  difference.
- An event is a number; every user may see it. Intents, permissions, payloads,
  sizes, compression and the other opcodes are left out. A presence event sent
  by the online transition is one of the events of `Dispatch`.
- A frame the gateway cannot decode, and an IDENTIFY on a connection that is
  already ready, close the connection (`gateway.py:418-485`,
  `handlers/connection.py:83`). The documented client sends neither, and the
  model does not have them.
- Valkey is up or down for a whole run (`ValkeyAvailable`). The failure of a
  single call, which the code logs and ignores, is not modelled.
- A client that has a live socket answers heartbeats in time: the monitor
  closes only "lost" sockets, whose client is gone without a close.
- Connection and session ids are small numbers in the order of acceptance; the
  code's are random.
- `MaxConn`, `MaxEvent` and `MaxCrash` bound a behaviour's length; `Faults` says
  which of failing tokens, idle sessions, the TTLs and vanishing clients a run
  has.

## 4. The database model

`ConnectionPool` models `engines/pool.py`: `available`, `inUse` and `total` are
`_available`, `_in_use` and `_total_created`; `usage[c]` is a connection's
`_ConnectionUsage` (owner thread, in-flight flag, transaction flag, how old its
last use is); `asleep` and `woken` are the two halves of `Condition.wait`. A
method under the pool's lock is one operator; `Reap` is `_reap_idle_unlocked`
with its `notify_all`. `Database` extends it with the facade of
`core/connection.py`, `execution.py` and `transactions.py`. A thread's `pc`
follows the code between its critical sections:

    idle -> getconn -> touch -> ready -> exec -> commit -> release -> idle
            getconn -> lock -> pool (-> wait -> pool) -> ready
            exec -> ready (closed connection, up to 3 attempts) | raise
    ready -> begun -> idle              BEGIN, then touch(in_transaction=True)
    ready -> ended -> release -> idle   COMMIT or ROLLBACK, then touch(False)

`Evict` is `_get_conn` giving up a connection it finds closed; `Lock` to
`Connect` is `connect()`, which keeps `Database._lock` while it waits for the
pool. The monitor thread is `Pick`, `ClosePicked` and `ReapIdle`: it decides on
its own metadata and closes later, without the lock it decided under. `fate[t]`
records what became of the writes of a caller's transaction.

Abstractions: ages are levels that `TimePasses` raises, so every relation
between the clock and the thresholds of the code is covered; a statement stands
for `execute`, `execute_many` and the fetches; only the outermost transaction
is modelled; a connection's identity is `id()`, reusable once nobody refers to
the object. A dead thread's identifier may be given to a new thread (`Spawn`).

The driver's statement and the pool's flag are two steps, as they are two
critical sections in the code: between `Begin` and `BeginTouch` (and between
`EndTransaction` and `EndTouch`) a reaper decides by the flag of before. The last
step, `ReleaseConn`, asks the connection whether it is in a transaction; if it
was closed meanwhile the question raises, after a statement or a COMMIT that
succeeded, and the thread keeps the closed connection.

Properties: `PoolExact` (every open connection is idle or checked out, never
both, and counted), `OneHolder` (the connection in a thread's local storage, if
open, is checked out to that thread), `SleepsOnlyWhenFull` (no lost wake-up),
`PooledIsClean` (no transaction in a pooled connection), `FlagsAgree` (the
facade and the driver agree on whether a transaction is open in a thread's
connection, and so does the pool's flag except between BEGIN, COMMIT or ROLLBACK
and the touch that follows; the in-flight flag tells whether a statement runs),
`LiveWorkSurvives` (the pool's reapers close no connection under a running
statement, nor a living owner's transaction within the grace window once the
pool has been told of it; before that, none that was used within the reclaim
window), `CallsReturn`, `LeakIsReclaimed` and, violated, `TransactionsAreWhole`. `LiveWorkSurvives` is about the reapers of the pool:
the monitor's own close, `ClosePicked`, goes by the facade's metadata and looks
at neither flag, so it can close a connection under a running statement.

## 5. The event bus model

`EventBus` has one record of the bus per worker. `subs`, `idle` and `pruneDue`
are `_subscribers` and its clocks; `queue`, `consumer`, `stop` and `phase` the
queue, the consumer task and the app's lifespan; `listening` and `inbox` the
pub/sub connection. `DispatchOnLoop` is `dispatch()` in a coroutine: it has no
await, so it is one step. On a thread without an event loop the same method is
four steps, `DispatchOnThread`, `ThreadCallsGateway`, `ThreadFansOut`,
`ThreadPublishes`, between which the loop and the other threads run.
`StopConsumer` and `Drain` are the two halves of `stop_consumer()` around its
await. `HandleMessage` is the listener with its echo test.

An event is dispatched once, so queue and channel are sets. Who the recipients
of an event are, its payload, and the listener's backoff are left out.
`Unnamed` is the set of workers that never learnt their id (section 8).

Properties: `GatewayOnce`, `NothingSilentlyLost` (`Accounted` = called + queued
+ counted as dropped = 1 for every subscriber of the snapshot), the liveness
properties `QueuedIsDelivered` and `SiblingsGetIt`, and in `TypeOK` the caps of
the queue and of the subscriber list.

## 6. The keyring model

`file` is the keyring file, `memory[i]` what Keyring object `i` holds. `Home`
gives each object its process and `Role` what it is for: the module's manager,
which rotates and keeps the blind-index root key; a sealer, as MessageEncryptor
and every ChannelRatchetManager have one each; or the object that
`pepper.py:258` makes for a pepper. Objects of one process and of several differ
in one thing only: a process rotates before it makes its other objects
(`FirstOfProcess`, the start of the server). Everything else they share is the
file lock.

What runs under the lock is one step; the constructor is two, `Load` and
`SaveInInit`, as it takes the lock twice. Memory changes before the file is
written, and with `Fallible` any write may fail (`WriteOut`): `Rotate` then
leaves the new key in memory, as the server's start does, and a `Seal` that had
to make the first key raises but keeps it too. `sealed` and `hashed` are the
ciphertexts and password hashes in the database, which must stay readable; a
file that is there at the start comes with data under each of its versions and,
with `FoundPepper`, with hashes. Secrets are numbered in the order of their
generation; the KEK and the cipher are left out, and so are the second save of
the file encryptor's start (`file_encryption.py:107`), files that cannot be
decrypted and the timeout of the file lock.

Properties: `SealedOpens` (whoever loads the file can open everything stored),
`SealedOpensNow` (so can every object in use), `PepperStable`. None of the three
holds of every deployment. The first two hold for one process that rotates at
its starts (`process`), and for several that do not rotate, where the file has a
key at the start and, if there are rotations, no write fails. The third holds of
any processes once there is a pepper (`workers`). Without any one of these
premises a secret is lost; section 8 says how.

## 7. The channel ratchet model

`ChannelRatchet` models one conversation. `rows` is the table
`channel_ratchet_intervals`; `stored`, `envelope` and `column` are a message's
row, the interval its ciphertext names and its `ratchet_interval_id`. A thread
of a worker makes one call at a time:

    send:   choose (-> lock -> close -> insert) -> write -> lock (-> close -> insert)
    edit:   choose (-> lock -> close -> insert) -> write
    delete: delete -> lock (-> close -> insert)

`choose` is `_ensure_interval` without its lock and `lock` the second look with
it; `close` and `insert` are the two statements of `store.create`, which commit
separately, so `Crash` may come between them. After the insert of the message
the sender calls `rotate_if_due`, after the hard delete `split_on_delete`.
Statements may fail. A send then raises, whatever it has opened or closed
(`SendFails`); an edit turns to the older encryption (`EditFallsBack`, after
which its ciphertext names no interval); a failing rotation or split is logged
and the call returns as if nothing had happened (`Fails`). `Faults` says which
of crashes, failing rotations and failing splits a run has, and `MaxFault` how
many. `retired` and `avoid` are history: the intervals of messages whose hard
delete had returned before the thread's call began. The age limit is a
nondeterministic choice in `RotateIfDue`; content, key wrapping and the chain of
keys are left out.

Properties: `OneOpen`, `DeletedKeyUnused`, `RotationKeepsUp`; and `TypeOK`
contains that a thread that opens an interval holds its manager's lock.
`RotationKeepsUp` counts messages by the interval they were *sent* under, which
is what the code counts. The messages an interval's key encrypts may be more,
because of edits (section 8).

## 8. Runs

| run | instance | shows |
|---|---|---|
| `restart` | gateway: 1 worker that may die once, 1 tab, 2 connections, 2 events, buffer of 2, failing tokens, idle expiry, rate limit 1 | types, numbering, replay; the gateway implements `SessionStream` |
| `live` | 1 worker, 3 connections, failing tokens | ownership, members, and the three liveness properties |
| `cluster` | 2 workers, 3 connections, 1 event, the TTLs | known numbers exist, also after a stale copy was resumed; members, counter and cap |
| `members` | 2 workers, 2 connections | finding 1 |
| `pool` | 2 threads, pool of 1, 3 connection identities, all faults | books, holders, waiting, clean connections, the reaper's flags and what it spares |
| `calls` | the same with 2 identities, without the monitor's force-close | calls return, leaks are reclaimed |
| `split` | as `pool`, no fault but the monitor's force-close | finding 2 |
| `bus` | 2 workers (one dispatches), 2 events, 2 subscribers, queue of 1, room for 1 ordinary subscriber, all faults | delivery once, counted losses, shutdown |
| `process` | keyring: 3 objects of one process, a file with 2 versions, rotations | everything sealed stays readable |
| `workers` | 3 objects of 3 processes, rotations, first keys, failing writes, a pepper in the file | the pepper stays |
| `ratchet` | 1 worker, 2 threads, 3 messages, 3 intervals, limit 1 | keys of deleted messages, rotation |
| `faults` | 1 thread, 3 messages, 4 intervals, one crash, failed rotation or failed split | one open interval; a missed rotation is made up for |

Gateway runs have one user and one tab, which may leave and reconnect, so that
several connections of the same client are alive on the server at once: that is
where sessions are contended. A second tab has its own session and meets the
first only in the member set, the cap and the counter.

Why the bounds are enough. Gateway: two connections are an old one and the one
that resumes while the first is still ready, closing or being written to; the
third of `live` and `cluster` resumes while the other two are still closing. Two
events and READY make three frames for a buffer of two, so frames are evicted
and events fall before and after a snapshot; a rate limit of one makes the
second event exceed it. In `cluster` an event may reach the session on either
worker while the other's copy lags behind, which takes one event and three
connections. Database: a pool of one makes the second thread wait; three
identities are the pool's connection, one a thread still refers to after it was
closed, and one the monitor has picked. `calls` has `MinSize` 0, so that the
pool's last connection may be reaped too, and leaves out the monitor's own
force-close, which only takes connections away sooner. Bus: with a queue of one
the second event meets it full; the second worker only listens. Keyring: two
objects conflict, the third loads what they left; the versions leave room for a
rotation at two starts. Ratchet: with a limit of one every send rotates, and
three messages lie before, on and behind an interval's edge. With two threads
and a fault `RotationKeepsUp` would allow four messages in an interval, so
`faults` has one thread: there the bound after the fault is 2, it is reached, and
there are 3 messages. That the bounds hold for other numbers of threads, faults
and connections is proved (section 9).

Deadlock is not checked where a bound ends the behaviour: connections and
events run out (`MCGateway`), events do (`MCEventBus`), versions and secrets do
(`MCKeyring`), messages and intervals do (`MCRatchet`). The database runs check
it.

Gateway properties:

- `NumberUnique`: within one worker, a session's number is given to one event.
- `ReadyOwnsSession`: a ready connection whose session is held is the one the
  session names. It holds for one worker.
- `RetainedIsComing`: while a connection serves its tab, every buffered event
  above the tab's number was received or is on its way.
- `OneMemberPerSession`: the user's set counts a session once, however often it
  was resumed, within one worker. `live` has no TTLs; that it holds when
  `conn:<id>:info` is gone is proved (`OneMember`). With two workers it is
  violated.
- `RegistryExact`: members are registered connections of a known user; a ready
  connection is dispatched to, and is a member at least while its info lives;
  the total counts the registered connections with a user. A connection that
  stays ready for longer than the TTLs stops counting toward the cap.
- `KnownWasGiven`: with several workers, a client only ever holds a number that
  its session was given.
- `ImplementsStream`: refinement of `SessionStream` (`log` from `numbered`,
  `held` and `known` from the tab).
- `AbandonedIsRemoved`, `ClosedIsSeen`, `HandshakeCompletes`: liveness.

The other models' properties are listed in their sections.

### Fairness

- Gateway: weak fairness of every coroutine's steps, the monitor's and the
  scheduled sends', which the asyncio loop gives to whatever can run; of
  `NoticeLoss`, since uvicorn pings its peers; and of a client's reading of its
  socket. Nothing is assumed of tabs connecting or leaving, of events, crashes
  or time.
- Database: weak fairness of a thread's own steps, of the end of a wait, of the
  clock (`TimePasses`) and of the monitor thread, which loops on a timer; strong
  fairness of `Lock` and of the pool's timeout, because a thread queues for
  `Database._lock` and an expired wait raises at its next look. Nothing is
  assumed of callers, thread death or failing connects.
- Bus: weak fairness of a dispatching thread, of the lifespan's start, of the
  consumer, of the rest of a begun shutdown, and of the listener (of some
  message, not of each). Nothing is assumed of shutdown or dispatch.

### Findings

1. `members`: a session hydrated from Valkey names no old connection, so the
   drop that `session.py:456-463` describes for a resume on another worker is not
   requested (`session.py:430`); the old member counts toward the cap until its
   socket is cleaned up or the set expires.
2. `split`: a connection inside a transaction can be reclaimed while its owner
   is between two statements. The owner's next statement reconnects outside any
   transaction and is committed alone; the writes before it are rolled back and
   `commit()` reports success (`engines/pool.py:180`, `core/connection.py:318`,
   `core/transactions.py:111`).

Met while modelling, without a run of their own. Of those marked * a model
behaviour exists that TLC finds when the instance or the property is changed as
described; they are why a property or theorem has the premise it has.

1. The finally block sets the connection disconnected before it asks
   `is_authenticated`, which requires READY, so the offline transition and the
   voice cleanup never run (`gateway.py:352-363`).
2. RESUMED carries the session's latest number and is written before the
   replay. A client that loses the socket between them resumes from that number
   and the missed events are not replayed (`handlers/connection.py:192-200`).
   `RetainedIsComing` therefore speaks of events above the tab's number only.
3. * A session that comes back to a worker is resumed from that worker's own copy
   (`session.py:336`), behind numbers given elsewhere, against the comment at
   `session.py:411-413`. Numbers are then given twice: `NumberUnique` fails with
   two workers.
4. After a resume on another worker the first worker keeps a ready connection
   and its own copy, and both number events: a session then has a ready
   connection on each worker. `ReadyOwnsSession` is about those of one worker.
5. A connection that stays open for more than a day without another
   registration of its user is dropped from the member set by the TTL
   (`session.py:177`) and no longer counts toward the cap.
6. * BEGIN and the touch that tells the pool of it are two critical sections. A
   thread that stalls between them for `idle_reclaim_seconds` while another finds
   the pool exhausted loses the transaction, which the comment at
   `core/transactions.py:51` rules out: the third part of `LiveWorkSurvives` fails
   without its premise on the connection's age.
7. * Two workers that rotate at their start number the new key by what they
   loaded; the second replaces the first's under the same version
   (`keyring.py:496`): `SealedOpens` fails with `MCOwnProcess` and rotations.
8. * Two objects of one process that were made before the file exists both
   generate version 1 (`keyring.py:463`): `SealedOpens` fails with
   `FoundVersion = 0` and two objects.
9. * A rotation whose write fails leaves the new key in memory, and the server's
   start goes on and encrypts with it (`keyring.py:498`, `initializer.py:117`):
   `SealedOpens` fails with `Fallible` and rotations.
10. * The constructor's save writes what was loaded before another object made
    the pepper (`keyring.py:78-83`): `PepperStable` fails with `FoundPepper =
    FALSE` and two processes. The save of `get_blind_index_root_key`
    (`keyring.py:110`) can do the same.
11. Close and insert of `store.create` are two transactions (`store.py:144-163`):
    a crash between them leaves a conversation without an open interval.
12. * A split that fails after the hard delete is logged only
    (`edit_delete.py:542`), and the deleted message's key stays in use:
    `DeletedKeyUnused` fails with `"split"` in `Faults`.
13. * An edit encrypts under the open interval and is not counted there
    (`repositories/message.py:283`): `RotationKeepsUp` fails if `envelope` takes
    the place of `column`.
14. A worker whose ping at start fails keeps the id "unknown" and does not
   recognise the echo of its own events, which its clients then get twice
   (`src/server/initializer.py`). `GatewayOnce` exempts such a worker.
15. The idle sweep of `subscribe`/`dispatch` removes every ordinary subscriber
   after five minutes without an event (`manager.py:320`).
16. `_save_without_lock` leaves the blind-index root key out of the file, so the
   constructor of the next object writes the file again.
17. * With two workers `OneOpen` and `DeletedKeyUnused` fail: the ratchet's lock is
   one process's. `delete_messages_bulk` does not split.
18. `_release_conn` asks a connection that may have been reclaimed for
   `in_transaction` (`core/connection.py:101`), which raises on a closed one: a
   statement or COMMIT that succeeded is reported as failed.

## 9. Proofs

`GatewayType` proves, for every set of workers, users and tabs and every value
of the limits and bounds (from `SessionManagerAssumption` and
`GatewayAssumption` only),

- `HandshakeInvariant`: `Spec => []TypeInv`, and from it
- `TypeCorrect`: `Spec => []TypeOK`.

`TypeOK` is not inductive: `SendReady` builds a frame of `csess[c]`,
`PresenceOnline` updates the presence of `cuser[c]`, `ResumeSession` takes the
session out of the client's frame, and none of them may be "none". `TypeInv`
adds what rules that out:

- `Identified`: a connection that is ready, or whose handler is past the
  verification, has a user and a session;
- `Handled`: a handler runs only on a frame that is still unanswered and of its
  own kind, on a connection that has a worker and no user yet;
- `Refusals`, `RefusedOnce`, `InOrder` (`HandshakeOrder`): INVALID_SESSION is
  on the wire only while nothing of the connection is unanswered, and nothing
  that belongs to a session comes before it. Without this the client could
  answer a refusal with an IDENTIFY while a handler still works on the RESUME,
  and a connection would identify twice.

There is one lemma per action. The module begins with what the operators
return: the largest element of a finite set, the kept end of a buffer,
`Recorded`, `SetToSeq`, and the frames after a number, of which `FramesAfterType`
says that they are all the missed ones and no others. `FramesAfter` is a
recursive function, and induction over it is out of the prover's reach; its
lemma argues from a least counterexample (`LeastNat`) instead.

### Who knows a session (`GatewayKnown`)

`SessionsAreSecret`: `Spec => [](TypeInv /\ Known)`, for any number of workers
and crashes. A session is *announced* once its READY has been numbered. `Known`
says that every session id a tab holds, a RESUME asks for, or a READY frame on
the wire, in a queue or in a replay buffer shows is announced (`TabsTold`,
`RequestsTold`, `FramesTold`, `CopiesTold`); that a connection whose IDENTIFY is
not finished has a session named after itself that is not announced
(`Created`); and that the manager's connections are those with a running loop
(`Present`). Hence nobody resumes a session between `create_session` and READY,
which the handler's awaits leave open for a long time.

`KnownNumbers`: `Spec => []KnownWasGiven`, also for any number of workers.
RESUMED carries the larger of the client's number and a copy's sequence, and
that copy may be another worker's stale one, so the invariant `Heard` has to
follow every number: what is under way on a connection is of the connection's
session and was given to it (`FramesGiven`), so were the frames and the sequence
of every copy (`CopiesGiven`) and the number of a RESUME (`RequestsGiven`); a
socket belongs to one tab (`OneTab`), and the session the tab holds is its
connection's or the one it asks for (`Follows`), so that a number it takes off
the wire is one of the session it counts for.

### Numbers (`GatewayNumbers`)

`UniqueNumbers` and `ReadyOwns`: `OneWorker /\ Spec` implies `[]NumberUnique`
and `[]ReadyOwnsSession`, crashes, expiries and both values of
`ValkeyAvailable` included. `OneWorker` is needed: with two workers `NumberUnique`
fails (section 8, item 3). It is far from inductive. `NumberInv`
speaks of the connections that may still number an event, those that are ready
or still greeting (`Builds`): there is one per session; all numbers given are
at or below its own (`Bounded`), and at or below the sequence of the worker's
copy and of the shared copy; and the worker's copy points to it, or neither
copy exists (`Owns`). The last clause is what makes `resume_session` safe: it
disconnects the connection the copy points to, which is then the only other
builder, and that builder is not one still greeting, by `Known`. A builder
without any copy is possible (its session expired and was refused to another
connection); it goes on numbering alone, and nobody can resume that session.
READY and `dispatch_event` share one lemma, `NumberingStep`.

`GatewayImplementsStream`: `OneWorker /\ Spec => ImplementsStream`, the
refinement of `SessionStream`. The mapping builds a session's log from the
history of numbers, so `StreamInv` says that as many numbers were given as the
last one says (`Gapless`) and that a connection's counter is 0 or a number its
session was given (`CountsGiven`). With `Owns` the counter of the one builder is
the log's length, and its next number is the log's next index (`LogGrows`).
READY and `dispatch_event` then are `Number` of the abstract module, a frame the
tab takes is `Learn`, INVALID_SESSION is `Forget`, and every other step, a
crash included, is a stutter.

`RetainedComes`: `OneWorker /\ Spec => []RetainedIsComing`. The property
compares the buffer with the tab's number, which changes with every frame, so it
is not inductive. `Coming` replaces the number by a mark `b` that stays: the
connection's counter, the tab's number and every frame under way are at `b` or
beyond, and every buffered event above `b` was received or is under way. For a
new session the mark is 0, for a resumed one the number the client asked for,
which `replay_events` starts from; until then `Asking` keeps everything on the
connection at or above that number, in particular the RESUMED frame. Without
that RESUMED could take the tab's number back below where the replay starts. `Emptied` says that an expired shared copy has no frames, so
that hydrating it brings none.

### The registry (`GatewayRegistry`)

`RegistryStaysExact`: `NoCrash /\ Spec => []RegistryExact`, for any number of
workers, with the TTLs running out at any time. `NoCrash` is needed: a dead
worker's members and count stay in Valkey. That a ready connection is a member
is promised for as long as its info lives; `MembersExpire` keeps that promise
because a set outlives the info of its members. The invariant adds `Holders`, that a worker's copy points only to connections
that worker accepted; without it a RESUME could drop the member of a ready
connection of another worker, which it does not disconnect.

`OneMember`: `OneWorker /\ NoCrash /\ Spec => []OneMemberPerSession`. `MemberInv`
says that the worker's copy of a member's session points to that member, or
neither copy exists (`Leads`); so a RESUME finds the old member and drops it.
Both hypotheses are needed: a copy hydrated from Valkey names no old connection,
and a second worker, or one that took the place of a dead one, hydrates while
the old member is still in the set (finding 1). The expiry of the old info does
no harm within one worker, since the code then assumes its own id.

### Keys (`KeyringProofs`)

`KeysAreKept` and `KeysAreHeld`: `Careful /\ Spec` implies `[]SealedOpens` and
`[]SealedOpensNow`, for every set of objects and processes. `Careful` says that
the file has a key at the start and that, where keys are rotated, there is one
process and no write fails. That is a server with one worker, with all the
objects a process has on the file, or several workers between two due dates of a
rotation. Every part of it is needed: items 7, 8 and 9 of section 8 are the
counterexamples with two processes, without a key in the file, and with a failing
write. The invariant `KeysInv` adds `Synced`, that every object in use
holds the file's keys, so that the save of a constructor, which may come any time
after its load, changes none of them; and `Dense`, that the versions with a key
are those up to the current one, so that a rotation takes a version nothing was
encrypted with. `Synced` survives a rotation because the rotating object is the
first of its process.

`PepperIsKept`: `FoundPepper /\ Spec => []PepperStable`, for any processes, with
rotations, first keys and failing writes: every object that has read a file with
the pepper writes it back, and before it has read one it writes nothing. The
premise is that the pepper is there before the modelled objects are; item 10 of
section 8 is how one that is made later is lost.

`KeyringTypes`: `Spec => []TypeOK` without any premise, so that even where keys
are lost a file always has a key for its current version.

### Delivery (`EventBusProofs`)

`BusTypes`, `DeliveredOnce` and `NothingLost`: `Spec` implies `[]TypeOK` (with
the caps), `[]GatewayOnce` and `[]NothingSilentlyLost`, from `BusAssumption`
only. For the second, `OnceInv` follows an event through its dispatch: nothing
of it is in any channel before the dispatch is over (`Unsent`), what is in a
worker's channel it has not handed out (`Pending`), and the dispatching worker
has handed it out once (`OwnCall`). For the third, `LedgerInv` says that nobody
was called before the dispatch came to the ordinary subscribers (`Uncalled`),
that only the dispatching worker queues an event (`Queued`), and that afterwards
the account balances (`Settled`).

### Intervals (`RatchetProofs`)

`RatchetTypes` and `OneIntervalOpen`: `OneWorker /\ Spec` implies `[]TypeOK` and
`[]OneOpen`, for every number of threads, messages, intervals, crashes and
failing statements. `DeletedKeysRest`: with `"split" \notin Faults` it also
implies `[]DeletedKeyUnused`; without that premise it fails
(section 8, item 12). `OneWorker` is needed (section 8).
The invariant adds `Single`, that nothing is open while an interval is being
inserted; `Started`, that a message lies at or behind the start of the interval
its ciphertext names, so that a hard delete which finds nothing to split can
only have met a closed interval; and `Retired`, that intervals of deleted
messages are closed, so that the look without the lock never finds one.

`RotationInTime`: `OneWorker /\ Spec => []RotationKeepsUp`, for all faults and
for messages counted by the interval they were sent under. The bound is reached
by senders that all pass the look without the lock before any of them inserts,
so the invariant `Load` counts calls as well as messages. An open interval
holds at most Limit - 1 messages and one more for each call between its
insert and the end of its `rotate_if_due` (`Rotating`), and for each such call a
crash or a failure ended (`Lost`). A closed one holds, together with the sends that will
still insert under it (`Writing`), at most Limit - 1, the number of threads and
`Lost`; closing it is safe because a thread is never rotating and writing at
once.

### The pool (`DatabaseProofs`)

`DatabaseInvariant`: `Spec => []DatabaseInv`, for every number of threads and
connections, every pool size and all faults. From it come `DatabaseTypes`,
`PoolIsExact`, `ConnectionsHaveOneHolder`, `NoLostWakeup`,
`PooledConnectionsAreClean` and `FlagsAreTrue`, and with it the action property
`ReapersSpareLiveWork`. The parts depend on each other:

- `Waiters`: `connect()` holds `Database._lock` while it waits for the pool, so
  at most one thread sleeps there and a `notify` wakes whoever could be waiting.
  This is what `SleepsOnlyWhenFull` needs: with two sleepers one `notify` for
  two freed places would not be enough.
- `PoolExact` gives that a return of a checked-out connection never finds the
  idle list full. That branch of `return_connection` closes the connection and
  wakes nobody; `ReturnCases` shows that it cannot be reached.
- `BegunInUse`: a driver transaction is in a connection that is checked out.
  `PooledIsClean` follows, and that a fresh connection with a reused identity
  has no transaction of its predecessor.
- `FlagsAgree` for `LiveWorkSurvives`: the reaper decides by the flags of a
  connection, and these are what its owner is doing, or was doing before the
  touch that is still to come. Between BEGIN and the touch the flag does not
  protect the transaction; what does is that the connection was used a moment
  ago, until the reclaim window is over. It speaks of open
  connections only: a thread whose connection was closed under it keeps
  `_local.in_transaction`, also when the reconnect fails and it has none.

### What is only model-checked

The liveness properties (`AbandonedIsRemoved`, `ClosedIsSeen`,
`HandshakeCompletes`, `CallsReturn`, `LeakIsReclaimed`, `QueuedIsDelivered`,
`SiblingsGetIt`): they need fairness and ENABLED, which are out of the prover's
reach. `TransactionsAreWhole` has a counterexample instead. Under two
workers or crashes the theorems with `OneWorker` or `NoCrash` say nothing; for
`NumberUnique`, `ReadyOwnsSession` and `OneMemberPerSession` section 8 says what
happens there.

## 10. Not modelled

The components marked `not_modelled` in `PROJECT.json`. The repository has some
268,000 lines; most of them are request handlers that run one SQL transaction
and have no state between requests, the office suite's formula library,
start-up and operator tools, and clients of outside services. The models cover
the parts where processes, threads and failures meet, a small share of the
lines. Of the modelled components:

- gateway: the voice sweeper, the other opcodes, intents, compression, payload
  limits, inbound throttling, malformed frames and a second IDENTIFY (the
  closings with DECODE_ERROR and ALREADY_AUTHENTICATED), failures of single
  Valkey calls;
- database: savepoints, PostgreSQL, `Database.reset` and `pool.close`, the query
  cache, SQL errors other than a closed connection ("database is locked" among
  them), SQL generation;
- event bus: routing, recreation of the queue on a new event loop, the
  listener's backoff;
- keyring: KEK migration and its rollback, failing decryption (in the ratchet a
  failing unwrap yields an empty key), direct edits of the file, the file
  encryptor's second save, timeouts of the file lock;
- ratchet: client snapshots, decryption, bulk deletes, which do not split.
