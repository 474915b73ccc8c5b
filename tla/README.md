# JARVIS Core: TLA+ models, model checking and proofs

JARVIS Core is one Python process (FastAPI on one uvicorn worker, asyncio) that
pairs devices, keeps one authenticated WebSocket per device, and routes owner
commands to them. This directory holds its formal models. All paths below are
relative to the repository.

Contents: [inventory](#inventory) -
[modules](#modules-and-how-they-correspond-to-the-code) - [runs](#runs) - [what
the violations mean](#disagreements-found) - [proofs](#proofs) -
[limits](#what-is-not-modelled) - [plan](#plan).

## Inventory

| Component | State it keeps | Operations | Talks to |
| --- | --- | --- | --- |
| Connection manager, `app/infrastructure/devices/memory.py` | live connection per device, pending commands by id, one send lock per connection | connect, activate, disconnect, disconnect_device, touch, execute, resolve, close_all | the transport (await), futures of waiting calls |
| Gateway, `app/api/websocket/device_gateway.py` | per socket: handler position, heartbeat task, nonce and event, replay window, transport (`_send_lock`, `_closed`) | handshake, hello, capabilities, results, pong, heartbeat rounds, teardown | device service; the transport is handed to the manager |
| Device service, `app/application/devices/service.py` | `_lifecycle_lock`; the rest is in the stores | pair, authenticate, revoke, connect, activate, execute, accept result, shutdown | registry, credentials (database), manager |
| Pairing and credentials, `app/infrastructure/security/` | pairing codes with attempts and expiry, credential hashes | create, claim (transaction or rollback), verify, revoke | database |
| Registry, `app/infrastructure/repositories/devices.py` | durable devices, grants, revoked flag | add, get, list, update | database |
| Hive and lifespan, `app/infrastructure/hive.py`, `app/main.py`, `app/core/config.py` | settings, which resources are open | validate settings, compose, close in reverse order | all of the above |
| Readiness, `app/infrastructure/readiness.py` | none | a bounded probe: connect, compare the revision with the scripts' head | database |
| Memory store, `app/infrastructure/repositories/memory.py`, `scripts/import_legacy_memory.py` | memories by category and key | upsert, delete, list, legacy import | database |
| Assistant, `app/application/assistant_service.py`, `app/infrastructure/ai/` | none | read the memories, one request to a model provider | memory store, external SDK |
| Operations, `scripts/`, `migrations/` | backup files, database, whether Core runs | backup, restore, migrate, adopt the migration baseline | PostgreSQL, containers |
| HTTP routes, `app/api/` | none | bearer checks, translation between HTTP and the services | all services |

What is hard in this system:

- **Interleavings on one event loop.** A task runs until it awaits; between two
  awaits it is atomic. `execute()` suspends in the send lock, in the lock of the
  transport (behind a ping, an acknowledgement or a close), in the write, in
  `wait_for`, and (the same step later) in its `finally`; the device may be
  replaced, revoked, dropped, or answer at every one of these points.
- **Shared tables that must agree**: `_connections`, `_pending`, the futures of
  the waiting calls, the two levels of send locks.
- **Failures in the middle**: a write that raises, a heartbeat that dies, a
  handler that leaves while its heartbeat task still uses the transport.
- **Duplicated, late and misrouted results** from the device.
- **Durable steps around volatile ones**: revocation, pairing, backup and restore.

Per component, correctness means:

- *manager*: a command is written at most once, only to the session it was
  admitted on, and handed to that session's transport only while it is the
  device's current one; of the frames of a session that was replaced or revoked
  at most one still goes out; a result is accepted at most once and only from the
  current session; every call ends; no entry is lost or left over;
- *gateway*: a heartbeat passes only if answered, no task blocks the transport,
  a doomed session ends, and a session that ended is not registered;
- *lifecycle*: no session of a revoked device outlives its revocation, and no
  command follows it;
- *pairing*: a code yields at most one device, within its attempts and expiry;
- *replay window*: a message id among the last N is never accepted twice;
- *lifespan*: whatever was opened is closed, whatever fails, and not under a
  request; in production no secret opens two doors;
- *readiness*: a probe always answers, and "ready" was true during it;
- *memory store*: every call takes effect at one moment, and its answer is true
  of that moment;
- *operations*: a published backup is complete; what a restore drops is saved
  first; Core serves what was restored.

`PROJECT.json` lists every hazard with the line where it bites and the property
that covers it, or why none does.

## Modules and how they correspond to the code

| Module | Role |
| --- | --- |
| `CommandRouting`, `CommandRoutingProofs` | abstract: what command routing promises, without locks, futures or timers; what follows from it, proved |
| `ConnectionManager`, `MCConnectionManager`, `ConnectionManagerProofs` | the manager in detail and its refinement mapping `Routing`; instances for TLC; proofs |
| `DeviceGateway`, `DeviceGatewayProofs` | one session: upgrade, handler, replay window, heartbeat task, transport, evicting task, sender; proofs |
| `DeviceAccess` | abstract: who may connect, be served and be commanded while access is withdrawn in stages |
| `DeviceLifecycle`, `MCDeviceLifecycle`, `DeviceLifecycleProofs` | authenticate, connect, activate, command and revoke over durable rows, with crashes, and the refinement mapping `Access`; instance; proofs |
| `PairingCodes` | abstract: codes that are redeemed at most once, by claims that are one step |
| `DevicePairing`, `MCDevicePairing`, `DevicePairingProofs` | claims of pairing challenges in either store, attempts and expiry, and the refinement mapping `Pairing`; instance; proofs |
| `LockQueues` | lemmas about an `asyncio.Lock` as a sequence, used by three of the proof modules |
| `AppLifecycle`, `MCAppLifecycle`, `AppLifecycleProofs` | settings, startup, requests, readiness probes, shutdown; instance; proofs |
| `AtomicMemory` | abstract: a memory whose calls take effect at one moment |
| `MemoryStore` | the memory API over SQL transactions and row locks, and its refinement mapping `Memory` |
| `Operations`, `MCOperations`, `OperationsProofs` | extends `MemoryStore` with the import, migrations, baseline adoption, backup and restore; instance; proofs |

### ConnectionManager

The manager's `_lock` is only ever held across code that does not suspend, so a
critical section is one action, together with the code that runs after it up to
the next suspension.

| TLA+ | Code |
| --- | --- |
| `connections`, `online`, `effective` | `_connections` and the fields of `_LiveConnection` |
| `pending`, `future` | `_pending` and the future in each entry |
| `sendQueue[s]` | `connection.send_lock`: holder first, then the waiters (asyncio locks are FIFO) |
| `phase[c]` | where the `execute()` call of command `c` is suspended |
| `transport[s]`, `handler[s]` | the socket of the session and the gateway coroutine that serves it |
| `wire`, `late` | commands whose frame went to the socket; history: those whose session was not current any more when it did |
| `source` | history: the session whose result was accepted |

`Admit` is admission, the uncontended send lock, the look at the table under it
and the call of `send_command` in one step, because nothing suspends between
them; `StartSend`/`SendTooLate` are the two outcomes of that look
(`StillRegistered`) for a call that had to wait for the send lock. Then the
command joins the lock of the transport (`CallTransport`). It is "sending" if no
`close()` is ahead of it there, and "barred" if one is. `WriteFrame` is its turn
in that lock, a step of its own: a ping or an acknowledgement may be ahead, and
the session may be replaced or revoked meanwhile. The frame then still goes out,
because the `close()` of the lost session stands behind it (`CloseTransport`
waits for a command that is "sending"); `late` remembers such frames. A barred
command fails once the close has ended. `Sent`, `SendFails` are the outcomes of
`send_command`;
`ResultReady`, `TimerFires`, `TimeoutRaised` those of `wait_for`. The timer is
two steps because a cancelled task resumes in a later iteration of the loop.
Every path out of `execute()` applies `Finally`, parameterised by the tables it
finds. `Teardown` and `TeardownSkipped` summarise the gateway's `finally`
clause, whose detail is `DeviceGateway`.

Abstractions: a command is its id, device and capability; capability sets are
arbitrary subsets; time is "the timer may fire whenever the call waits", which
includes a deadline that has already passed; a command that is refused before
the tables are looked at (non-positive timeout or deadline) is not a call. A
`close()` that fails is a close that ended. Devices may send a result only for
an id they saw in a frame.

Command ids: the service draws a fresh UUID for each command, the manager does
not rely on that and guards against a duplicate id. The instance of the passing
runs gives two calls the same id, so that the guard and the identity test in the
`finally` clause matter; the runs that show a disagreement use distinct ids.

### DeviceGateway

| TLA+ | Code |
| --- | --- |
| `handler`, `heartbeat` | positions of `device_gateway` and `heartbeat_loop` |
| `lock`, `closed` | `transport._send_lock` (holder, then waiters), `transport._closed` |
| `socket` | open, in a close handshake, closed by either side |
| `pings`, `nonce`, `received` | the nonce is the number of the ping; `heartbeat_nonce`, `heartbeat_received` |
| `ordered`, `seen` | `seen_ids` (a deque) and `seen_id_set`: the replay window |
| `registered`, `online` | what the manager holds for this session |
| `evictor`, `command` | a task that evicts and closes the session (replacement, revocation, shutdown), a task that sends it a command |

`Upgrade` is everything before `accept()`: it admits the socket or ends it.
Every message the handler parses goes through `Remember`, which refuses an id
of the window and, at the limit, forgets the same oldest id in both structures;
a message that is out of state (`InvalidMessage`) may have been remembered
before it was refused.

`Leave` is the common tail of every way out of the handler: the exception
clause, `heartbeat_task.cancel()`, and the disconnect. It has three outcomes,
depending on the heartbeat task: over (disconnect at once), failed (its error is
raised again and the disconnect is skipped), or alive (`await_heartbeat` until
`HeartbeatCancelled`, which gives the task's place in the send lock up wherever
it is: `GiveUp`). `DirectClose` is the close of a binary or oversize
message, which bypasses the transport's lock and `_closed`.

One evicting task and one command at a time are modelled: further ones would
queue in the same lock and find the same `closed` flag. The peer may vanish at
any step, `PeerGone` is therefore the environment. `MaxPings` bounds heartbeat
rounds; two rounds are what is needed for a pong of one round to meet the next.
The peer chooses the id of every message it sends.
The session may stop for good once it has ended, so this module's runs do not
check deadlock.

### DeviceLifecycle

| TLA+ | Code |
| --- | --- |
| `credentials`, `revoked` | rows of `device_credentials`, `revoked_at` in `devices`: they survive a crash |
| `lifecycle` | `_lifecycle_lock` of the service, holder first |
| `connections`, `transport` | the manager's table and the sockets, coarse |
| `phase`, `revocation` | where the handler of a socket, and a `revoke_device` call, is suspended |
| `command`, `session` | where an `execute_command` call is suspended, and the connection it captured |
| `orphaned` | history: sessions that a failed send dropped while their socket was open |

Every database call is a step, so other tasks run between a row that is read and
its use. A write of a revocation may fail with or without its commit being
done; then the rest of the call is skipped (`Fails`) and somebody may revoke
again. `Authenticate` and `Accept` are the two reads of authentication,
`CheckDevice` to `ConnectReturns` are `connect_device`, all under the lock,
`ReadGrants` and `Activate` are `activate_device`, outside it. `Leave` may miss
the removal of the session after an activation: the zombie of `gateway_zombie`
is part of this model, and the revocation properties hold with it. `Crash`
keeps the rows and drops everything else; `MaxRestarts` bounds it.

A command reads its device row (`ReadReceiver`), then takes the connection it
finds without a suspension (`Admit`), waits for the connection's send lock
(`StartSend`, with the recheck of `execute()`), and is written or fails
(`WriteFrame`). A close waits for the frame that is ahead of it in the
transport's lock (`CloseEnds`); the order among waiting commands is left open
here, `ConnectionManager` has it. The exception for `orphaned` sessions in the
properties is the disagreement `dropped_session`: the manager does not know
them any more, so a revocation cannot close them.

`DeviceAccess` is the policy without rows, locks and suspensions: the access of a
device is granted, locked out (no credential), withdrawn (marked revoked) or
barred (a revocation has returned), in that order and never back; a session is
outside, inside, entered, served, leaving or out. `Access` reads the stage off the
rows and the calls (`StageOf`), and the place of a session off the phase of its
handler and its transport (`PlaceOf`). `DeleteCredential` is `LockOut`,
`SaveStatus` `Withdraw`, `RevokeReturns` `Bar`, whose guard is what the revocation
waited for; `Authenticate` is `Identify`, `Register` `Enter`, `WriteFrame`
`Deliver` or `Lose`. Taking the lock, the second reads, and a write that failed
before its commit are stutters. A command that was admitted before the revocation
may still reach a session that is leaving, never a barred device.

### DevicePairing

| TLA+ | Code |
| --- | --- |
| `store` | the adapter: `SqlAlchemyDevicePairing`, or `InMemoryDevicePairing` |
| `challenge`, `failures`, `expired` | `_pairings`, `failed_attempts`, and whether `expires_at` has passed |
| `lock` | `self._lock`: a claim holds it from the lookup to its return |
| `claim[c]` | waiting for the lock, in the transaction, behind its commit, in the in-memory registry, taking a registration back, or the outcome |
| `devices`, `credentials` | rows, or entries of the in-memory stores, named by the claim that inserts them |
| `guesses` | history: wrong secrets that were compared, per challenge |

The lookup suspends nowhere, so `Refuse`, `WrongSecret`, `StartInsert` (SQL) and
`Issue` (memory) are its outcomes. `InsertFails` is an exception of the
transaction: rolled back, or committed with the acknowledgement lost. The
in-memory claim issues the credential, awaits the registry (`Add`), and if that
raises or is cancelled (`AddFails`) takes back both (`Undo`). After `Crash` the
challenges of the old process are gone, and a transaction under way is in the
database or is not; the in-memory stores have no crash, nothing of them is left
to speak about. Whether a secret is right is a property of the claim
(`Knowing`); what a hash comparison computes is not modelled.

In `PairingCodes` a claim is refused, or guesses, or is accepted and then redeems
the code and registers its device in one step, or fails. `Pairing` counts a code
whose transaction is committed as gone already (`Redeemed`), and a registration
in memory that may be taken back as none yet. So `Commit` is `Redeem`, and `Pair`
is `Give`; in memory `Add` is both. `InsertFails` is `Fail`, which may leave a
device registered that nobody has a credential for: that is all the abstract
specification allows of `pairing_lost_ack`.

### AppLifecycle

| TLA+ | Code |
| --- | --- |
| `settings` | `resolved_settings`; a secret is a value after `strip()`, classed as absent, blank, placeholder, short, non-ASCII, or one of `Secrets` |
| `phase` | from `create_app` through the `lifespan` to its end |
| `open`, `state` | resources opened and not asked to close; attributes of `application.state` |
| `up`, `revision` | the database answers, and the Alembic revision it is at |
| `probe[p]` | where a request of `/health/ready` is, or its report |
| `busy` | memory, chat and device requests, and device sessions, in progress |
| `sawHead`, `admitted` | history: the database was up and at the head during the probe; bearer tokens that were let in |

`Valid` is `validate_runtime_settings`; the bearer checks (`RequireOwner`,
`RequireDeviceAdmin`) look at the settings again on each request, and the
factories of the provider and of Hive refuse what validation lets pass outside
production. Each factory may raise: what was opened before it is then closed in
reverse order. A close that raises does not keep the next from being called,
which is why a failing close is the same step as a successful one.
`DatabaseChanges` is the environment: the database goes, comes back, is migrated
or replaced between any two steps of a probe.

A request other than a probe is in progress from `Request` (or `OpenSession`, for
a device) to `RequestEnds`, and nothing says when that is: it waits untimed for
the database (`database.py:13`), the AI provider (`gemini.py:26`) or the send
lock of a device (`memory.py:261`). `Drain` is the server's shutdown: it takes no
request any more, and the lifespan goes on only when none is in progress
(`Drained`). The server is started without a limit for that (`Dockerfile:41`,
`compose.prod.yml:144-158`).

### MemoryStore and AtomicMemory

| TLA+ | Code |
| --- | --- |
| `rows` | committed rows of `memories`, by category and key |
| `op[c]`, `at[c]` | the request of a call: asked, its statement executed and not committed, effective |
| `result[c]` | the answer, fixed by the statement (`rowcount`, the rows read) and returned after the commit |

A call is one statement and its commit, with other calls between them. The
upsert waits for the row or its index entry; the delete looks at committed rows
first, so a row that another transaction is inserting is not waited for
(`Delete`'s first disjunct). In `AtomicMemory` a call takes effect at one
moment: the refinement maps a statement that is not committed to nothing having
happened yet, so `Commit` is the moment of a write, and `ListAll`, or a delete
that finds nothing, its own. PostgreSQL's locks and snapshots are external: they
are modelled from what the adapter does with them: one statement, its row count,
one commit.

### Operations

| TLA+ | Code |
| --- | --- |
| `schema` | of the database: absent, empty, the tables of the time before Alembic (`legacy`, or `drifted` from it), or a revision |
| `core` | whether the Core container runs |
| `files[n]` | the published dump and checksum under a backup's name; the content a digest was made from stands for it |
| `script` | the one script that runs, its position and its shell variables |
| `dropped` | history: content of the database that was dropped last |

The actions of `backup_postgres.sh` are used twice, alone and as the safety
backup inside `restore_postgres.sh`, as in the code. Every step that changes the
database, Core or the backup directory is one action, and `ScriptFails` may come
instead of any: a failing command under `set -e`, a signal, or the death of the
machine. `StopCore` ends the calls that are in progress; the import is a process
of its own, whose calls are `MemoryStore`'s. `StartAdoption` and `Stamp` are two
connections of `adopt_alembic_baseline.py`.

Assumed: one operator runs one script at a time; two backups are made in
different seconds (their file names hold the time in seconds); whoever prunes
backups keeps the one of what was dropped last.

### How the modules meet

`ConnectionManager` and `DeviceGateway` overlap at the transport on purpose: the
manager sees many sessions and a coarse gateway, the gateway module one session
in detail. Where they meet, the coarse model allows what the detailed one shows:
for example `TeardownSkipped` exists because `gateway_zombie` is reachable.
`DeviceLifecycle` takes the same coarse view of manager and transport and adds
the database and crashes. `Operations` composes `MemoryStore` with the scripts:
the store's variables are shared, the scripts act on `rows` from outside, and
the linearizability of the store is checked and proved for the composition.
`AppLifecycle` and `Operations` meet in the database revision, which the first
leaves free and the second controls.

## Runs

| Run | Instance | States (distinct) | Shows |
| --- | --- | --- | --- |
| `routing` | 2 devices, 2 sessions, 3 calls, 2 ids, 1 capability; symmetry | 423,362 | `TypeOK`, `PendingIsRoutable`, `WaitingIsReachable`, `OneWriter`, `TeardownIsOwn`, refinement `RoutesCommands` |
| `progress` | 1 device, 2 sessions, 2 calls with distinct ids | 168,012 | `EveryCallReturns`, `CloseEndsHandler`, with fairness, without symmetry |
| `timeout_race` | 1 device, distinct ids | violation | see below |
| `stale_capability` | 1 device, distinct ids | violation | see below |
| `dropped_session` | 1 device, distinct ids, fairness | violation | see below |
| `gateway_session` | 2 heartbeat rounds, 3 message ids, a window of 2 | 53,431 | `TypeOK`, `CommandAfterReady`, `LockQueueExact`, `ReplayWindowExact`, `TeardownComplete`, `PassedHeartbeatWasAnswered`, `SessionWindsDown` |
| `gateway_zombie` | 2 heartbeat rounds | violation | see below |
| `lifecycle` | 1 device, 2 sockets, 2 revocations, 1 command, 1 restart | 108,574 | `TypeOK`, `RevokedHasNoCredential`, `NoSessionForRevoked`, `CompletedRevocationHolds`, `NoCommandAfterRevocation`, refinement `AccessIsGuarded`, `RevocationReturns`, `RevokedHandlersEnd` |
| `pairing` | both stores, 1 challenge, 2 claims that know the secret, 3 that guess, 2 attempts | 39,481 | `TypeOK`, `GuessBudget`, `OneCredentialPerChallenge`, `RegistrationIsWhole`, refinement `ClaimsAreAtomic`, `ClaimEnds` |
| `pairing_lost_ack` | the same | violation | see below |
| `startup` | every configuration that differs from a good production one in at most 2 settings, 1 request, 1 probe, 2 revisions | 112,264 | `TypeOK`, `SecretsStayApart`, `ResourcesNested`, `ReadyWasTrue`, `ProbeAnswers`, `ShutdownEnds` |
| `operations` | 1 key, 1 value, 2 calls of Core and an import of one entry, an old database to start from, 2 backups | 504,327 | `TypeOK`, `VisibleDumpHasChecksum`, `DroppedIsSaved`, `Linearizable`, `ServesWhatWasRestored` |

Bounds. Two sessions on one device are a replacement, and the session tables
never relate more than an old and a new session of one device; two devices show
that one device's events leave the other alone; of three calls two share an id
and two may share a send lock, so there is a holder, which may be behind a close in
the transport's lock or ahead of it, a waiter and a bystander. A
session is used once (a session id is a fresh UUID). In `lifecycle`, one socket
may replace the other or be authenticating while the other is revoked, and the
second revocation may have to finish what the first left half done, before or
after the restart; devices meet only in the lifecycle lock, where a call of
another device would be one more waiter; one command can have been captured
before, between or after the steps of either revocation. In `pairing` there is
one guess more than the attempts, and one claim that knows the secret behind
another. In `gateway_session`, three message ids and a window of two let an id
be refused, forgotten and accepted again.

In `startup` two deviations are what it takes to make one secret serve in two
places, or to leave one setting out and break another; probes and requests meet
only in the drain, so one of each with a database that changes at every step is enough,
and it needs one revision that is the head and one that is not. In `operations`
rows are independent of each other: one key with one value has two states, and
one call that writes or deletes, one that deletes or reads, and the import,
which writes, meet on it in every order; two backup names are the archive that
is restored and the safety backup, and with pruning there are always more. The
old database passes through adoption, restores and migrations into every other
schema but `drifted`, which is `legacy` that cannot be adopted. The proofs are
without these bounds.

The state spaces are finite without any further constraint and are explored
completely. `lifecycle`, `startup`, `operations` and the gateway's runs do not
check deadlock: once every socket and call has ended, the process is off, or the
last script is done, nothing need happen.

Symmetry (`routing` only, which has no liveness property): sessions are
interchangeable, and so are the two calls with the same device, id and
capability.

Every property of a passing run has a mutant: a named variant of one operator
(`FailDeviceKeepsEntries`, `PingKeepsEvent`, ...) with a bug one could plausibly
write there, under which TLC finds that property violated.

### Fairness

- A call that can go on does (`Progress`): the event loop runs every ready task
  and every due timer; a write ends or fails because uvicorn's WebSocket
  keepalive (on by default, and not switched off in the `Dockerfile`) ends a
  socket whose peer does not answer.
- `close()` ends: the server bounds the close handshake.
- A handler blocked in `receive()` is told that its socket has closed.
- In `DeviceGateway`, the same for handler, heartbeat task, evicting task and
  sender; the heartbeat's timer fires.

- In `DeviceLifecycle` and `DevicePairing`, a task whose turn it is goes on, and
  a database call returns or raises.
- In `AppLifecycle`, closes end and the probe's timer fires. Nothing is assumed
  of the database: `ProbeAnswers` holds because of the timer alone. No
  request or session is assumed to end: that those in progress when the server
  drains do is the premise of `ShutdownEnds`, which says that shutdown needs
  nothing else, although the database may hang under a probe. Without the premise
  it is false, as of the code.
- In `Operations`, none: it has no liveness property. A script may stop anywhere.

Nothing is assumed of the device (it need not answer, pong, or hang up), nor
that anybody connects, evicts or sends.

### Disagreements found

- `timeout_race`: a result handled between the firing of the timer and the
  resumption of the call is accepted, yet the owner gets a timeout. The device
  has no way to know, and an owner who retries executes the command twice.
- `stale_capability`: the capability is checked at admission, and not again after
  the wait for the send lock or for the transport's lock; a command can be written
  after `capabilities.update` removed its capability.
- `dropped_session`: a frame that fails on a live socket (its arguments cannot
  be encoded) removes the session without closing its transport. The device
  stays connected, its pongs are accepted, and it is offline to everyone.
- `gateway_zombie`: a heartbeat task that died on a failed ping makes the
  `finally` clause raise before it disconnects the session, which then stays
  registered and ONLINE until the device reconnects or a command to it fails.
- `pairing_lost_ack`: a claim drops its challenge after the transaction. If the
  commit is done and its acknowledgement lost, the challenge stays claimable, and
  a second claim registers a second device from a one-time challenge. The first
  device's credential was given to nobody, so `OneCredentialPerChallenge` holds.

## Proofs

`ConnectionManagerProofs.tla` proves, for every set of devices, sessions, calls,
ids and capabilities satisfying `ManagerAssumption` (calls have a device, an id
and a capability; `None` is none of these), with no bound:

| Theorem | Statement |
| --- | --- |
| `ManagerInvariant` | `Spec => []ManagerInv` |
| `TypeCorrect` | `Spec => []TypeOK` |
| `PendingRoutable` | `Spec => []PendingIsRoutable` |
| `WaitingReachable` | `Spec => []WaitingIsReachable` |
| `MutualExclusion` | `Spec => []OneWriter` |
| `TeardownRemovesOwn` | `Spec => TeardownIsOwn` |
| `Refinement` | `Spec => RoutesCommands` |
| `SendLocksAreExact` | `Spec => []SendLocksServe` |
| `OwnerIsToldTheTruth` | `Spec => []OutcomesAreTrue` |
| `LateFrameGoesAlone` | `Spec => []LateFramesAreOne` |
| `ResultsComeFromTheirSession` | `Spec => ResultsAreOwn` |

The argument. `PendingIsRoutable` and `WaitingIsReachable` are not inductive
alone. A step that removes a connection must fail exactly the open calls of that
device, which needs to know that an open call is on its device's current
session and that its entry is in the table; a call that gets the lock needs to
know that it is in flight on an opened session. `ManagerInv` therefore adds:

- `SenderHasLock`: a call that is sending is the head of its connection's queue;
- `SessionsOpened`: the session of every connection and of every unfinished call
  was opened, so a fresh session is nobody's;
- `CallStates`: what each phase says of a call's future and of its frame.

The step lemma has one step per action and, below it, one per conjunct the
action can disturb. The refinement uses `ManagerInv` to show that the futures
failed by an action of the manager are exactly those of the calls the abstract
step loses: `Connect` is `Join`; `Teardown`, `DisconnectDevice` and `CloseAll`
are `Leave` or a stutter; `Admit` is `Accept`, with the hand-over when the send
lock is free; `StartSend` is `Hand`, for which `StillRegistered` and the send lock
(`SenderHasLock`) are needed; `WriteFrame` is `WriteFrame`, late or not; `Sent` is
`Written` or `Tell`; `Resolve` is `Answered`; the ends of a call are `Tell` or
`WriteFails`.

`SendLocksServe` says that the queue of a session's send lock is exactly the calls
that send or wait to send on it, each once. Nothing checks it in a run; with
`ManagerInv` it is inductive, and it is what `EveryCallReturns` needs besides
fairness: whoever waits, waits behind a call that is still there. The lemmas about
such queues (`JoinQueue`, `LeaveQueue`, `HolderIsIn`) are in `LockQueues.tla`.

`CommandRoutingProofs.tla` proves what the abstract routing is worth, for every
set of devices, sessions and calls whose commands name a device (`WellAddressed`,
which `ManagerAssumption` implies):

| Theorem | Statement |
| --- | --- |
| `RoutingInvariant` | `RSpec => []RoutingInv` |
| `OpenReachable` | `RSpec => []OpenIsReachable` |
| `OwnerToldTruth` | `RSpec => []OwnerIsTold` |
| `OneLateFrame` | `RSpec => []LateFrameIsLast` |

That a call which was told "offline" was told the truth is a statement about
all later states: its session must not come back, which the manager's own
invariant does not say. In the abstract routing it follows from `used`, the
sessions a device had at some time. `OwnerIsToldTheTruth` takes it from there:
`Spec` implies the abstract specification (`Refinement`), that implies
`OwnerIsTold` (cited through `Promise`, an instance of the abstract proofs), and
under the mapping this is `OutcomesAreTrue`. `LateFrameGoesAlone` takes the same
way. In the abstract routing it needs that a session sends one command at a time,
that its late frame is that command's, and that a session serves one device for
ever (`OneAtATime`, `Belongs`): once the session is lost nothing more is handed to
it, so its close waits for one command and never for two. A timeout and a failed send are not
in it, because the code promises nothing about them: the command may have been
executed (`timeout_race`).

`DevicePairingProofs.tla` proves, for every set of challenges and claims and
every limit of at least one attempt (`PairingAssumption`):

| Theorem | Statement |
| --- | --- |
| `PairingInvariant` | `Spec => []PairingInv` |
| `PairingTypeCorrect` | `Spec => []TypeOK` |
| `GuessesBounded` | `Spec => []GuessBudget` |
| `CredentialOnce` | `Spec => []OneCredentialPerChallenge` |
| `RegistrationWhole` | `Spec => []RegistrationIsWhole` |
| `MemoryPairsOneDevice` | `Spec => [](store = "memory" => OneDevicePerChallenge)` |
| `LockIsExact` | `Spec => []LockServesClaims` |
| `PairingIsAtomic` | `Spec => ClaimsAreAtomic` |

That a challenge gives out one credential needs two facts it does not say: a
claim that is registering, in the transaction or in memory, is the head of the
lock and its challenge is open still (`Inserts`: whoever else would close it
needs the lock), and a challenge that was used is gone (`UsedUp`). `Counts` ties
the history of guesses to the record's counter; without it an open challenge might
have no attempt left, and the counter would leave its type.

The run `pairing_lost_ack` refutes `OneDevicePerChallenge`;
`MemoryPairsOneDevice` proves it for the store without transactions, so the lost
acknowledgement is the only way to two devices. For that `PairingInv` says who is
registered in memory (`Registers`): only the claim that holds the lock, or one
that was paired. For `PairingIsAtomic`, no claim but the holder
of the lock is between its lookup and its outcome (`HolderAlone`), so nobody meets
the challenge of a committed claim before it is dropped; each action is then one
abstract action (`Commit` is `Redeem`, and so on) or changes no mapped variable.

`DeviceGatewayProofs.tla` proves, for every number of pings, every set of
message ids and every window of at least one (`GatewayAssumption`):

| Theorem | Statement |
| --- | --- |
| `GatewayInvariant` | `Spec => []GatewayInv` |
| `GatewayTypeCorrect` | `Spec => []TypeOK` |
| `ReadyBeforeCommand` | `Spec => []CommandAfterReady` |
| `LockQueueIsExact` | `Spec => []LockQueueExact` |
| `WindowIsExact` | `Spec => []ReplayWindowExact` |
| `SessionTornDown` | `Spec => []TeardownComplete` |
| `PassedWasAnswered` | `Spec => PassedHeartbeatWasAnswered` |

The session is ONLINE before `server.ready` is written, so `CommandAfterReady`
rests on the order of the send lock: whenever a command is in the queue and
`server.ready` is not written, the handler is ahead of it with that frame, or
nothing will be written any more (`ReadyFirst`). That needs the queue task by
task (`QueueExact`, which implies `LockQueueExact`), also when a cancelled
heartbeat leaves from its middle. `Teardown` says that no heartbeat exists
before the session is served; a received pong has consumed the nonce.

`DeviceLifecycleProofs.tla` proves, for all devices, sockets, revocations,
commands and numbers of crashes (`LifecycleAssumption`):

| Theorem | Statement |
| --- | --- |
| `DeviceInvariant` | `Spec => []LifecycleInv` |
| `DeviceTypeCorrect` | `Spec => []TypeOK` |
| `RevokedIsLockedOut` | `Spec => []RevokedHasNoCredential` |
| `RevocationHolds` | `Spec => []CompletedRevocationHolds` |
| `RevokedNeverRegistered` | `Spec => NoSessionForRevoked` |
| `RevokedIsNotCommanded` | `Spec => NoCommandAfterRevocation` |
| `LifecycleLockIsExact` | `Spec => []LockServesTasks` |
| `AccessGuarded` | `Spec => AccessIsGuarded` |

The row `connect_device` has read is still true when it registers the session
(`StillPaired`), because whoever would change it needs the lifecycle lock
(`Locking`). `Progress` is what a revocation has done by each of its steps, and
stays true after it returned, although others connect and fail. `Known` ties a
served handler to the table: it is the current session, or its transport is
closing, or a failed send dropped it. `Sending` does the same for a command that
is being written; it is what keeps a frame from following a revocation, since
the close that the revocation awaits stands behind the frame in the lock.

The refinement needs one part more, `Entering`: a session that arrives is on an
open transport, the session of a device is registered or ended with a closed
socket, and commands capture only sessions that were activated. With it every step
of a handler is one move of its door; `RevokeReturns` may `Bar` because
`connections[d]` is `None` since `DisconnectDevice` (`Progress`), every handler of
the device that is not closed was dropped (`Known`), and nobody can have entered
since, the lock being held (`Locking`). `LifecycleLockIsExact` is the safety half
of `RevocationReturns`, as `LockIsExact` is of `ClaimEnds`.

`AppLifecycleProofs.tla` proves, for all configurations, secrets, requests, probes
and revisions (`LifecycleAssumption`):

| Theorem | Statement |
| --- | --- |
| `LifecycleInvariant` | `Spec => []LInv` |
| `LifecycleTypeCorrect` | `Spec => []TypeOK` |
| `ResourcesAreNested` | `Spec => []ResourcesNested` |
| `ReadyReportsAreTrue` | `Spec => []ReadyWasTrue` |
| `SecretsAreApart` | `Spec => []SecretsStayApart` |

`Vetted` carries what validation established to the requests: validation alone
compares the secrets only if every one of them is set, and does not require the
AI key of another provider; that such a process never serves is the provider
factory's doing. `Witnessed` says that a probe in flight while the database is at
the head is marked so, before it looks. `AllServed` says that requests, sessions
and probes are in progress only while the process serves or drains; it is why no
resource is closed under one.

`OperationsProofs.tla` proves, for all keys, values and calls, every legacy
file, every initial database and every number of backups
(`OperationsAssumption`):

| Theorem | Statement |
| --- | --- |
| `OperationsInvariant` | `Spec => []OperationsInv` |
| `OperationsTypeCorrect` | `Spec => []TypeOK` |
| `ArchivesAreChecked` | `Spec => []VisibleDumpHasChecksum` |
| `DroppedDataIsSaved` | `Spec => []DroppedIsSaved` |
| `RestoredIsServed` | `Spec => ServesWhatWasRestored` |
| `MemoryIsLinearizable` | `Spec => Linearizable` |

`CallStates` and `OneHolder` are the heart of linearizability: the answer of a
statement that is not committed is the answer its request has on the rows of
this moment, because nobody else can write that row meanwhile; the commit is
then a step of the abstract memory. `Restoring` has what a restore made certain
by each step, above all that Core is stopped and no call in progress from the
dump to the drop, so that the dump is still the database (`Quiet`, with the
import excluded because scripts run one at a time). `BackingUp` keeps the name
of a running backup its own, so publishing never overwrites the archive that
saves what was dropped. In the refinement the calls of Core and of the import
are those of the abstract memory; dropping, creating and loading the database
are `Replace`, which no call overlaps; every other step of a script is a
stutter, or a `Fail` of the calls it kills.

All invariants and action properties of the passing runs, and all four
refinements (`RoutesCommands`, `ClaimsAreAtomic`, `AccessIsGuarded`,
`Linearizable`), are proved. Only model-checked are the liveness properties (`EveryCallReturns`,
`CloseEndsHandler`, `SessionWindsDown`, `RevocationReturns`,
`RevokedHandlersEnd`, `ClaimEnds`, `ProbeAnswers`, `ShutdownEnds`): fairness and
`ENABLED` are outside the reach of the proof system. So are induction over data
with an operator parameter and RECURSIVE operators; the modules use functions,
sets and sequences only.

## What is not modelled

- Wire format, JSON and pydantic validation: a message is valid or invalid, a
  frame can be encoded or not.
- `touch`, `get_state`, listing devices: they change timestamps or return copies.
- Cancellation of `execute()` from outside: the routes are plain endpoints
  behind pure ASGI middleware, which do not cancel them.
- Replacing the credential of a paired device (`issue`), which nothing calls;
  the token format and hashing.
- Devices other than the revoked one in the lifecycle lock: see the bounds.
- Deadlines as times: the timer may fire at any step of a waiting call. The
  code does not look at the deadline again before it writes the frame (the
  hazard at `memory.py:276`), and nothing in the repository promises it.
- `updated_at` and `last_seen`: they order lists and are shown, nothing else.
- Prompt text, the request to the AI provider, HTTP schemas, the mapping of
  errors to status codes, domain validation of device data: stateless.
- The columns and indexes of the migrations, and their downgrades, which no
  script runs.
- Containers and proxy: configuration. What is used of them is one worker,
  uvicorn's WebSocket keepalive, and that uvicorn has no limit for a graceful
  shutdown. That a process which drains for too long is killed
  (`stop_grace_period`, `compose.prod.yml:174`) is not modelled: the lifespan does
  not end then. A close in the lifespan is assumed to end or raise.
- The in-memory device registry and identity of the tests, but for what
  in-memory pairing writes and rolls back; the capability registry, a table that
  does not change while Core serves.

Seen while modelling, and outside the properties because nothing in the
repository says otherwise:

- `backup_postgres.sh` names files by the second and refuses an existing name; a
  second backup in the same second ends with an error.
- After a failure between `dropdb` and `createdb` there is no database to dump,
  so a repeated `restore_postgres.sh` fails in its safety backup until somebody
  creates the database by hand. The archives are intact (`DroppedIsSaved`).
- After a failure in `pg_restore` the repeated script saves and drops the empty
  database, so what was dropped last is then not what was lost: the archive of
  the first attempt is the one to keep.
- An archive made before the baseline was adopted loads, but `migrate` fails on
  its tables; the restore ends there with Core stopped.
- A restore that is repeated after a failed one finds Core stopped by its
  predecessor and leaves it stopped. If the last `up -d --wait core` of a restore
  fails, the script reports that Core was left stopped although its container
  may run; by then the database is complete, so `ServesWhatWasRestored` holds.
- Two adoptions at once, with a migration between them, could stamp the baseline
  over a later revision; the model has one script at a time.
- A challenge that expires and is never claimed stays in `_pairings` until the
  process ends.

## Plan

Done: `ConnectionManager` with `CommandRouting`, `DeviceGateway`,
`DeviceLifecycle` with `DeviceAccess`, `DevicePairing` with `PairingCodes`,
`AppLifecycle`, `MemoryStore` with `AtomicMemory`, `Operations`, a proof module
for each detailed model, and the refinement proofs.

Next, in this order:

1. `ConnectionManager`: a deadline flag per call that the environment raises, so
   that what the code does with an expired command before and in the wait for
   the send lock can be stated.
2. A contract of one device session (frames in order, one writer, closed for
   good) that `DeviceGateway` implements and `ConnectionManager` uses, in place of
   the overlap at the transport.
3. The same for access and pairing as for routing: theorems about `DeviceAccess`
   and `PairingCodes` alone, from which the properties of the detailed models
   follow.
4. `DevicePairing`: the rotation of credentials, once a caller exists.
