-------------------------- MODULE ConnectionManager --------------------------
(***************************************************************************)
(* InMemoryDeviceConnectionManager (app/infrastructure/devices/memory.py): *)
(* the table of live device sessions, the table of pending commands, and   *)
(* the owner's execute() calls that wait for a result.                     *)
(*                                                                         *)
(* Everything runs on one asyncio event loop.  No body of `async with      *)
(* self._lock` contains an await, so each critical section, together with  *)
(* the synchronous code around it, is one atomic step.  The steps that do  *)
(* suspend are the send lock of a connection, the transport's send, and    *)
(* the wait for the result; each is a phase of an execute() call below.    *)
(* The transport serializes its own messages (WebSocketDeviceTransport in  *)
(* api/websocket/device_gateway.py): between the manager's last look at    *)
(* the table and the frame a command may wait there, for a ping, an        *)
(* acknowledgement or a close, while its session is replaced or revoked.   *)
(*                                                                         *)
(* A session is the _LiveConnection object that connect() creates; its     *)
(* uuid4 makes it new.  Calls are execute() invocations: two calls may     *)
(* carry the same command id, which is what the `is pending` test of the   *)
(* finally clause is about.  Time is abstracted: a timer that is armed may *)
(* fire at any moment.  The service builds every command with a deadline   *)
(* ahead of its clock, so the two guards on entry never refuse one.        *)
(***************************************************************************)
EXTENDS Sequences

CONSTANTS
    Devices,       \* paired devices
    Sessions,      \* session identities; each is used once, so this bounds a run
    Calls,         \* execute() invocations
    CommandIds,    \* DeviceCommand.id
    Capabilities,  \* DeviceCapability
    None,
    DeviceOf,      \* command.device_id of each call
    IdOf,          \* command.id of each call
    CapabilityOf   \* command.capability of each call

ASSUME ManagerAssumption ==
    /\ None \notin Devices
    /\ None \notin Sessions
    /\ None \notin Calls
    /\ DeviceOf \in [Calls -> Devices]
    /\ IdOf \in [Calls -> CommandIds]
    /\ CapabilityOf \in [Calls -> Capabilities]

VARIABLES
    connections,  \* self._connections: the live session of each device
    owner,        \* the device a session was opened for
    online,       \* sessions whose status is ONLINE (the others are CONNECTING)
    effective,    \* effective_capabilities of each session
    handler,      \* the gateway coroutine that serves the session
    transport,    \* the session's transport: "closing" once close() was called
    pending,      \* self._pending: the call whose entry holds each command id
    future,       \* the future created by each call
    phase,        \* where each execute() call is suspended
    session,      \* the connection an execute() call captured
    sendQueue,    \* connection.send_lock: the holder, then the waiters in order
    wire,         \* calls whose command.execute frame went to the socket
    late,         \* history: those of wire whose session was not current then
    outcome,      \* what execute() returned or raised
    source        \* history: the session whose handler resolved each call

connVars == <<connections, owner, online, effective, handler, transport>>
callVars == <<pending, future, phase, session, sendQueue, wire, late, outcome,
              source>>
vars == <<connections, owner, online, effective, handler, transport,
          pending, future, phase, session, sendQueue, wire, late, outcome, source>>

\* A call whose send_command is under way is "sending" when it is ahead of any
\* close() in the transport's lock, and "barred" when a close() is ahead of it.
Phases == {"idle", "queued", "sending", "barred", "awaiting", "expired", "returned"}
Futures == {"pending", "result", "failed", "cancelled"}
Outcomes == {None, "refused", "result", "offline", "timeout", "send_failed"}

TypeOK ==
    /\ connections \in [Devices -> Sessions \cup {None}]
    /\ owner \in [Sessions -> Devices \cup {None}]
    /\ online \in SUBSET Sessions
    /\ effective \in [Sessions -> SUBSET Capabilities]
    /\ handler \in [Sessions -> {"none", "open", "ended"}]
    /\ transport \in [Sessions -> {"none", "open", "closing", "closed"}]
    /\ pending \in [CommandIds -> Calls \cup {None}]
    /\ future \in [Calls -> Futures]
    /\ phase \in [Calls -> Phases]
    /\ session \in [Calls -> Sessions \cup {None}]
    /\ sendQueue \in [Sessions -> Seq(Calls)]
    /\ wire \in SUBSET Calls
    /\ late \in SUBSET Calls
    /\ outcome \in [Calls -> Outcomes]
    /\ source \in [Calls -> Sessions \cup {None}]

Init ==
    /\ connections = [d \in Devices |-> None]
    /\ owner = [s \in Sessions |-> None]
    /\ online = {}
    /\ effective = [s \in Sessions |-> {}]
    /\ handler = [s \in Sessions |-> "none"]
    /\ transport = [s \in Sessions |-> "none"]
    /\ pending = [i \in CommandIds |-> None]
    /\ future = [c \in Calls |-> "pending"]
    /\ phase = [c \in Calls |-> "idle"]
    /\ session = [c \in Calls |-> None]
    /\ sendQueue = [s \in Sessions |-> <<>>]
    /\ wire = {}
    /\ late = {}
    /\ outcome = [c \in Calls |-> None]
    /\ source = [c \in Calls |-> None]

-----------------------------------------------------------------------------
(* The two tables *)

Live(s) == \E d \in Devices : connections[d] = s

\* An execute() call between its admission and its return.
InFlight(c) == phase[c] \in {"queued", "sending", "barred", "awaiting", "expired"}

\* An execute() call that holds the send lock and awaits the transport's send.
Sending(c) == phase[c] \in {"sending", "barred"}

Senders == {c \in Calls : Sending(c)}

\* The entries of self._pending that belong to device d.
PendingOf(d) ==
    {c \in Calls : pending[IdOf[c]] = c /\ DeviceOf[c] = d}

\* self._pending without the calls in C.
Without(pend, C) ==
    [i \in CommandIds |-> IF pend[i] \in C THEN None ELSE pend[i]]

\* set_exception on the futures of C that are not done.
Failed(fut, C) ==
    [c \in Calls |-> IF c \in C /\ fut[c] = "pending" THEN "failed" ELSE fut[c]]

\* Mutant of FailDevice: the futures fail but the entries stay.
FailDeviceKeepsEntries(d) ==
    /\ pending' = pending
    /\ future' = Failed(future, PendingOf(d))

\* The critical sections that take device d's pending commands away: every
\* entry of the device is removed and its future fails.
FailDevice(d) ==
    /\ pending' = Without(pending, PendingOf(d))
    /\ future' = Failed(future, PendingOf(d))

\* Mutant of Disconnected: whatever session is current is removed.
DisconnectedAny(d, s) == [connections EXCEPT ![d] = None]

\* disconnect(): only the session that is the device's current one is
\* removed; for any other session nothing happens.
Disconnected(d, s) ==
    IF connections[d] = s
    THEN [connections EXCEPT ![d] = None]
    ELSE connections

\* The calls that fail when session s of device d disconnects.
LostWith(d, s) == IF connections[d] = s THEN PendingOf(d) ELSE {}

-----------------------------------------------------------------------------
(* Sessions: connect, activate, disconnect, disconnect_device, close_all *)

\* Close of the transport of session s requested; a second request is a no-op.
Closing(s) == IF transport[s] = "open" THEN "closing" ELSE transport[s]

\* connect(): install a new CONNECTING session, fail what was pending on the
\* device, and ask the replaced session's transport to close.
Connect(d, s) ==
    /\ handler[s] = "none"
    /\ connections' = [connections EXCEPT ![d] = s]
    /\ owner' = [owner EXCEPT ![s] = d]
    /\ handler' = [handler EXCEPT ![s] = "open"]
    /\ transport' = [t \in Sessions |->
                        IF t = s THEN "open"
                        ELSE IF t = connections[d] THEN Closing(t)
                        ELSE transport[t]]
    /\ FailDevice(d)
    /\ UNCHANGED <<online, effective, phase, session, sendQueue, wire, late,
                   outcome, source>>

\* activate(): after device.hello and after each capabilities.update.  For a
\* session that is no longer current it raises and changes nothing.
Activate(s, caps) ==
    /\ handler[s] = "open"
    /\ connections[owner[s]] = s
    /\ online' = online \cup {s}
    /\ effective' = [effective EXCEPT ![s] = caps]
    /\ UNCHANGED <<connections, owner, handler, transport>>
    /\ UNCHANGED callVars

\* The gateway handler leaves: its finally clause disconnects its session, and
\* the server then ends the socket.
Teardown(s) ==
    /\ handler[s] = "open"
    /\ connections' = Disconnected(owner[s], s)
    /\ pending' = Without(pending, LostWith(owner[s], s))
    /\ future' = Failed(future, LostWith(owner[s], s))
    /\ handler' = [handler EXCEPT ![s] = "ended"]
    /\ transport' = [transport EXCEPT ![s] = "closed"]
    /\ UNCHANGED <<owner, online, effective, phase, session, sendQueue, wire,
                   late, outcome, source>>

\* The handler leaves without that call: awaiting a heartbeat task that died
\* on a failed ping re-raises its error inside the finally clause.
TeardownSkipped(s) ==
    /\ handler[s] = "open"
    /\ s \in online
    /\ handler' = [handler EXCEPT ![s] = "ended"]
    /\ transport' = [transport EXCEPT ![s] = "closed"]
    /\ UNCHANGED <<connections, owner, online, effective>>
    /\ UNCHANGED callVars

\* The gateway closes its own transport: protocol error or missed heartbeat.
GatewayCloses(s) ==
    /\ handler[s] = "open"
    /\ transport[s] = "open"
    /\ transport' = [transport EXCEPT ![s] = "closing"]
    /\ UNCHANGED <<connections, owner, online, effective, handler>>
    /\ UNCHANGED callVars

\* Mutant of CloseTransport: a frame that was written keeps the lock.
CloseTransportLockKept(s) ==
    /\ transport[s] = "closing"
    /\ \A c \in wire : session[c] # s
    /\ transport' = [transport EXCEPT ![s] = "closed"]
    /\ UNCHANGED <<connections, owner, online, effective, handler>>
    /\ UNCHANGED callVars

\* transport.close() gets the transport's lock, behind the command that was ahead
\* of it there, written or not, and ends.
CloseTransport(s) ==
    /\ transport[s] = "closing"
    /\ \A c \in Calls : ~(phase[c] = "sending" /\ session[c] = s)
    /\ transport' = [transport EXCEPT ![s] = "closed"]
    /\ UNCHANGED <<connections, owner, online, effective, handler>>
    /\ UNCHANGED callVars

\* disconnect_device(): revocation removes whatever session is current.
DisconnectDevice(d) ==
    /\ connections' = [connections EXCEPT ![d] = None]
    /\ transport' = [t \in Sessions |->
                        IF t = connections[d] THEN Closing(t) ELSE transport[t]]
    /\ FailDevice(d)
    /\ UNCHANGED <<owner, online, effective, handler, phase, session, sendQueue,
                   wire, late, outcome, source>>

\* close_all(): both tables are emptied, but only the futures of devices that
\* had a connection are failed.
CloseAll ==
    /\ connections' = [d \in Devices |-> None]
    /\ transport' = [t \in Sessions |->
                        IF Live(t) THEN Closing(t) ELSE transport[t]]
    /\ pending' = [i \in CommandIds |-> None]
    /\ future' = Failed(future,
                        {c \in Calls : /\ pending[IdOf[c]] = c
                                       /\ connections[DeviceOf[c]] # None})
    /\ UNCHANGED <<owner, online, effective, handler, phase, session, sendQueue,
                   wire, late, outcome, source>>

-----------------------------------------------------------------------------
(* execute() *)

Admissible(c) ==
    LET s == connections[DeviceOf[c]] IN
    /\ s \in online
    /\ CapabilityOf[c] \in effective[s]
    /\ pending[IdOf[c]] = None

Refuse(c) ==
    /\ phase[c] = "idle"
    /\ ~Admissible(c)
    /\ phase' = [phase EXCEPT ![c] = "returned"]
    /\ outcome' = [outcome EXCEPT ![c] = "refused"]
    /\ UNCHANGED <<pending, future, session, sendQueue, wire, late, source>>
    /\ UNCHANGED connVars

\* send_command() is called, and joins the transport's lock.
CallTransport(c, s) ==
    phase' = [phase EXCEPT ![c] =
                  IF transport[s] = "open" THEN "sending" ELSE "barred"]

\* The pending entry is registered, then the send lock is taken at once when
\* nobody holds or awaits it, else the call queues for it.
Admit(c) ==
    LET s == connections[DeviceOf[c]] IN
    /\ phase[c] = "idle"
    /\ Admissible(c)
    /\ pending' = [pending EXCEPT ![IdOf[c]] = c]
    /\ session' = [session EXCEPT ![c] = s]
    /\ sendQueue' = [sendQueue EXCEPT ![s] = Append(@, c)]
    /\ \/ sendQueue[s] = <<>> /\ CallTransport(c, s)
       \/ sendQueue[s] # <<>> /\ phase' = [phase EXCEPT ![c] = "queued"]
    /\ UNCHANGED <<future, wire, late, outcome, source>>
    /\ UNCHANGED connVars

\* Mutant of Finally: the entry is deleted whoever it belongs to.
FinallyDeletesAny(c, pend, fut) ==
    /\ pending' = [pend EXCEPT ![IdOf[c]] = None]
    /\ future' = [fut EXCEPT ![c] = IF @ = "pending" THEN "cancelled" ELSE @]

\* The finally clause of execute() when pend and fut are the tables it finds:
\* the entry is deleted only when it is this call's own, and a future that is
\* not done is cancelled.
Finally(c, pend, fut) ==
    /\ pending' = Without(pend, {c})
    /\ future' = [fut EXCEPT ![c] = IF @ = "pending" THEN "cancelled" ELSE @]

\* execute() returns or raises.
Return(c, why) ==
    /\ phase' = [phase EXCEPT ![c] = "returned"]
    /\ outcome' = [outcome EXCEPT ![c] = why]

\* Mutant of ReleaseSendLock: the lock is not released.
ReleaseSendLockForgotten(c) == UNCHANGED sendQueue

ReleaseSendLock(c) ==
    sendQueue' = [sendQueue EXCEPT ![session[c]] = Tail(@)]

\* Mutant of HasSendLock: a waiter goes ahead while another call writes.
HasSendLockAnyone(c) == sendQueue[session[c]] # <<>>

HasSendLock(c) ==
    /\ sendQueue[session[c]] # <<>>
    /\ Head(sendQueue[session[c]]) = c

\* Mutant of StillRegistered: no second look at the table.
StillRegisteredUnchecked(c) == TRUE

\* The look at the table under the send lock.
StillRegistered(c) == connections[DeviceOf[c]] = session[c]

\* A queued call gets the send lock and its connection is still registered.
StartSend(c) ==
    /\ phase[c] = "queued"
    /\ HasSendLock(c)
    /\ StillRegistered(c)
    /\ CallTransport(c, session[c])
    /\ UNCHANGED <<pending, future, session, sendQueue, wire, late, outcome, source>>
    /\ UNCHANGED connVars

\* The command's turn in the transport's lock: its frame goes to the socket.  The
\* session may have been replaced or dropped since the look at the table; its
\* close() then stands behind the command.
WriteFrame(c) ==
    /\ phase[c] = "sending"
    /\ c \notin wire
    /\ transport[session[c]] # "closed"
    /\ wire' = wire \cup {c}
    /\ late' = IF connections[DeviceOf[c]] = session[c] THEN late
               ELSE late \cup {c}
    /\ UNCHANGED <<pending, future, phase, session, sendQueue, outcome, source>>
    /\ UNCHANGED connVars

\* It gets the lock but the connection was replaced or dropped meanwhile.
SendTooLate(c) ==
    /\ phase[c] = "queued"
    /\ HasSendLock(c)
    /\ ~StillRegistered(c)
    /\ Return(c, "offline")
    /\ Finally(c, pending, future)
    /\ ReleaseSendLock(c)
    /\ UNCHANGED <<session, wire, late, source>>
    /\ UNCHANGED connVars

\* Mutant of Answer: the state of the future is returned as it is.
AnswerRaw(c) == future[c]

\* What wait_for(shield(future)) yields once the future is done.
Answer(c) == IF future[c] = "result" THEN "result" ELSE "offline"

\* send_command returns; a future that is done already is returned at once.
Sent(c) ==
    /\ phase[c] = "sending"
    /\ c \in wire
    /\ transport[session[c]] # "closed"
    /\ \/ /\ future[c] = "pending"
          /\ phase' = [phase EXCEPT ![c] = "awaiting"]
          /\ UNCHANGED <<pending, future, outcome>>
       \/ /\ future[c] # "pending"
          /\ Return(c, Answer(c))
          /\ Finally(c, pending, future)
    /\ ReleaseSendLock(c)
    /\ UNCHANGED <<session, wire, late, source>>
    /\ UNCHANGED connVars

\* send_command raises: the connection is dropped and the error re-raised.  Behind
\* a close() it always does, once that has ended; else the frame cannot be encoded
\* or the peer is already gone, and a frame that was being written fails only
\* because the socket is gone.  This path does not close the transport.
SendFails(c) ==
    LET d == DeviceOf[c]
        s == session[c]
    IN
    /\ \/ phase[c] = "sending"
       \/ phase[c] = "barred" /\ transport[s] = "closed"
    /\ connections' = Disconnected(d, s)
    /\ Finally(c, Without(pending, LostWith(d, s)),
                  Failed(future, LostWith(d, s)))
    /\ transport' = IF c \in wire THEN [transport EXCEPT ![s] = "closed"]
                                  ELSE transport
    /\ Return(c, "send_failed")
    /\ ReleaseSendLock(c)
    /\ UNCHANGED <<owner, online, effective, handler, session, wire, late, source>>

\* The call resumes after its future was resolved or failed.
ResultReady(c) ==
    /\ phase[c] = "awaiting"
    /\ future[c] # "pending"
    /\ Return(c, Answer(c))
    /\ Finally(c, pending, future)
    /\ UNCHANGED <<session, sendQueue, wire, late, source>>
    /\ UNCHANGED connVars

\* wait_for's timer cancels the waiting task.  The task resumes in a later
\* iteration of the loop, so other steps may come between; a result that
\* arrived but was not yet delivered is overtaken.
TimerFires(c) ==
    /\ phase[c] = "awaiting"
    /\ phase' = [phase EXCEPT ![c] = "expired"]
    /\ UNCHANGED <<pending, future, session, sendQueue, wire, late, outcome, source>>
    /\ UNCHANGED connVars

TimeoutRaised(c) ==
    /\ phase[c] = "expired"
    /\ Return(c, "timeout")
    /\ Finally(c, pending, future)
    /\ UNCHANGED <<session, sendQueue, wire, late, source>>
    /\ UNCHANGED connVars

-----------------------------------------------------------------------------
(* resolve() *)

\* Mutant of Matches: any session of the device may answer.
MatchesAnySession(s, c) == DeviceOf[c] = owner[s]

\* The entry's device and session are those the result came over, and that
\* session is still the current one.
Matches(s, c) ==
    /\ DeviceOf[c] = owner[s]
    /\ session[c] = s
    /\ connections[owner[s]] = s

\* The device of session s reports a result for command id i.  A device knows
\* an id only from a frame that was written, but it may repeat a result, delay
\* it, or send it over a newer session.  When the entry does not match, the
\* result is rejected and no state changes.
Resolve(s, i) ==
    /\ handler[s] = "open"
    /\ \E c \in wire : IdOf[c] = i
    /\ pending[i] # None
    /\ Matches(s, pending[i])
    /\ pending' = [pending EXCEPT ![i] = None]
    /\ future' = [future EXCEPT ![pending[i]] =
                      IF @ = "pending" THEN "result" ELSE @]
    /\ source' = [source EXCEPT ![pending[i]] = s]
    /\ UNCHANGED <<phase, session, sendQueue, wire, late, outcome>>
    /\ UNCHANGED connVars

-----------------------------------------------------------------------------
SessionStep ==
    \/ \E d \in Devices, s \in Sessions : Connect(d, s)
    \/ \E s \in Sessions, caps \in SUBSET Capabilities : Activate(s, caps)
    \/ \E s \in Sessions : \/ Teardown(s)
                           \/ TeardownSkipped(s)
                           \/ GatewayCloses(s)
                           \/ CloseTransport(s)
    \/ \E d \in Devices : DisconnectDevice(d)
    \/ CloseAll

CallStep(c) ==
    \/ Refuse(c)
    \/ Admit(c)
    \/ StartSend(c)
    \/ SendTooLate(c)
    \/ WriteFrame(c)
    \/ Sent(c)
    \/ SendFails(c)
    \/ ResultReady(c)
    \/ TimerFires(c)
    \/ TimeoutRaised(c)

ResultStep == \E s \in Sessions, i \in CommandIds : Resolve(s, i)

Next == SessionStep \/ (\E c \in Calls : CallStep(c)) \/ ResultStep

Spec == Init /\ [][Next]_vars

\* What an admitted call does next without any help from the device.
Progress(c) ==
    \/ StartSend(c) \/ SendTooLate(c) \/ WriteFrame(c) \/ Sent(c) \/ SendFails(c)
    \/ ResultReady(c) \/ TimerFires(c) \/ TimeoutRaised(c)

\* The server tells the handler of a closed socket that it is closed.
SocketEnds(s) ==
    /\ transport[s] = "closed"
    /\ Teardown(s) \/ TeardownSkipped(s)

\* The event loop runs every ready task and every due timer; a write on a
\* socket ends or fails (the server's keepalive ends a dead peer).
Fairness ==
    /\ \A c \in Calls : WF_vars(Progress(c))
    /\ \A s \in Sessions : WF_vars(CloseTransport(s)) /\ WF_vars(SocketEnds(s))

FairSpec == Spec /\ Fairness

-----------------------------------------------------------------------------
(* Properties *)

\* Every entry of the pending table belongs to a call that is still in
\* execute() and has no outcome yet, and it was admitted on the session that
\* is the device's current one, activated.  This is what lets resolve() trust
\* the entry and lets close_all() find the entries to fail from the
\* connections it removes.
PendingIsRoutable ==
    \A i \in CommandIds : pending[i] # None =>
        LET c == pending[i] IN
        /\ IdOf[c] = i
        /\ InFlight(c)
        /\ future[c] = "pending"
        /\ session[c] \in online
        /\ connections[DeviceOf[c]] = session[c]

\* A call whose future is still open is in the pending table under its own
\* id, so a result, a disconnect or a shutdown still finds it.  The finally
\* clause of an older call with the same id must not have removed it.
WaitingIsReachable ==
    \A c \in Calls :
        InFlight(c) /\ future[c] = "pending" => pending[IdOf[c]] = c

\* Two commands are never written to one session at the same time, and
\* whoever writes holds the send lock.
OneWriter ==
    \A c, e \in Calls :
        Sending(c) /\ Sending(e) /\ session[c] = session[e]
            => c = e /\ HasSendLock(c)

\* When the handler of one session leaves, every other current session stays.
TeardownIsOwn ==
    [][\A s, t \in Sessions :
          /\ handler[s] = "open" /\ handler'[s] = "ended"
          /\ t # s /\ Live(t)
          => Live(t)']_vars

\* The abstract routing of CommandRouting, read off the tables: a call is open
\* while its future is, answered or lost when the future was resolved or
\* failed, and closed when execute() has returned.
StatusOf(c) ==
    IF phase[c] = "idle" THEN "new"
    ELSE IF phase[c] = "returned" THEN "closed"
    ELSE IF future[c] = "result" THEN "answered"
    ELSE IF future[c] = "failed" THEN "lost"
    ELSE "open"

Routing == INSTANCE CommandRouting WITH
    current <- connections,
    used    <- {s \in Sessions : handler[s] # "none"},
    route   <- session,
    status  <- [c \in Calls |-> StatusOf(c)],
    handed  <- Senders,
    frames  <- wire,
    reply   <- outcome

\* The manager implements the abstract routing: a command is handed over only while
\* its session is current and sends no other, so that at most one frame goes out on
\* a session that was lost; a result comes over the session of its command or not at
\* all (memory.py:242-289, 296-317, device_gateway.py:80-92).
RoutesCommands == Routing!RSpec

\* Every admitted call ends: with the result, with an error, or by its timer.
EveryCallReturns ==
    \A c \in Calls : InFlight(c) ~> phase[c] = "returned"

\* A transport that was asked to close (replacement, revocation, shutdown,
\* protocol error, missed heartbeat) ends its handler.
CloseEndsHandler ==
    \A s \in Sessions : transport[s] = "closing" ~> handler[s] = "ended"

\* docs/protocols/jarvis-device-v1.md:156: a result for an expired command is
\* rejected.  So a call that timed out has not had a result accepted.
TimedOutResultRejected ==
    \A c \in Calls : outcome[c] = "timeout" => future[c] # "result"

\* docs/protocols/jarvis-device-v1.md:278: Core rejects a command whose
\* capability is not effective for the live session.
FrameCapabilityEffective ==
    [][\A c \in wire' : c \notin wire =>
          CapabilityOf[c] \in effective[session'[c]]]_vars

\* docs/protocols/jarvis-device-v1.md:120: a valid pong updates presence, which
\* needs the session in the table.  So a session that was activated and lost
\* its place does not keep its handler for ever.
DroppedSessionEnds ==
    \A s \in Sessions :
        handler[s] = "open" /\ ~Live(s) ~> handler[s] = "ended" \/ Live(s)
=============================================================================
