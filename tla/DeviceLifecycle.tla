--------------------------- MODULE DeviceLifecycle ---------------------------
(***************************************************************************)
(* Authentication, connection, activation and revocation of devices        *)
(* (app/application/devices/service.py) over the durable rows of           *)
(* security/database.py and repositories/devices.py and the process-local  *)
(* connections, with a crash and restart of the process at any step.       *)
(*                                                                         *)
(* Connection and revocation run under _lifecycle_lock; authentication and *)
(* activation do not.  Every database call is a step of its own, so other  *)
(* tasks run between a read and the use of what was read.  A write may     *)
(* fail, and its commit may be done although its caller sees an error.     *)
(***************************************************************************)
EXTENDS Naturals, Sequences

CONSTANTS
    Devices,       \* devices that were paired
    Sessions,      \* sockets that present a device's token
    Revocations,   \* calls of revoke_device
    Commands,      \* calls of execute_command
    None,
    DeviceOf,      \* the device of each socket's token
    TargetOf,      \* the device each revocation names
    ReceiverOf,    \* the device each command is for
    MaxRestarts    \* bound: crashes of the process

ASSUME LifecycleAssumption ==
    /\ None \notin Sessions
    /\ Sessions \cap Revocations = {}
    /\ DeviceOf \in [Sessions -> Devices]
    /\ TargetOf \in [Revocations -> Devices]
    /\ ReceiverOf \in [Commands -> Devices]
    /\ MaxRestarts \in Nat

VARIABLES
    credentials,   \* durable: devices with a row in device_credentials
    revoked,       \* durable: devices whose revoked_at is set
    lifecycle,     \* _lifecycle_lock: the holder, then the waiters in order
    connections,   \* the registered session of each device
    transport,     \* the socket's transport
    phase,         \* where the gateway handler of each socket is
    revocation,    \* where each revoke_device call is
    restarts,      \* crashes so far
    command,       \* where each execute_command call is
    session,       \* the connection it captured
    orphaned       \* history: sessions dropped after a failed send, on an open socket

durable == <<credentials, revoked>>
commandVars == <<command, session, orphaned>>
vars == <<credentials, revoked, lifecycle, connections, transport, phase,
          revocation, restarts, command, session, orphaned>>

\* Handler phases: before and in the service calls it makes.
SessionPhases ==
    {"new", "authenticating", "authenticated", "locking", "checked",
     "registering", "greeted", "granting", "serving", "updating", "ended"}

\* Phases in which the manager may hold the session.
Registered == {"registering", "greeted", "granting", "serving", "updating"}

RevocationPhases ==
    {"idle", "waiting", "active", "deleted", "saved", "closing", "done", "failed"}

CommandPhases == {"idle", "read", "queued", "sending", "sent", "failed"}

TypeOK ==
    /\ credentials \in SUBSET Devices
    /\ revoked \in SUBSET Devices
    /\ lifecycle \in Seq(Sessions \cup Revocations)
    /\ connections \in [Devices -> Sessions \cup {None}]
    /\ transport \in [Sessions -> {"open", "closing", "closed"}]
    /\ phase \in [Sessions -> SessionPhases]
    /\ revocation \in [Revocations -> RevocationPhases]
    /\ restarts \in 0 .. MaxRestarts
    /\ command \in [Commands -> CommandPhases]
    /\ session \in [Commands -> Sessions \cup {None}]
    /\ orphaned \in SUBSET Sessions

Init ==
    /\ credentials = Devices
    /\ revoked = {}
    /\ lifecycle = <<>>
    /\ connections = [d \in Devices |-> None]
    /\ transport = [s \in Sessions |-> "open"]
    /\ phase = [s \in Sessions |-> "new"]
    /\ revocation = [r \in Revocations |-> "idle"]
    /\ restarts = 0
    /\ command = [k \in Commands |-> "idle"]
    /\ session = [k \in Commands |-> None]
    /\ orphaned = {}

-----------------------------------------------------------------------------
Acquire(t) == lifecycle' = Append(lifecycle, t)
Holds(t) == lifecycle # <<>> /\ Head(lifecycle) = t
Release(t) == Holds(t) /\ lifecycle' = Tail(lifecycle)

SessionTo(s, p) == phase' = [phase EXCEPT ![s] = p]
RevocationTo(r, p) == revocation' = [revocation EXCEPT ![r] = p]

\* Mutant of ClosedOf: the transport is forgotten instead of closed.
ForgottenOf(d) ==
    [s \in Sessions |-> IF connections[d] = s THEN None ELSE transport[s]]

\* transport.close() on the device's session, if it has one, begins.
ClosedOf(d) ==
    [s \in Sessions |->
        IF connections[d] = s /\ transport[s] = "open" THEN "closing"
        ELSE transport[s]]

\* The close the manager awaits for device d has ended.
CloseAwaited(d) ==
    \A s \in Sessions : DeviceOf[s] = d => transport[s] # "closing"

-----------------------------------------------------------------------------
(* A socket: authenticate, connect_device, activate_device *)

\* identity.authenticate: the credential row is read, and there is one; else,
\* or on a database error, the upgrade is denied.
Authenticate(s) ==
    /\ phase[s] = "new"
    /\ \/ DeviceOf[s] \in credentials /\ SessionTo(s, "authenticating")
       \/ SessionTo(s, "ended")
    /\ UNCHANGED <<durable, lifecycle, connections, transport, revocation, restarts, commandVars>>

\* The device row is read: the WebSocket is accepted, or the upgrade denied.
Accept(s) ==
    /\ phase[s] = "authenticating"
    /\ \/ DeviceOf[s] \notin revoked /\ SessionTo(s, "authenticated")
       \/ SessionTo(s, "ended")
    /\ UNCHANGED <<durable, lifecycle, connections, transport, revocation, restarts, commandVars>>

EnterConnect(s) ==
    /\ phase[s] = "authenticated"
    /\ SessionTo(s, "locking")
    /\ Acquire(s)
    /\ UNCHANGED <<durable, connections, transport, revocation, restarts, commandVars>>

\* Mutant of CheckDevice: the lock covers the read only.
CheckDeviceAlone(s) ==
    /\ phase[s] = "locking"
    /\ Holds(s)
    /\ SessionTo(s, IF DeviceOf[s] \in revoked THEN "ended" ELSE "checked")
    /\ Release(s)
    /\ UNCHANGED <<durable, connections, transport, revocation, restarts, commandVars>>

\* Under the lock the device row is read again; a revoked device, or an error,
\* ends the handler.
CheckDevice(s) ==
    /\ phase[s] = "locking"
    /\ Holds(s)
    /\ \/ /\ DeviceOf[s] \notin revoked
          /\ SessionTo(s, "checked")
          /\ UNCHANGED lifecycle
       \/ /\ SessionTo(s, "ended")
          /\ Release(s)
    /\ UNCHANGED <<durable, connections, transport, revocation, restarts, commandVars>>

\* manager.connect: the session is registered and the one it replaces closed.
Register(s) ==
    /\ phase[s] = "checked"
    /\ SessionTo(s, "registering")
    /\ connections' = [connections EXCEPT ![DeviceOf[s]] = s]
    /\ transport' = ClosedOf(DeviceOf[s])
    /\ UNCHANGED <<durable, lifecycle, revocation, restarts, commandVars>>

\* Mutant of ConnectReturns: the lock is not released.
ConnectKeepsLock(s) ==
    /\ phase[s] = "registering"
    /\ CloseAwaited(DeviceOf[s])
    /\ SessionTo(s, "greeted")
    /\ UNCHANGED <<durable, lifecycle, connections, transport, revocation, restarts, commandVars>>

ConnectReturns(s) ==
    /\ phase[s] = "registering"
    /\ CloseAwaited(DeviceOf[s])
    /\ SessionTo(s, "greeted")
    /\ Release(s)
    /\ UNCHANGED <<durable, connections, transport, revocation, restarts, commandVars>>

\* The handler leaves: its own registration, if it still has it, is removed and
\* its socket ends.  After an activation the removal may be missed, because the
\* heartbeat task's error is raised before it (see DeviceGateway).
Leave(s) ==
    /\ SessionTo(s, "ended")
    /\ \/ connections' = [d \in Devices |->
                             IF connections[d] = s THEN None ELSE connections[d]]
       \/ phase[s] # "greeted" /\ UNCHANGED connections
    /\ transport' = [transport EXCEPT ![s] = "closed"]
    /\ UNCHANGED <<durable, lifecycle, revocation, restarts, commandVars>>

\* device.hello or capabilities.update: the grants are read from the device row.
\* A revoked device is a protocol error.
ReadGrants(s) ==
    /\ phase[s] \in {"greeted", "serving"}
    /\ transport[s] # "closed"
    /\ \/ /\ DeviceOf[s] \notin revoked
          /\ SessionTo(s, IF phase[s] = "serving" THEN "updating" ELSE "granting")
          /\ UNCHANGED <<durable, lifecycle, connections, transport, revocation,
                         restarts, commandVars>>
       \/ /\ DeviceOf[s] \in revoked
          /\ Leave(s)

\* manager.activate: only the device's registered session is activated.
Activate(s) ==
    /\ phase[s] \in {"granting", "updating"}
    /\ \/ /\ connections[DeviceOf[s]] = s
          /\ SessionTo(s, "serving")
          /\ UNCHANGED <<durable, lifecycle, connections, transport, revocation,
                         restarts, commandVars>>
       \/ /\ connections[DeviceOf[s]] # s
          /\ Leave(s)

\* The peer hangs up, breaks the protocol, or misses a heartbeat.
PeerLeaves(s) == phase[s] \in {"greeted", "serving"} /\ Leave(s)

\* The handler reads the disconnect of a closed socket.
SocketEnds(s) ==
    /\ phase[s] \in {"greeted", "serving"}
    /\ transport[s] = "closed"
    /\ Leave(s)

\* The close takes its turn in the send lock after the frames before it, and its
\* handshake ends.
CloseEnds(s) ==
    /\ transport[s] = "closing"
    /\ \A k \in Commands : session[k] = s => command[k] # "sending"
    /\ transport' = [transport EXCEPT ![s] = "closed"]
    /\ UNCHANGED <<durable, lifecycle, connections, phase, revocation, restarts, commandVars>>

-----------------------------------------------------------------------------
(* revoke_device *)

Revoke(r) ==
    /\ revocation[r] = "idle"
    /\ RevocationTo(r, "waiting")
    /\ Acquire(r)
    /\ UNCHANGED <<durable, connections, transport, phase, restarts, commandVars>>

\* A database error leaves revoke_device, and the rest of it is not reached.
Fails(r) == RevocationTo(r, "failed") /\ Release(r)

\* Mutant of ReadDevice: a device that is revoked already needs no more work.
ReadDeviceReturnsEarly(r) ==
    /\ revocation[r] = "waiting"
    /\ Holds(r)
    /\ \/ /\ TargetOf[r] \notin revoked
          /\ RevocationTo(r, "active")
          /\ UNCHANGED lifecycle
       \/ /\ TargetOf[r] \in revoked
          /\ RevocationTo(r, "done")
          /\ Release(r)
    /\ UNCHANGED <<durable, connections, transport, phase, restarts, commandVars>>

\* The status decides whether the rows are written; the session is
\* disconnected in any case.
ReadDevice(r) ==
    /\ revocation[r] = "waiting"
    /\ Holds(r)
    /\ \/ /\ RevocationTo(r, IF TargetOf[r] \in revoked THEN "saved" ELSE "active")
          /\ UNCHANGED lifecycle
       \/ Fails(r)
    /\ UNCHANGED <<durable, connections, transport, phase, restarts, commandVars>>

\* Mutant of DeleteCredential: an error of the delete is swallowed.
DeleteCredentialAnyway(r) ==
    /\ revocation[r] = "active"
    /\ credentials' \in {credentials, credentials \ {TargetOf[r]}}
    /\ RevocationTo(r, "deleted")
    /\ UNCHANGED <<revoked, lifecycle, connections, transport, phase, restarts, commandVars>>

\* identity.revoke: committed, or an error with or without the commit.
DeleteCredential(r) ==
    /\ revocation[r] = "active"
    /\ \/ /\ credentials' = credentials \ {TargetOf[r]}
          /\ RevocationTo(r, "deleted")
          /\ UNCHANGED lifecycle
       \/ /\ credentials' \in {credentials, credentials \ {TargetOf[r]}}
          /\ Fails(r)
    /\ UNCHANGED <<revoked, connections, transport, phase, restarts, commandVars>>

\* registry.save of revoked_at, likewise.
SaveStatus(r) ==
    /\ revocation[r] = "deleted"
    /\ \/ /\ revoked' = revoked \cup {TargetOf[r]}
          /\ RevocationTo(r, "saved")
          /\ UNCHANGED lifecycle
       \/ /\ revoked' \in {revoked, revoked \cup {TargetOf[r]}}
          /\ Fails(r)
    /\ UNCHANGED <<credentials, connections, transport, phase, restarts, commandVars>>

\* Mutant of DisconnectDevice: the entry goes, the socket stays open.
DisconnectKeepsSocket(r) ==
    /\ revocation[r] = "saved"
    /\ RevocationTo(r, "closing")
    /\ connections' = [connections EXCEPT ![TargetOf[r]] = None]
    /\ UNCHANGED <<durable, lifecycle, transport, phase, restarts, commandVars>>

\* manager.disconnect_device
DisconnectDevice(r) ==
    /\ revocation[r] = "saved"
    /\ RevocationTo(r, "closing")
    /\ connections' = [connections EXCEPT ![TargetOf[r]] = None]
    /\ transport' = ClosedOf(TargetOf[r])
    /\ UNCHANGED <<durable, lifecycle, phase, restarts, commandVars>>

\* Mutant of RevokeReturns: the close handshake is not awaited.
RevokeReturnsAtOnce(r) ==
    /\ revocation[r] = "closing"
    /\ RevocationTo(r, "done")
    /\ Release(r)
    /\ UNCHANGED <<durable, connections, transport, phase, restarts, commandVars>>

RevokeReturns(r) ==
    /\ revocation[r] = "closing"
    /\ CloseAwaited(TargetOf[r])
    /\ RevocationTo(r, "done")
    /\ Release(r)
    /\ UNCHANGED <<durable, connections, transport, phase, restarts, commandVars>>

-----------------------------------------------------------------------------
(* execute_command *)

CommandTo(k, p) == command' = [command EXCEPT ![k] = p]

\* The device row is read; a revoked device is not online.
ReadReceiver(k) ==
    /\ command[k] = "idle"
    /\ \/ ReceiverOf[k] \notin revoked /\ CommandTo(k, "read")
       \/ CommandTo(k, "failed")
    /\ UNCHANGED <<durable, lifecycle, connections, transport, phase, revocation,
                   restarts, session, orphaned>>

\* The status of a connection is ONLINE once it was activated, and stays so.
Online(s) == phase[s] \in {"serving", "updating", "ended"}

\* Without a suspension: the state of the connection, the capability, the action,
\* and manager.execute up to its wait for the connection's send lock.
Admit(k) ==
    LET s == connections[ReceiverOf[k]] IN
    /\ command[k] = "read"
    /\ \/ /\ s # None /\ Online(s)
          /\ CommandTo(k, "queued")
          /\ session' = [session EXCEPT ![k] = s]
       \/ /\ CommandTo(k, "failed")
          /\ UNCHANGED session
    /\ UNCHANGED <<durable, lifecycle, connections, transport, phase, revocation,
                   restarts, orphaned>>

\* With the send lock of the connection, if it is current still, the frame takes its
\* turn in the transport's lock, before any close that comes later.
StartSend(k) ==
    /\ command[k] = "queued"
    /\ \A j \in Commands : session[j] = session[k] => command[j] # "sending"
    /\ CommandTo(k, IF connections[ReceiverOf[k]] = session[k] THEN "sending" ELSE "failed")
    /\ UNCHANGED <<durable, lifecycle, connections, transport, phase, revocation,
                   restarts, session, orphaned>>

\* It is written, or, on a closed transport or for a frame that cannot be encoded,
\* send_command raises and the connection is dropped; its socket is not closed.
WriteFrame(k) ==
    LET d == ReceiverOf[k]
        s == session[k] IN
    /\ command[k] = "sending"
    /\ \/ /\ transport[s] # "closed"
          /\ CommandTo(k, "sent")
          /\ UNCHANGED <<connections, orphaned>>
       \/ /\ CommandTo(k, "failed")
          /\ connections' = [connections EXCEPT ![d] = IF @ = s THEN None ELSE @]
          /\ orphaned' = orphaned \cup
                {t \in {s} : connections[d] = t /\ transport[t] = "open"}
    /\ UNCHANGED <<durable, lifecycle, transport, phase, revocation, restarts, session>>

-----------------------------------------------------------------------------
\* The process dies and is started again: the rows stay, everything else is
\* gone; sockets end and callers see an error.
Crash ==
    /\ restarts < MaxRestarts
    /\ restarts' = restarts + 1
    /\ lifecycle' = <<>>
    /\ connections' = [d \in Devices |-> None]
    /\ phase' = [s \in Sessions |-> IF phase[s] = "new" THEN "new" ELSE "ended"]
    /\ transport' = [s \in Sessions |->
                        IF phase[s] = "new" THEN "open" ELSE "closed"]
    /\ revocation' = [r \in Revocations |->
                        IF revocation[r] \in {"idle", "done"} THEN revocation[r]
                        ELSE "failed"]
    /\ command' = [k \in Commands |->
                     IF command[k] \in {"idle", "sent"} THEN command[k] ELSE "failed"]
    /\ UNCHANGED <<durable, session, orphaned>>

SessionRuns(s) ==
    \/ Accept(s) \/ EnterConnect(s) \/ CheckDevice(s) \/ Register(s)
    \/ ConnectReturns(s) \/ Activate(s) \/ SocketEnds(s)

RevocationRuns(r) ==
    \/ ReadDevice(r) \/ DeleteCredential(r) \/ SaveStatus(r)
    \/ DisconnectDevice(r) \/ RevokeReturns(r)

CommandRuns(k) == Admit(k) \/ StartSend(k) \/ WriteFrame(k)

Next ==
    \/ \E s \in Sessions :
          Authenticate(s) \/ SessionRuns(s) \/ ReadGrants(s) \/ PeerLeaves(s)
              \/ CloseEnds(s)
    \/ \E r \in Revocations : Revoke(r) \/ RevocationRuns(r)
    \/ \E k \in Commands : ReadReceiver(k) \/ CommandRuns(k)
    \/ Crash

Spec == Init /\ [][Next]_vars

\* Tasks that can go on do, database calls end, and the server bounds every
\* close handshake.  Nobody has to connect, speak, hang up or revoke.
Fairness ==
    /\ \A s \in Sessions : WF_vars(SessionRuns(s)) /\ WF_vars(CloseEnds(s))
    /\ \A r \in Revocations : WF_vars(RevocationRuns(r))
    /\ \A k \in Commands : WF_vars(CommandRuns(k))

FairSpec == Spec /\ Fairness

-----------------------------------------------------------------------------
(* Refinement of DeviceAccess *)

\* A revocation of the device has returned.
Barred(d) == \E r \in Revocations : TargetOf[r] = d /\ revocation[r] = "done"

StageOf(d) ==
    IF Barred(d) THEN "barred"
    ELSE IF d \in revoked THEN "withdrawn"
    ELSE IF d \notin credentials THEN "locked_out"
    ELSE "granted"

\* Where a handler is, by its phase, on an open transport.
PlaceIn(p) ==
    CASE p = "new" -> "outside"
      [] p \in {"authenticating", "authenticated", "locking", "checked"} -> "inside"
      [] p \in {"registering", "greeted", "granting"} -> "entered"
      [] p \in {"serving", "updating"} -> "served"
      [] p = "ended" -> "out"

PlaceOf(t, p) ==
    CASE t = "open" -> PlaceIn(p)
      [] t = "closing" -> "leaving"
      [] t = "closed" -> "out"

Access == INSTANCE DeviceAccess WITH
    access <- [d \in Devices |-> StageOf(d)],
    current <- connections,
    door <- [s \in Sessions |-> PlaceOf(transport[s], phase[s])],
    stray <- orphaned,
    delivered <- [k \in Commands |-> IF command[k] = "sent" THEN session[k] ELSE None]

-----------------------------------------------------------------------------
(* Properties *)

\* However revocation is cut short, by an error or a crash, a device that is
\* marked revoked has no credential left: the credential goes first
\* (service.py:116-123).
RevokedHasNoCredential == revoked \cap credentials = {}

\* No session is registered for a revoked device: the row that connect_device
\* read is still true when it registers the session (service.py:136-142).
NoSessionForRevoked ==
    [][\A d \in Devices :
          connections'[d] \notin {None, connections[d]} => d \notin revoked]_vars

\* Once revoke_device has returned, and from then on, the device has no
\* credential and no session, and none of its sockets is served on an open
\* transport, unless a failed send had dropped it before: whatever earlier attempts
\* left half done (service.py:110-129; memory.py:270-275 for the exception).
CompletedRevocationHolds ==
    \A r \in Revocations : revocation[r] = "done" =>
        LET d == TargetOf[r] IN
        /\ d \in revoked \ credentials
        /\ connections[d] = None
        /\ \A s \in Sessions :
              DeviceOf[s] = d /\ phase[s] \in Registered
                  => transport[s] # "open" \/ s \in orphaned

\* Once revoke_device has returned no command is written to the device, though
\* execute_command may have read its row or captured its connection long before
\* (service.py:124-129, 182-203; memory.py:260-269; device_gateway.py:86-102).
NoCommandAfterRevocation ==
    [][\A k \in Commands :
          command[k] # "sent" /\ command'[k] = "sent" =>
              \A r \in Revocations :
                  TargetOf[r] = ReceiverOf[k] => revocation[r] # "done"]_vars

\* Whatever runs between a read and its use, fails or dies, access is withdrawn in
\* one direction, each stage binds from the moment its row is written or its call
\* has returned, and a command goes only to a session of its device that is current
\* or being closed (service.py:110-163, 182-203; memory.py:260-275).
AccessIsGuarded == Access!Spec

\* revoke_device ends, though it waits for the lock behind connections and
\* their close handshakes (service.py:111, 136-142).
RevocationReturns ==
    \A r \in Revocations :
        revocation[r] = "waiting" ~> revocation[r] \in {"done", "failed"}

\* After a completed revocation the handlers of the device end, those that were
\* authenticated or activating at the time included, and again except for a
\* session that a failed send had dropped (service.py:124-128, 136-163).
RevokedHandlersEnd ==
    \A r \in Revocations, s \in Sessions :
        revocation[r] = "done" /\ DeviceOf[s] = TargetOf[r] /\ phase[s] # "new"
            ~> phase[s] = "ended" \/ s \in orphaned
=============================================================================
