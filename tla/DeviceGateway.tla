---------------------------- MODULE DeviceGateway ----------------------------
(***************************************************************************)
(* One device session of the WebSocket gateway                             *)
(* (app/api/websocket/device_gateway.py): the handler coroutine, its       *)
(* heartbeat task, and WebSocketDeviceTransport with its send lock, shared *)
(* with whoever evicts the session (replacement, revocation, shutdown) and *)
(* whoever sends it a command.                                             *)
(*                                                                         *)
(* A task is atomic between two suspensions.  It suspends in receive(), in *)
(* the device registry (a database), in the send lock, and while a frame   *)
(* or a close handshake is under way.  The connection manager is reduced   *)
(* to what this session sees of it: whether it is the device's current     *)
(* session and whether it is ONLINE; ConnectionManager.tla has the rest.   *)
(***************************************************************************)
EXTENDS Naturals, SequencesExt

CONSTANTS
    MaxPings,       \* bound: heartbeat.ping frames of one session
    MessageIds,     \* message_id of the frames the device sends
    ReplayWindow    \* MESSAGE_REPLAY_WINDOW

ASSUME GatewayAssumption ==
    /\ MaxPings \in Nat \ {0}
    /\ ReplayWindow \in Nat \ {0}

VARIABLES
    handler,     \* where the handler coroutine is
    heartbeat,   \* where heartbeat_task is
    evictor,     \* the task that closes the evicted session's transport
    command,     \* the task that sends a command
    lock,        \* transport._send_lock: the holder, then the waiters in order
    closed,      \* transport._closed
    socket,      \* "closing" while a close handshake runs
    registered,  \* this session is the device's current one
    online,      \* ... and its status is ONLINE
    pings,       \* pings sent so far; the number is the nonce
    nonce,       \* heartbeat_nonce, 0 for None
    received,    \* heartbeat_received
    ordered,     \* seen_ids: the ids of the last messages, oldest first
    seen,        \* seen_id_set
    written      \* frames written to the device that a property speaks about

regVars == <<registered, online>>
hbVars == <<pings, nonce, received>>
windowVars == <<ordered, seen>>
vars == <<handler, heartbeat, evictor, command, lock, closed, socket,
          registered, online, pings, nonce, received,
          ordered, seen, written>>

Tasks == {"handler", "heartbeat", "evictor", "command"}

\* Handler phases in which it waits for, or holds, the transport's send lock.
HandlerSends == {"hello", "ready", "reply", "error", "close", "closing"}
HandlerPhases == HandlerSends \cup
    {"upgrade", "accepted", "connecting", "await_hello", "activating", "serving", "updating",
     "direct_close", "await_heartbeat", "ended"}

HeartbeatSends == {"ping", "close", "closing"}
HeartbeatAlive == HeartbeatSends \cup {"sleeping", "waiting", "cancelling"}

TypeOK ==
    /\ handler \in HandlerPhases
    /\ heartbeat \in HeartbeatAlive \cup {"none", "returned", "failed", "cancelled"}
    /\ evictor \in {"idle", "close", "closing", "done"}
    /\ command \in {"idle", "sending"}
    /\ lock \in Seq(Tasks)
    /\ closed \in BOOLEAN
    /\ socket \in {"open", "closing", "closed"}
    /\ registered \in BOOLEAN
    /\ online \in BOOLEAN
    /\ pings \in 0 .. MaxPings
    /\ nonce \in {0, pings}
    /\ received \in BOOLEAN
    /\ ordered \in Seq(MessageIds)
    /\ seen \in SUBSET MessageIds
    /\ written \in SUBSET {"ready", "command"}

Init ==
    /\ handler = "upgrade"
    /\ heartbeat = "none"
    /\ evictor = "idle"
    /\ command = "idle"
    /\ lock = <<>>
    /\ closed = FALSE
    /\ socket = "open"
    /\ registered = FALSE /\ online = FALSE
    /\ pings = 0 /\ nonce = 0 /\ received = FALSE
    /\ ordered = <<>> /\ seen = {}
    /\ written = {}

-----------------------------------------------------------------------------
(* WebSocketDeviceTransport *)

Acquire(t) == lock' = Append(lock, t)
Holds(t) == lock # <<>> /\ Head(lock) = t
Release(t) == Holds(t) /\ lock' = Tail(lock)
ReleaseAndAcquire(t) == Holds(t) /\ lock' = Append(Tail(lock), t)

\* A cancelled task leaves the queue, wherever it is in it.
GiveUp(t) ==
    \/ \E i \in DOMAIN lock : lock[i] = t /\ lock' = RemoveAt(lock, i)
    \/ (\A i \in DOMAIN lock : lock[i] # t) /\ UNCHANGED lock

\* send_message, once the lock is held: it writes, or raises because the
\* transport or the socket below it is closed.  The server closes the socket of
\* a handler that has returned.
CanWrite == ~closed /\ socket = "open" /\ handler # "ended"

\* close, once the lock is held: the first one starts the close handshake.
StartClose(t) ==
    /\ Holds(t)
    /\ ~closed
    /\ closed' = TRUE
    /\ socket' = IF socket = "open" THEN "closing" ELSE socket
    /\ UNCHANGED lock

\* Mutant of EndClose: the lock is not released.
EndCloseKeepsLock(t) ==
    /\ Holds(t)
    /\ UNCHANGED lock
    /\ socket' = "closed"
    /\ UNCHANGED closed

EndClose(t) ==
    /\ Release(t)
    /\ socket' = "closed"
    /\ UNCHANGED closed

-----------------------------------------------------------------------------
(* Leaving the handler: the finally clause *)

\* disconnect_device_session: it pops the connection and sets OFFLINE.
Disconnect == registered' = FALSE /\ online' = FALSE

HandlerReturns == handler' = "ended"

\* Mutant of Leave: the heartbeat task is left running.
LeaveLeaksHeartbeat ==
    /\ HandlerReturns
    /\ Disconnect
    /\ UNCHANGED heartbeat

\* From the exception to the end of the finally clause without a suspension,
\* unless the heartbeat task is still alive: then it is cancelled and awaited.
\* Awaiting a task that failed re-raises its error, and the call that
\* disconnects the session is not reached.
Leave ==
    \/ /\ heartbeat \in {"none", "returned"}
       /\ HandlerReturns
       /\ Disconnect
       /\ UNCHANGED heartbeat
    \/ /\ heartbeat = "failed"
       /\ HandlerReturns
       /\ UNCHANGED <<heartbeat, registered, online>>
    \/ /\ heartbeat \in HeartbeatAlive
       /\ handler' = "await_heartbeat"
       /\ heartbeat' = "cancelling"
       /\ UNCHANGED <<registered, online>>

\* The heartbeat task has taken its CancelledError.
FinishTeardown ==
    /\ handler = "await_heartbeat"
    /\ heartbeat = "cancelled"
    /\ HandlerReturns
    /\ Disconnect
    /\ UNCHANGED <<heartbeat, evictor, command, lock, closed, socket, written>>
    /\ UNCHANGED <<hbVars, windowVars>>

-----------------------------------------------------------------------------
(* The handler *)

Protest == handler' = "error" /\ Acquire("handler")
InternalError == handler' = "close" /\ Acquire("handler")

\* The upgrade is accepted, or denied: Core is not up, the subprotocol or the bearer
\* token is missing, or the token is not that of a device.
Upgrade ==
    /\ handler = "upgrade"
    /\ handler' \in {"accepted", "ended"}
    /\ UNCHANGED <<heartbeat, evictor, command, lock, closed, socket, written>>
    /\ UNCHANGED <<regVars, hbVars, windowVars>>

\* connect_device registers the session and closes the one it replaces.
ConnectDevice ==
    /\ handler = "accepted"
    /\ registered' = TRUE
    /\ handler' = "connecting"
    /\ UNCHANGED <<heartbeat, evictor, command, lock, closed, socket, online, written>>
    /\ UNCHANGED <<hbVars, windowVars>>

\* It returns: server.hello is sent.
Greet ==
    /\ handler = "connecting"
    /\ handler' = "hello"
    /\ Acquire("handler")
    /\ UNCHANGED <<heartbeat, evictor, command, closed, socket, written>>
    /\ UNCHANGED <<regVars, hbVars, windowVars>>

\* The device was revoked after it was authenticated, and there is no session
\* to report it on; or the registry fails, and the transport is closed.
ConnectRefused ==
    /\ handler = "accepted"
    /\ \/ /\ Leave
          /\ UNCHANGED lock
       \/ /\ InternalError
          /\ UNCHANGED <<heartbeat, registered, online>>
    /\ UNCHANGED <<evictor, command, closed, socket, written>>
    /\ UNCHANGED <<hbVars, windowVars>>

\* A frame of the handler is written and the handler goes on.
HandlerSent ==
    /\ CanWrite
    /\ \/ /\ handler = "hello"
          /\ handler' = "await_hello"
          /\ UNCHANGED <<heartbeat, written>>
       \/ /\ handler = "ready"
          /\ handler' = "serving"
          /\ heartbeat' = "sleeping"
          /\ written' = written \cup {"ready"}
       \/ /\ handler = "reply"
          /\ handler' = "serving"
          /\ UNCHANGED <<heartbeat, written>>
    /\ Release("handler")
    /\ UNCHANGED <<evictor, command, closed, socket>>
    /\ UNCHANGED <<regVars, hbVars, windowVars>>

\* It raises: a closed transport, or a socket an earlier send failed on, is an
\* internal error, after which the handler closes; a lost peer is a disconnect.
HandlerSendRaises ==
    /\ handler \in {"hello", "ready", "reply"}
    /\ ~CanWrite
    /\ \/ /\ ReleaseAndAcquire("handler")
          /\ handler' = "close"
          /\ UNCHANGED <<heartbeat, registered, online>>
       \/ /\ ~closed
          /\ Release("handler")
          /\ Leave
    /\ UNCHANGED <<evictor, command, closed, socket, written>>
    /\ UNCHANGED <<hbVars, windowVars>>

\* _protocol_error: the error frame is written or fails, then close is called.
ErrorSent ==
    /\ handler = "error"
    /\ ReleaseAndAcquire("handler")
    /\ handler' = "close"
    /\ UNCHANGED <<heartbeat, evictor, command, closed, socket, written>>
    /\ UNCHANGED <<regVars, hbVars, windowVars>>

HandlerCloses ==
    /\ handler = "close"
    /\ \/ /\ StartClose("handler")
          /\ handler' = "closing"
          /\ UNCHANGED <<heartbeat, registered, online>>
       \/ /\ closed
          /\ Release("handler")
          /\ Leave
          /\ UNCHANGED <<closed, socket>>
    /\ UNCHANGED <<evictor, command, written>>
    /\ UNCHANGED <<hbVars, windowVars>>

\* The handshake ends and the handler runs on into its finally clause.
HandlerClosed ==
    /\ handler = "closing"
    /\ EndClose("handler")
    /\ Leave
    /\ UNCHANGED <<evictor, command, written>>
    /\ UNCHANGED <<hbVars, windowVars>>

\* The handler's receive() can still yield a message, even during a handshake.
Readable == handler \in {"await_hello", "serving"} /\ socket # "closed"

\* No device.hello within the timeout, even if its reader is in a handshake of
\* its own: close without an error frame.
HelloTimeout ==
    /\ handler = "await_hello" \/ (handler = "direct_close" /\ heartbeat = "none")
    /\ handler' = "close"
    /\ Acquire("handler")
    /\ UNCHANGED <<heartbeat, evictor, command, closed, socket, written>>
    /\ UNCHANGED <<regVars, hbVars, windowVars>>

\* Mutant of Remember: the oldest id is looked up after the deque has let it go.
RememberForgetsNext(m) ==
    /\ m \notin seen
    /\ ordered' = IF Len(ordered) = ReplayWindow
                  THEN Append(Tail(ordered), m) ELSE Append(ordered, m)
    /\ seen' = IF Len(ordered) = ReplayWindow
               THEN (seen \ {Head(ordered')}) \cup {m} ELSE seen \cup {m}

\* A message whose id is not remembered; a full window forgets its oldest.
Remember(m) ==
    /\ m \notin seen
    /\ IF Len(ordered) = ReplayWindow
       THEN /\ seen' = (seen \ {Head(ordered)}) \cup {m}
            /\ ordered' = Append(Tail(ordered), m)
       ELSE /\ seen' = seen \cup {m}
            /\ ordered' = Append(ordered, m)

\* A message that is malformed, replayed, from another session or out of state; the
\* last is found after its id was remembered.
InvalidMessage ==
    /\ Readable
    /\ Protest
    /\ \/ UNCHANGED windowVars
       \/ handler = "serving" /\ \E m \in MessageIds : Remember(m)
    /\ UNCHANGED <<heartbeat, evictor, command, closed, socket, written>>
    /\ UNCHANGED <<regVars, hbVars>>

\* device.hello, or capabilities.update: the registry is asked for the grants.
AskGrants(m) ==
    /\ Readable
    /\ Remember(m)
    /\ handler' = IF handler = "serving" THEN "updating" ELSE "activating"
    /\ UNCHANGED <<heartbeat, evictor, command, lock, closed, socket, written>>
    /\ UNCHANGED <<regVars, hbVars>>

\* The grants arrive: the session is activated and, without a suspension, the
\* answer (server.ready or capabilities.ack) takes its turn in the send lock.
\* Or the device was revoked, or this is no longer its session, or the registry
\* fails.
ActivateSession ==
    /\ handler \in {"activating", "updating"}
    /\ \/ /\ registered
          /\ online' = TRUE
          /\ handler' = IF handler = "activating" THEN "ready" ELSE "reply"
          /\ Acquire("handler")
       \/ /\ Protest \/ InternalError
          /\ UNCHANGED online
    /\ UNCHANGED <<heartbeat, evictor, command, closed, socket, registered, written>>
    /\ UNCHANGED <<hbVars, windowVars>>

\* command.result: one that is not accepted is answered.
Result(m) ==
    /\ Readable
    /\ handler = "serving"
    /\ Remember(m)
    /\ \/ handler' = "reply" /\ Acquire("handler")
       \/ UNCHANGED <<handler, lock>>
    /\ UNCHANGED <<heartbeat, evictor, command, closed, socket, written>>
    /\ UNCHANGED <<regVars, hbVars>>

\* heartbeat.pong with nonce n; the device may repeat or delay one.
Pong(n, m) ==
    /\ Readable
    /\ handler = "serving"
    /\ Remember(m)
    /\ \/ /\ n = nonce
          /\ nonce' = 0
          /\ received' = TRUE
          /\ UNCHANGED <<handler, lock>>
       \/ /\ n # nonce
          /\ Protest
          /\ UNCHANGED <<nonce, received>>
    /\ UNCHANGED <<heartbeat, evictor, command, closed, socket, pings, written>>
    /\ UNCHANGED regVars

\* A binary or oversize message closes the WebSocket itself: neither the send
\* lock nor _closed is involved.
DirectClose ==
    /\ Readable
    /\ \/ /\ socket = "open"
          /\ handler' = "direct_close"
          /\ socket' = "closing"
          /\ UNCHANGED lock
       \/ /\ socket = "closing"
          /\ handler' = "close"
          /\ Acquire("handler")
          /\ UNCHANGED socket
    /\ UNCHANGED <<heartbeat, evictor, command, closed, written>>
    /\ UNCHANGED <<regVars, hbVars, windowVars>>

\* That handshake ends (_ProtocolClosed), or the peer is gone while reading.
HandlerDisconnected ==
    /\ \/ handler = "direct_close"
       \/ handler \in {"await_hello", "serving"} /\ socket = "closed"
    /\ Leave
    /\ UNCHANGED <<evictor, command, lock, closed, socket, written>>
    /\ UNCHANGED <<hbVars, windowVars>>

-----------------------------------------------------------------------------
(* heartbeat_loop *)

\* Mutants of Ping: the nonce that is kept is not the one that is sent; the
\* event of the previous round is not cleared.
PingDrawsTwice ==
    /\ heartbeat = "sleeping"
    /\ pings < MaxPings
    /\ received' = FALSE
    /\ pings' = pings + 1
    /\ nonce' = pings + 2
    /\ heartbeat' = "ping"
    /\ Acquire("heartbeat")
    /\ UNCHANGED <<handler, evictor, command, closed, socket, written>>
    /\ UNCHANGED <<regVars, windowVars>>

PingKeepsEvent ==
    /\ heartbeat = "sleeping"
    /\ pings < MaxPings
    /\ pings' = pings + 1
    /\ nonce' = pings + 1
    /\ heartbeat' = "ping"
    /\ Acquire("heartbeat")
    /\ UNCHANGED <<handler, evictor, command, closed, socket, written>>
    /\ UNCHANGED <<regVars, received, windowVars>>

Ping ==
    /\ heartbeat = "sleeping"
    /\ pings < MaxPings
    /\ received' = FALSE
    /\ pings' = pings + 1
    /\ nonce' = pings + 1
    /\ heartbeat' = "ping"
    /\ Acquire("heartbeat")
    /\ UNCHANGED <<handler, evictor, command, closed, socket, written>>
    /\ UNCHANGED <<regVars, windowVars>>

PingSent ==
    /\ heartbeat = "ping"
    /\ Release("heartbeat")
    /\ heartbeat' = IF CanWrite THEN "waiting" ELSE "failed"
    /\ UNCHANGED <<handler, evictor, command, closed, socket, written>>
    /\ UNCHANGED <<regVars, hbVars, windowVars>>

PongSeen ==
    /\ heartbeat = "waiting"
    /\ received
    /\ heartbeat' = "sleeping"
    /\ UNCHANGED <<handler, evictor, command, lock, closed, socket, written>>
    /\ UNCHANGED <<regVars, hbVars, windowVars>>

\* The timer of wait_for may overtake an event that is already set.
PongMissed ==
    /\ heartbeat = "waiting"
    /\ heartbeat' = "close"
    /\ Acquire("heartbeat")
    /\ UNCHANGED <<handler, evictor, command, closed, socket, written>>
    /\ UNCHANGED <<regVars, hbVars, windowVars>>

HeartbeatCloses ==
    /\ \/ /\ heartbeat = "close"
          /\ StartClose("heartbeat")
          /\ heartbeat' = "closing"
       \/ /\ heartbeat = "close"
          /\ closed
          /\ Release("heartbeat")
          /\ heartbeat' = "returned"
          /\ UNCHANGED <<closed, socket>>
       \/ /\ heartbeat = "closing"
          /\ EndClose("heartbeat")
          /\ heartbeat' = "returned"
    /\ UNCHANGED <<handler, evictor, command, written>>
    /\ UNCHANGED <<regVars, hbVars, windowVars>>

\* Mutant of HeartbeatCancelled: its place in the lock stays taken.
HeartbeatCancelledKeepsPlace ==
    /\ heartbeat = "cancelling"
    /\ heartbeat' = "cancelled"
    /\ UNCHANGED <<handler, evictor, command, lock, closed, socket, written>>
    /\ UNCHANGED <<regVars, hbVars, windowVars>>

\* CancelledError reaches the task wherever it is suspended; a held or awaited
\* lock is given up.
HeartbeatCancelled ==
    /\ heartbeat = "cancelling"
    /\ heartbeat' = "cancelled"
    /\ GiveUp("heartbeat")
    /\ UNCHANGED <<handler, evictor, command, closed, socket, written>>
    /\ UNCHANGED <<regVars, hbVars, windowVars>>

-----------------------------------------------------------------------------
(* The other users of the transport, and the peer *)

\* The manager replaced, revoked or dropped this session and closes it.
Evict ==
    /\ registered
    /\ evictor = "idle"
    /\ Disconnect
    /\ evictor' = "close"
    /\ Acquire("evictor")
    /\ UNCHANGED <<handler, heartbeat, command, closed, socket, written>>
    /\ UNCHANGED <<hbVars, windowVars>>

EvictorCloses ==
    /\ \/ /\ evictor = "close"
          /\ StartClose("evictor")
          /\ evictor' = "closing"
       \/ /\ evictor = "close"
          /\ closed
          /\ Release("evictor")
          /\ evictor' = "done"
          /\ UNCHANGED <<closed, socket>>
       \/ /\ evictor = "closing"
          /\ EndClose("evictor")
          /\ evictor' = "done"
    /\ UNCHANGED <<handler, heartbeat, command, written>>
    /\ UNCHANGED <<regVars, hbVars, windowVars>>

\* Mutant of SendCommand: any registered session takes commands.
SendCommandUnready ==
    /\ registered
    /\ command = "idle"
    /\ command' = "sending"
    /\ Acquire("command")
    /\ UNCHANGED <<handler, heartbeat, evictor, closed, socket, written>>
    /\ UNCHANGED <<regVars, hbVars, windowVars>>

\* execute() admits a command on an ONLINE session and calls send_command.
SendCommand ==
    /\ registered /\ online
    /\ command = "idle"
    /\ command' = "sending"
    /\ Acquire("command")
    /\ UNCHANGED <<handler, heartbeat, evictor, closed, socket, written>>
    /\ UNCHANGED <<regVars, hbVars, windowVars>>

\* The frame is written, or send_command raises and execute() disconnects the
\* session; a frame that cannot be encoded fails on an open socket too.
CommandSent ==
    /\ command = "sending"
    /\ command' = "idle"
    /\ Release("command")
    /\ \/ /\ CanWrite
          /\ written' = written \cup {"command"}
          /\ UNCHANGED regVars
       \/ /\ Disconnect
          /\ UNCHANGED written
    /\ UNCHANGED <<handler, heartbeat, evictor, closed, socket>>
    /\ UNCHANGED <<hbVars, windowVars>>

PeerGone ==
    /\ socket # "closed"
    /\ socket' = "closed"
    /\ UNCHANGED <<handler, heartbeat, evictor, command, lock, closed, written>>
    /\ UNCHANGED <<regVars, hbVars, windowVars>>

-----------------------------------------------------------------------------
\* The steps a task takes once what it waits for is there.
HandlerRuns ==
    \/ Upgrade \/ ConnectDevice \/ ConnectRefused \/ Greet
    \/ HandlerSent \/ HandlerSendRaises \/ ErrorSent
    \/ HandlerCloses \/ HandlerClosed \/ HandlerDisconnected
    \/ HelloTimeout \/ ActivateSession \/ FinishTeardown

HeartbeatRuns ==
    PingSent \/ PongSeen \/ PongMissed \/ HeartbeatCloses \/ HeartbeatCancelled

Messages ==
    \/ InvalidMessage \/ DirectClose
    \/ \E m \in MessageIds :
          AskGrants(m) \/ Result(m) \/ \E n \in 1 .. pings : Pong(n, m)

Next ==
    \/ HandlerRuns \/ HeartbeatRuns \/ Messages \/ Ping
    \/ Evict \/ EvictorCloses \/ SendCommand \/ CommandSent \/ PeerGone

Spec == Init /\ [][Next]_vars

\* The event loop runs every task that can go on: timers fire, the database
\* answers, and the server bounds every write (its keepalive) and every close
\* handshake (its close timeout).  Nothing makes the device speak, the peer go,
\* or anybody evict the session or send it a command.
Fairness ==
    /\ WF_vars(HandlerRuns)
    /\ WF_vars(HeartbeatRuns)
    /\ WF_vars(EvictorCloses)
    /\ WF_vars(CommandSent)

FairSpec == Spec /\ Fairness

-----------------------------------------------------------------------------
(* Properties *)

\* The device sees server.ready before the first command.execute, although
\* activate() makes the session ONLINE, hence open to commands, before the
\* frame is sent (device_gateway.py:167-181).
CommandAfterReady == "command" \in written => "ready" \in written

\* A heartbeat round passes only when the nonce of its own ping came back:
\* heartbeat_received, one event for all rounds, is never left over from an
\* earlier one (device_gateway.py:186-202, 214-220).
PassedHeartbeatWasAnswered ==
    [][heartbeat = "waiting" /\ heartbeat' = "sleeping" => nonce = 0]_vars

\* Exactly the tasks that are sending or closing hold or await the send lock,
\* each once: a cancelled or failed task leaves no entry behind that would
\* block the others for good (device_gateway.py:86-102, 274-277).
SendsOrCloses(t) ==
    CASE t = "handler" -> handler \in HandlerSends
      [] t = "heartbeat" -> heartbeat \in HeartbeatSends
      [] t = "evictor" -> evictor \in {"close", "closing"}
      [] t = "command" -> command = "sending"

LockQueueExact ==
    /\ \A i, j \in DOMAIN lock : lock[i] = lock[j] => i = j
    /\ \A t \in Tasks : SendsOrCloses(t) => \E i \in DOMAIN lock : lock[i] = t
    /\ \A i \in DOMAIN lock :
           \/ SendsOrCloses(lock[i])
           \/ lock[i] = "heartbeat" /\ heartbeat = "cancelling"

\* No message id is accepted twice within ReplayWindow messages, and nothing older
\* is remembered: the set and the deque of the window stay in step when it is full
\* (device_gateway.py:344-354).
ReplayWindowExact ==
    /\ \A i, j \in DOMAIN ordered : ordered[i] = ordered[j] => i = j
    /\ seen = {ordered[i] : i \in DOMAIN ordered}

\* When the handler has returned, its heartbeat is over and, unless that task
\* had failed, the session is neither registered nor online any more
\* (device_gateway.py:273-279).
TeardownComplete ==
    handler = "ended" =>
        /\ heartbeat \notin HeartbeatAlive
        /\ heartbeat # "failed" => ~registered /\ ~online

\* A session whose transport is closed, whose socket is closing or lost, or
\* whose heartbeat failed or was missed ends: the handler returns, whatever
\* the order in which the tasks get the send lock (device_gateway.py:93-102,
\* 200-204, 258-279).
Doomed == closed \/ socket # "open" \/ heartbeat \in {"close", "failed"}

SessionWindsDown == Doomed ~> handler = "ended"

\* tests/test_device_gateway.py:249-256: once its socket has ended, the device is
\* offline.  So a session whose handler has returned is not registered.
EndedIsOffline == handler = "ended" => ~registered
=============================================================================
