--------------------------- MODULE CommandRouting ---------------------------
(***************************************************************************)
(* What command routing promises, without locks, futures or timers         *)
(* (docs/protocols/jarvis-device-v1.md and DeviceConnectionManager in      *)
(* app/domain/devices/ports.py).                                           *)
(*                                                                         *)
(* A command is routed to the session that is the device's current one     *)
(* when it is accepted, and to no other.  It is handed to that session     *)
(* only while the session is current and sends no other command.  Its      *)
(* frame follows, once, and may be overtaken by the loss of the session:   *)
(* then it still goes out, on the session that is being closed, and nobody *)
(* can answer it.  A result is accepted at most once, and only from the    *)
(* session of the command while that is current.  When the device's        *)
(* session changes, every open command of the device is lost for good.  A  *)
(* session that was current once never comes back.                         *)
(***************************************************************************)
CONSTANTS Devices, Sessions, Calls, None, DeviceOf

VARIABLES
    current,  \* the session each device is reached by
    used,     \* sessions that were current at some time
    route,    \* the session each accepted command was routed to
    status,   \* "new", then "open", then "answered" or "lost", then "closed"
    handed,   \* commands that were handed to their session and not yet sent
    frames,   \* commands whose frame was written
    late,     \* history: frames written when their session was lost already
    reply,    \* what the owner was told
    source    \* the session each accepted result came from

rvars == <<current, used, route, status, handed, frames, late, reply, source>>

Replies == {"refused", "result", "offline", "timeout", "send_failed"}

RInit ==
    /\ current = [d \in Devices |-> None]
    /\ used = {}
    /\ route = [c \in Calls |-> None]
    /\ status = [c \in Calls |-> "new"]
    /\ handed = {}
    /\ frames = {}
    /\ late = {}
    /\ reply = [c \in Calls |-> None]
    /\ source = [c \in Calls |-> None]

Reachable(c) == route[c] # None /\ current[DeviceOf[c]] = route[c]

\* Session s sends no other command.
Free(s) == \A c \in handed : route[c] # s

OpenOn(D) == {c \in Calls : DeviceOf[c] \in D /\ status[c] = "open"}

Lose(D) == [c \in Calls |-> IF c \in OpenOn(D) THEN "lost" ELSE status[c]]

\* A new session takes the device over; what was open on the device is lost.
Join(d, s) ==
    /\ s \notin used
    /\ current' = [current EXCEPT ![d] = s]
    /\ used' = used \cup {s}
    /\ status' = Lose({d})
    /\ UNCHANGED <<route, handed, frames, late, reply, source>>

\* The devices in D lose their sessions.
Leave(D) ==
    /\ current' = [d \in Devices |-> IF d \in D THEN None ELSE current[d]]
    /\ status' = Lose(D)
    /\ UNCHANGED <<used, route, handed, frames, late, reply, source>>

Refused(c) ==
    /\ status[c] = "new"
    /\ status' = [status EXCEPT ![c] = "closed"]
    /\ reply' = [reply EXCEPT ![c] = "refused"]
    /\ UNCHANGED <<current, used, route, handed, frames, late, source>>

\* Acceptance fixes the route; the command may be handed over in the same step.
Accept(c) ==
    /\ status[c] = "new"
    /\ current[DeviceOf[c]] # None
    /\ status' = [status EXCEPT ![c] = "open"]
    /\ route' = [route EXCEPT ![c] = current[DeviceOf[c]]]
    /\ \/ UNCHANGED handed
       \/ Free(current[DeviceOf[c]]) /\ handed' = handed \cup {c}
    /\ UNCHANGED <<current, used, frames, late, reply, source>>

\* A command that had to wait is handed over only if its session is still the
\* device's current one.
Hand(c) ==
    /\ status[c] \in {"open", "answered"}
    /\ Reachable(c)
    /\ c \notin handed /\ c \notin frames
    /\ Free(route[c])
    /\ handed' = handed \cup {c}
    /\ UNCHANGED <<current, used, route, status, frames, late, reply, source>>

WriteFrame(c) ==
    /\ c \in handed /\ c \notin frames
    /\ frames' = frames \cup {c}
    /\ late' = IF Reachable(c) THEN late ELSE late \cup {c}
    /\ UNCHANGED <<current, used, route, status, handed, reply, source>>

\* The session is free for the next command.
Written(c) ==
    /\ c \in handed /\ c \in frames
    /\ handed' = handed \ {c}
    /\ UNCHANGED <<current, used, route, status, frames, late, reply, source>>

\* The one result that is accepted for a command comes from its route.
Answered(c) ==
    /\ status[c] = "open"
    /\ Reachable(c)
    /\ status' = [status EXCEPT ![c] = "answered"]
    /\ source' = [source EXCEPT ![c] = route[c]]
    /\ UNCHANGED <<current, used, route, handed, frames, late, reply>>

\* The owner is told a result only if one was accepted, and that the device is
\* offline only once the session it was routed to is gone; never while the frame
\* is still to be written.
Tell(c, why) ==
    /\ status[c] \in {"open", "answered", "lost"}
    /\ c \in handed => c \in frames
    /\ why = "result" => status[c] = "answered" /\ c \in frames
    /\ why = "offline" => ~Reachable(c)
    /\ status' = [status EXCEPT ![c] = "closed"]
    /\ reply' = [reply EXCEPT ![c] = why]
    /\ handed' = handed \ {c}
    /\ UNCHANGED <<current, used, route, frames, late, source>>

\* A failed write closes the command, and the session it was routed to is lost
\* with everything else that was open on it.
WriteFails(c) ==
    /\ c \in handed
    /\ LET D == IF Reachable(c) THEN {DeviceOf[c]} ELSE {} IN
       /\ current' = [d \in Devices |-> IF d \in D THEN None ELSE current[d]]
       /\ status' = [Lose(D) EXCEPT ![c] = "closed"]
    /\ reply' = [reply EXCEPT ![c] = "send_failed"]
    /\ handed' = handed \ {c}
    /\ UNCHANGED <<used, route, frames, late, source>>

RNext ==
    \/ \E d \in Devices, s \in Sessions : Join(d, s)
    \/ \E D \in SUBSET Devices : Leave(D)
    \/ \E c \in Calls :
          \/ Refused(c) \/ Accept(c) \/ Hand(c) \/ WriteFrame(c) \/ Written(c)
          \/ Answered(c) \/ WriteFails(c)
          \/ \E why \in {"result", "offline", "timeout"} : Tell(c, why)

RSpec == RInit /\ [][RNext]_rvars

-----------------------------------------------------------------------------
(* What follows from it *)

\* A command is open only while the session it was routed to is the device's current
\* one: any change of session has lost it.
OpenIsReachable == \A c \in Calls : status[c] = "open" => Reachable(c)

\* What the owner was told is true and stays true: a refused command never reached a
\* session, a result came from the session the frame went to, and the session of a
\* command that was told offline is gone for good (memory.py:246-289, 303-317).
OwnerIsTold ==
    \A c \in Calls : status[c] = "closed" =>
        /\ reply[c] = "refused" => route[c] = None /\ c \notin frames
        /\ reply[c] = "result" =>
              c \in frames /\ route[c] # None /\ source[c] = route[c]
        /\ reply[c] = "offline" =>
              route[c] # None /\ current[DeviceOf[c]] # route[c]

\* After a session left its device at most one more frame goes out on it, the one
\* command that was being sent then, and no result is accepted for that frame
\* (memory.py:261-269, 303-317, device_gateway.py:86).
LateFrameIsLast ==
    /\ \A c, e \in late : route[c] = route[e] => c = e
    /\ \A c \in late :
          /\ c \in frames /\ status[c] # "open"
          /\ route[c] # None /\ current[DeviceOf[c]] # route[c]
=============================================================================
