----------------------------- MODULE DeviceAccess -----------------------------
(***************************************************************************)
(* What the device service promises about who may connect, be served and   *)
(* be commanded (README.md:237-264 and the ports of app/domain/devices/),  *)
(* without locks, rows, handlers or suspensions.                           *)
(*                                                                         *)
(* The access of a device is withdrawn in stages and never comes back.     *)
(* Each stage takes something away: a device that is locked out is not     *)
(* identified again, a withdrawn one does not enter, and when a device is  *)
(* barred it is not served and no command reaches it.  The exception is a  *)
(* stray session, one that was forgotten after a failed send: it goes on   *)
(* until its peer hangs up.                                                *)
(***************************************************************************)
CONSTANTS Devices, Sessions, Commands, None, DeviceOf, ReceiverOf

VARIABLES
    access,     \* "granted", "locked_out", "withdrawn" or "barred"
    current,    \* the session of each device that commands go to
    door,       \* "outside", "inside", "entered", "served", "leaving" or "out"
    stray,      \* sessions forgotten while they were served
    delivered   \* the session each command was written to

vars == <<access, current, door, stray, delivered>>

Init ==
    /\ access = [d \in Devices |-> "granted"]
    /\ current = [d \in Devices |-> None]
    /\ door = [s \in Sessions |-> "outside"]
    /\ stray = {}
    /\ delivered = [k \in Commands |-> None]

Moves(s, place) == door' = [door EXCEPT ![s] = place]

\* The current session of a device is shown out, if it is still there.
ShownOut(d) ==
    [s \in Sessions |->
        IF current[d] = s /\ door[s] \in {"entered", "served"} THEN "leaving"
        ELSE door[s]]

Identify(s) ==
    /\ door[s] = "outside"
    /\ access[DeviceOf[s]] = "granted"
    /\ Moves(s, "inside")
    /\ UNCHANGED <<access, current, stray, delivered>>

Deny(s) ==
    /\ door[s] \in {"outside", "inside"}
    /\ Moves(s, "out")
    /\ UNCHANGED <<access, current, stray, delivered>>

\* The newest session of a device is the current one.
Enter(s) ==
    /\ door[s] = "inside"
    /\ access[DeviceOf[s]] \in {"granted", "locked_out"}
    /\ current' = [current EXCEPT ![DeviceOf[s]] = s]
    /\ door' = [ShownOut(DeviceOf[s]) EXCEPT ![s] = "entered"]
    /\ UNCHANGED <<access, stray, delivered>>

Activate(s) ==
    /\ door[s] = "entered"
    /\ current[DeviceOf[s]] = s
    /\ Moves(s, "served")
    /\ UNCHANGED <<access, current, stray, delivered>>

\* A session may stay current when it is out, but nothing is written to it.
Depart(s) ==
    /\ door[s] \notin {"outside", "inside"}
    /\ Moves(s, "out")
    /\ current' \in
          {current, [d \in Devices |-> IF current[d] = s THEN None ELSE current[d]]}
    /\ UNCHANGED <<access, stray, delivered>>

\* A command goes to the session that is current, or on its way out.
Deliver(k, s) ==
    /\ DeviceOf[s] = ReceiverOf[k] /\ access[ReceiverOf[k]] # "barred"
    /\ \/ door[s] = "served" /\ current[ReceiverOf[k]] = s
       \/ door[s] = "leaving"
    /\ delivered[k] = None
    /\ delivered' = [delivered EXCEPT ![k] = s]
    /\ UNCHANGED <<access, current, door, stray>>

\* A send fails and the session is forgotten.
Lose(d) ==
    /\ current[d] # None
    /\ current' = [current EXCEPT ![d] = None]
    /\ stray' = stray \cup {s \in Sessions : current[d] = s /\ door[s] = "served"}
    /\ UNCHANGED <<access, door, delivered>>

-----------------------------------------------------------------------------
AccessTo(d, stage) == access' = [access EXCEPT ![d] = stage]

LockOut(d) ==
    /\ access[d] = "granted"
    /\ AccessTo(d, "locked_out")
    /\ UNCHANGED <<current, door, stray, delivered>>

Withdraw(d) ==
    /\ access[d] = "locked_out"
    /\ AccessTo(d, "withdrawn")
    /\ UNCHANGED <<current, door, stray, delivered>>

Expel(d) ==
    /\ access[d] \in {"withdrawn", "barred"}
    /\ current' = [current EXCEPT ![d] = None]
    /\ door' = ShownOut(d)
    /\ UNCHANGED <<access, stray, delivered>>

Bar(d) ==
    /\ access[d] = "withdrawn"
    /\ current[d] = None
    /\ \A s \in Sessions : DeviceOf[s] = d =>
          door[s] # "leaving" /\ (door[s] \in {"entered", "served"} => s \in stray)
    /\ AccessTo(d, "barred")
    /\ UNCHANGED <<current, door, stray, delivered>>

\* What was withdrawn stays so; every session ends.
Restart ==
    /\ current' = [d \in Devices |-> None]
    /\ door' = [s \in Sessions |-> IF door[s] = "outside" THEN "outside" ELSE "out"]
    /\ UNCHANGED <<access, stray, delivered>>

Next ==
    \/ \E s \in Sessions :
          \/ Identify(s) \/ Deny(s) \/ Enter(s) \/ Activate(s) \/ Depart(s)
          \/ \E k \in Commands : Deliver(k, s)
    \/ \E d \in Devices : Lose(d) \/ LockOut(d) \/ Withdraw(d) \/ Expel(d) \/ Bar(d)
    \/ Restart

Spec == Init /\ [][Next]_vars
=============================================================================
