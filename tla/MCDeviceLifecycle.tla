-------------------------- MODULE MCDeviceLifecycle --------------------------
(***************************************************************************)
(* Instance of DeviceLifecycle for TLC: two sockets of a device, so that   *)
(* one may replace the other or be authenticating while the other is       *)
(* revoked, and two revocations, so that the second may have to finish     *)
(* what the first left half done, and a command that runs into both.       *)
(***************************************************************************)
EXTENDS DeviceLifecycle

CONSTANTS d1, s1, s2, r1, r2, k1

SessionsOfOne == [s \in Sessions |-> d1]
RevocationsOfOne == [r \in Revocations |-> d1]
CommandsToOne == [k \in Commands |-> d1]
=============================================================================
