--------------------------- MODULE MCDevicePairing ---------------------------
(***************************************************************************)
(* Instance of DevicePairing for TLC: on one challenge two claims that     *)
(* know its secret and three that guess, one more than the attempts        *)
(* allowed.                                                                *)
(***************************************************************************)
EXTENDS DevicePairing

CONSTANTS p1, k1, k2, g1, g2, g3

OneChallenge == [c \in Claims |-> p1]
=============================================================================
