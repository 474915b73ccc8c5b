------------------------ MODULE MCConnectionManager ------------------------
(***************************************************************************)
(* Instances of ConnectionManager for TLC.  Calls c1 and c2 share command  *)
(* id i1, so the second may be admitted once the first lost its entry; c3  *)
(* has id i2 and goes to the same device (it then queues behind them for   *)
(* the send lock) or to a second one.                                      *)
(***************************************************************************)
EXTENDS ConnectionManager, TLC

CONSTANTS d1, d2, s1, s2, s3, c1, c2, c3, i1, i2, cap1

OneDevice == [c \in Calls |-> d1]
TwoDevices == [c \in Calls |-> IF c = c3 THEN d2 ELSE d1]
SharedId == [c \in Calls |-> IF c = c3 THEN i2 ELSE i1]
OneCapability == [c \in Calls |-> cap1]

\* Sessions are interchangeable, and so are c1 and c2.
Symmetry == Permutations(Sessions) \cup Permutations(Calls \ {c3})
=============================================================================
