---------------------------- MODULE PairingCodes ----------------------------
(***************************************************************************)
(* What pairing promises, without locks, stores or transactions            *)
(* (README.md:237-251 and DevicePairing in app/domain/security/ports.py).  *)
(*                                                                         *)
(* A code is redeemed at most once, by a claim that presented its secret   *)
(* before the code expired or was guessed at too often.  Redeeming it and  *)
(* registering the device is one step.  A claim that fails leaves the code *)
(* as it was; its device may have been registered, and then nobody has a   *)
(* credential for it.                                                      *)
(***************************************************************************)
EXTENDS Naturals

CONSTANTS Codes, Claims, CodeOf, Knowing, MaxAttempts

VARIABLES
    code,        \* "none", then "open", then "gone"
    late,        \* codes that have expired
    wrong,       \* wrong secrets tried, per code
    claim,       \* "new", "accepted", "redeemed", "given" or "failed"
    registered   \* claims whose device is registered

vars == <<code, late, wrong, claim, registered>>

Init ==
    /\ code = [p \in Codes |-> "none"]
    /\ late = {}
    /\ wrong = [p \in Codes |-> 0]
    /\ claim = [c \in Claims |-> "new"]
    /\ registered = {}

ClaimTo(c, state) == claim' = [claim EXCEPT ![c] = state]
Drop(p) == code' = [code EXCEPT ![p] = "gone"]
Claimable(p) == code[p] = "open" /\ p \notin late

Create(p) ==
    /\ code[p] = "none"
    /\ code' = [code EXCEPT ![p] = "open"]
    /\ UNCHANGED <<late, wrong, claim, registered>>

Expire(p) ==
    /\ code[p] # "none"
    /\ late' = late \cup {p}
    /\ UNCHANGED <<code, wrong, claim, registered>>

\* The code is unknown, gone or late; a late one is dropped.
Refuse(c) ==
    /\ claim[c] = "new" /\ ~Claimable(CodeOf[c])
    /\ ClaimTo(c, "failed")
    /\ IF code[CodeOf[c]] = "open" THEN Drop(CodeOf[c]) ELSE UNCHANGED code
    /\ UNCHANGED <<late, wrong, registered>>

Guess(c) ==
    LET p == CodeOf[c] IN
    /\ claim[c] = "new" /\ Claimable(p)
    /\ c \notin Knowing
    /\ ClaimTo(c, "failed")
    /\ wrong[p] < MaxAttempts
    /\ wrong' = [wrong EXCEPT ![p] = @ + 1]
    /\ IF wrong'[p] = MaxAttempts THEN Drop(p) ELSE UNCHANGED code
    /\ UNCHANGED <<late, registered>>

Accept(c) ==
    /\ claim[c] = "new" /\ Claimable(CodeOf[c])
    /\ c \in Knowing
    /\ ClaimTo(c, "accepted")
    /\ UNCHANGED <<code, late, wrong, registered>>

\* The credential is handed over in the same step, or later.
Redeem(c) ==
    /\ claim[c] = "accepted" /\ code[CodeOf[c]] = "open"
    /\ Drop(CodeOf[c])
    /\ registered' = registered \cup {c}
    /\ ClaimTo(c, "redeemed") \/ ClaimTo(c, "given")
    /\ UNCHANGED <<late, wrong>>

Give(c) ==
    /\ claim[c] = "redeemed"
    /\ ClaimTo(c, "given")
    /\ UNCHANGED <<code, late, wrong, registered>>

Fail(c) ==
    /\ claim[c] = "accepted"
    /\ ClaimTo(c, "failed")
    /\ registered' \in {registered, registered \cup {c}}
    /\ UNCHANGED <<code, late, wrong>>

\* Codes do not outlive the process.  Claims under way fail, one of them perhaps
\* with its device registered.
Restart ==
    /\ code' = [p \in Codes |-> IF code[p] = "none" THEN "none" ELSE "gone"]
    /\ \E F \in SUBSET {c \in Claims : claim[c] = "new"} :
          claim' = [c \in Claims |->
                       IF c \in F \/ claim[c] \in {"accepted", "redeemed"}
                       THEN "failed" ELSE claim[c]]
    /\ \/ UNCHANGED registered
       \/ \E c \in Claims : claim[c] = "accepted" /\ registered' = registered \cup {c}
    /\ UNCHANGED <<late, wrong>>

Next ==
    \/ \E p \in Codes : Create(p) \/ Expire(p)
    \/ \E c \in Claims :
          Refuse(c) \/ Guess(c) \/ Accept(c) \/ Redeem(c) \/ Give(c) \/ Fail(c)
    \/ Restart

Spec == Init /\ [][Next]_vars
=============================================================================
