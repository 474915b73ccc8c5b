---------------------------- MODULE DevicePairing ----------------------------
(***************************************************************************)
(* Pairing (app/infrastructure/security/): challenges live in the process, *)
(* and a claim that presents the secret registers a device and its         *)
(* credential.  SqlAlchemyDevicePairing does it in one transaction, which  *)
(* may be rolled back, or committed although the caller sees an error; the *)
(* process may die at any step.  InMemoryDevicePairing, which the tests    *)
(* compose, issues the credential, awaits the registry, and takes both     *)
(* back if that raises or is cancelled.                                    *)
(*                                                                         *)
(* The whole claim runs under one lock.  It suspends while it waits for    *)
(* the lock and in the stores.  A device and its credential are named by   *)
(* the claim that inserts them.                                            *)
(***************************************************************************)
EXTENDS Naturals, Sequences, FiniteSets

CONSTANTS
    Challenges,        \* pairing ids
    Claims,            \* calls of claim()
    CodeOf,            \* the pairing id each claim names
    Knowing,           \* the claims that present the right secret
    MaxClaimAttempts   \* max_claim_attempts

ASSUME PairingAssumption ==
    /\ CodeOf \in [Claims -> Challenges]
    /\ Knowing \subseteq Claims
    /\ MaxClaimAttempts \in Nat \ {0}

VARIABLES
    store,        \* the adapter: "sql" or "memory"
    devices,      \* registered devices
    credentials,  \* devices that have a credential
    challenge,    \* _pairings: "open" while the id is a key
    failures,     \* failed_attempts of each record
    expired,      \* challenges whose expires_at has passed
    lock,         \* self._lock: the holder, then the waiters in order
    claim,        \* where each claim is, or what it returned
    guesses       \* history: wrong secrets looked at, per challenge

vars == <<store, devices, credentials, challenge, failures, expired, lock, claim, guesses>>

ClaimPhases ==
    {"idle", "waiting", "inserting", "committed", "issued", "undoing", "paired",
     "invalid", "error"}

TypeOK ==
    /\ store \in {"sql", "memory"}
    /\ devices \in SUBSET Claims
    /\ credentials \in SUBSET Claims
    /\ challenge \in [Challenges -> {"none", "open", "gone"}]
    /\ failures \in [Challenges -> 0 .. MaxClaimAttempts]
    /\ expired \in SUBSET Challenges
    /\ lock \in Seq(Claims)
    /\ claim \in [Claims -> ClaimPhases]
    /\ guesses \in [Challenges -> Nat]

Init ==
    /\ store \in {"sql", "memory"}
    /\ devices = {} /\ credentials = {}
    /\ challenge = [p \in Challenges |-> "none"]
    /\ failures = [p \in Challenges |-> 0]
    /\ expired = {}
    /\ lock = <<>>
    /\ claim = [c \in Claims |-> "idle"]
    /\ guesses = [p \in Challenges |-> 0]

-----------------------------------------------------------------------------
Holds(c) == lock # <<>> /\ Head(lock) = c
Release(c) == Holds(c) /\ lock' = Tail(lock)
ClaimTo(c, p) == claim' = [claim EXCEPT ![c] = p]
Delete(p) == challenge' = [challenge EXCEPT ![p] = "gone"]

\* The claim has got the lock and looks its challenge up.
Looks(c) == claim[c] = "waiting" /\ Holds(c)

Open(c) == challenge[CodeOf[c]] = "open"

\* Mutant of Late: the time of a challenge is never over.
NeverLate(c) == FALSE

Late(c) == CodeOf[c] \in expired
Claimable(c) == Open(c) /\ ~Late(c)

\* A pairing id is created once.
Create(p) ==
    /\ challenge[p] = "none"
    /\ challenge' = [challenge EXCEPT ![p] = "open"]
    /\ UNCHANGED <<store, devices, credentials, failures, expired, lock, claim, guesses>>

\* The clock reaches expires_at.
Expire(p) ==
    /\ challenge[p] = "open"
    /\ p \notin expired
    /\ expired' = expired \cup {p}
    /\ UNCHANGED <<store, devices, credentials, challenge, failures, lock, claim, guesses>>

Claim(c) ==
    /\ claim[c] = "idle"
    /\ ClaimTo(c, "waiting")
    /\ lock' = Append(lock, c)
    /\ UNCHANGED <<store, devices, credentials, challenge, failures, expired, guesses>>

\* The id is unknown, or its time is over and the record is dropped.
Refuse(c) ==
    /\ Looks(c)
    /\ \/ /\ ~Open(c)
          /\ UNCHANGED challenge
       \/ /\ Open(c) /\ Late(c)
          /\ Delete(CodeOf[c])
    /\ ClaimTo(c, "invalid")
    /\ Release(c)
    /\ UNCHANGED <<store, devices, credentials, failures, expired, guesses>>

\* Mutant of LastAttempt: one attempt too many.
PastLastAttempt(p) == failures[p] + 1 > MaxClaimAttempts

\* Mutant of LastAttempt: the attempts are not limited.
NoLastAttempt(p) == FALSE

LastAttempt(p) == failures[p] + 1 >= MaxClaimAttempts

\* A wrong secret is counted; the last permitted one drops the record.
WrongSecret(c) ==
    LET p == CodeOf[c] IN
    /\ Looks(c) /\ Claimable(c)
    /\ c \notin Knowing
    /\ failures' = [failures EXCEPT ![p] = @ + 1]
    /\ guesses' = [guesses EXCEPT ![p] = @ + 1]
    /\ IF LastAttempt(p) THEN Delete(p) ELSE UNCHANGED challenge
    /\ ClaimTo(c, "invalid")
    /\ Release(c)
    /\ UNCHANGED <<store, devices, credentials, expired>>

\* The secret is right: the transaction begins.
StartInsert(c) ==
    /\ Looks(c) /\ Claimable(c)
    /\ c \in Knowing /\ store = "sql"
    /\ ClaimTo(c, "inserting")
    /\ UNCHANGED <<store, devices, credentials, challenge, failures, expired, lock, guesses>>

\* Both rows are committed together.
Rows(c) == devices' = devices \cup {c} /\ credentials' = credentials \cup {c}

Commit(c) ==
    /\ claim[c] = "inserting"
    /\ Rows(c)
    /\ ClaimTo(c, "committed")
    /\ UNCHANGED <<store, challenge, failures, expired, lock, guesses>>

\* Mutant of InsertFails: the lock stays with the failed claim.
InsertFailsLocked(c) ==
    /\ claim[c] = "inserting"
    /\ ClaimTo(c, "error")
    /\ UNCHANGED <<store, devices, credentials, challenge, failures, expired, lock, guesses>>

\* The transaction raises: it was rolled back, or the commit was done and its
\* acknowledgement is lost.  The challenge stays open in both cases.
InsertFails(c) ==
    /\ claim[c] = "inserting"
    /\ Rows(c) \/ UNCHANGED <<devices, credentials>>
    /\ ClaimTo(c, "error")
    /\ Release(c)
    /\ UNCHANGED <<store, challenge, failures, expired, guesses>>

\* Mutant of Pair: the record is not dropped.
PairKeepsChallenge(c) ==
    /\ claim[c] = "committed"
    /\ ClaimTo(c, "paired")
    /\ Release(c)
    /\ UNCHANGED <<store, devices, credentials, challenge, failures, expired, guesses>>

\* The record is dropped and the credential returned.
Pair(c) ==
    /\ claim[c] = "committed"
    /\ Delete(CodeOf[c])
    /\ ClaimTo(c, "paired")
    /\ Release(c)
    /\ UNCHANGED <<store, devices, credentials, failures, expired, guesses>>

\* In memory: the credential is issued first.
Issue(c) ==
    /\ Looks(c) /\ Claimable(c)
    /\ c \in Knowing /\ store = "memory"
    /\ credentials' = credentials \cup {c}
    /\ ClaimTo(c, "issued")
    /\ UNCHANGED <<store, devices, challenge, failures, expired, lock, guesses>>

\* The registry has added the device.
Add(c) ==
    /\ claim[c] = "issued"
    /\ devices' = devices \cup {c}
    /\ Delete(CodeOf[c])
    /\ ClaimTo(c, "paired")
    /\ Release(c)
    /\ UNCHANGED <<store, credentials, failures, expired, guesses>>

\* It raises, or the claim is cancelled in it, with the device added or not.
AddFails(c) ==
    /\ claim[c] = "issued"
    /\ devices' \in {devices, devices \cup {c}}
    /\ ClaimTo(c, "undoing")
    /\ UNCHANGED <<store, credentials, challenge, failures, expired, lock, guesses>>

\* Mutant of Undo: only the credential is taken back.
UndoCredential(c) ==
    /\ claim[c] = "undoing"
    /\ credentials' = credentials \ {c}
    /\ ClaimTo(c, "error")
    /\ Release(c)
    /\ UNCHANGED <<store, devices, challenge, failures, expired, guesses>>

\* Both stores are rolled back; the challenge stays open.
Undo(c) ==
    /\ claim[c] = "undoing"
    /\ credentials' = credentials \ {c} /\ devices' = devices \ {c}
    /\ ClaimTo(c, "error")
    /\ Release(c)
    /\ UNCHANGED <<store, challenge, failures, expired, guesses>>

\* The process dies: challenges are gone, callers see an error, the database
\* keeps a transaction or does not.
Crash ==
    /\ store = "sql"
    /\ challenge' = [p \in Challenges |->
                        IF challenge[p] = "none" THEN "none" ELSE "gone"]
    /\ lock' = <<>>
    /\ claim' = [c \in Claims |->
                    IF claim[c] \in {"waiting", "inserting", "committed"}
                    THEN "error" ELSE claim[c]]
    /\ \E C \in SUBSET {c \in Claims : claim[c] = "inserting"} :
          /\ devices' = devices \cup C
          /\ credentials' = credentials \cup C
    /\ UNCHANGED <<store, failures, expired, guesses>>

-----------------------------------------------------------------------------
ClaimRuns(c) ==
    \/ Refuse(c) \/ WrongSecret(c) \/ StartInsert(c)
    \/ Commit(c) \/ InsertFails(c) \/ Pair(c)
    \/ Issue(c) \/ Add(c) \/ AddFails(c) \/ Undo(c)

Next ==
    \/ \E p \in Challenges : Create(p) \/ Expire(p)
    \/ \E c \in Claims : Claim(c) \/ ClaimRuns(c)
    \/ Crash

Spec == Init /\ [][Next]_vars

\* A claim whose turn it is goes on, and its transaction ends.
FairSpec == Spec /\ \A c \in Claims : WF_vars(ClaimRuns(c))

-----------------------------------------------------------------------------
(* Refinement of PairingCodes *)

\* A registration in memory that may be taken back is none yet, and a code whose
\* transaction is committed is gone.
StateOf(phase) ==
    CASE phase \in {"idle", "waiting"} -> "new"
      [] phase \in {"inserting", "issued"} -> "accepted"
      [] phase = "committed" -> "redeemed"
      [] phase = "paired" -> "given"
      [] phase \in {"undoing", "invalid", "error"} -> "failed"

Redeemed(p) == \E c \in Claims : claim[c] = "committed" /\ CodeOf[c] = p

Pairing == INSTANCE PairingCodes WITH
    Codes <- Challenges,
    MaxAttempts <- MaxClaimAttempts,
    code <- [p \in Challenges |-> IF Redeemed(p) THEN "gone" ELSE challenge[p]],
    late <- expired,
    wrong <- guesses,
    claim <- [c \in Claims |-> StateOf(claim[c])],
    registered <- {c \in devices : claim[c] \notin {"issued", "undoing"}}

-----------------------------------------------------------------------------
(* Properties *)

\* Whatever the order of claims, at most MaxClaimAttempts wrong secrets are
\* ever compared with a challenge, and after the last of them the challenge is
\* not claimable, by those who waited for the lock either (database.py:212-224,
\* memory.py:169-180).
GuessBudget ==
    \A p \in Challenges :
        /\ guesses[p] <= MaxClaimAttempts
        /\ guesses[p] = MaxClaimAttempts => challenge[p] = "gone"

\* No challenge gives out two credentials (database.py:212-257).
OneCredentialPerChallenge ==
    \A c, e \in Claims :
        claim[c] = "paired" /\ claim[e] = "paired" /\ CodeOf[c] = CodeOf[e]
            => c = e

\* But for a claim that is under way in memory, a device and its credential exist
\* together, after errors and crashes too, and whoever was given a credential can
\* use it (database.py:234-257, memory.py:188-200).
RegistrationIsWhole ==
    /\ \A c \in Claims :
          claim[c] \notin {"issued", "undoing"} => (c \in devices <=> c \in credentials)
    /\ \A c \in Claims : claim[c] = "paired" => c \in credentials

\* Every claim ends, whatever became of the claims before it in the lock.
ClaimEnds ==
    \A c \in Claims :
        claim[c] = "waiting" ~> claim[c] \in {"paired", "invalid", "error"}

\* However many steps a claim takes, in either store, and wherever it fails or the
\* process dies, it redeems its code and registers its device at one moment, or
\* leaves both as they were but for a lost acknowledgement (database.py:206-257,
\* memory.py:163-203).
ClaimsAreAtomic == Pairing!Spec

\* README.md:249: a pairing challenge is one-time.  So no two devices are
\* registered with the same challenge.
OneDevicePerChallenge ==
    \A c, e \in devices : CodeOf[c] = CodeOf[e] => c = e
=============================================================================
