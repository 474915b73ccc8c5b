------------------------- MODULE DevicePairingProofs -------------------------
(***************************************************************************)
(* Proofs about DevicePairing, for every set of challenges and claims and  *)
(* every limit of attempts.                                                *)
(***************************************************************************)
EXTENDS DevicePairing, LockQueues, TLAPS

\* A claim that registers its device has the lock, so its challenge is open
\* still; after the transaction its credential is there.
Inserts ==
    \A c \in Claims : claim[c] \in {"inserting", "committed", "issued", "undoing"} =>
        /\ Holds(c)
        /\ Open(c)
        /\ claim[c] \in {"issued", "undoing"} => store = "memory"
        /\ claim[c] = "issued" => c \in credentials
        /\ claim[c] = "committed" => c \in credentials

\* The attempts counted in the record are the guesses made; an open challenge
\* has one left, and one that does not exist yet has all of them.
Counts ==
    /\ guesses = failures
    /\ \A p \in Challenges :
          /\ challenge[p] = "open" => failures[p] < MaxClaimAttempts
          /\ challenge[p] = "none" => failures[p] = 0

\* A challenge that was used is gone.
UsedUp == \A c \in Claims : claim[c] = "paired" => challenge[CodeOf[c]] = "gone"

\* Which claims have a device: in memory only one that was paired, or one that
\* takes it back.
Registers ==
    /\ \A c \in Claims : claim[c] \in {"inserting", "committed"} => store = "sql"
    /\ \A c \in devices :
          /\ claim[c] \in {"committed", "paired", "undoing", "error"}
          /\ store = "memory" => claim[c] \in {"paired", "undoing"}

\* The inductive invariant.
PairingInv ==
    /\ TypeOK
    /\ Inserts
    /\ Registers
    /\ Counts
    /\ UsedUp
    /\ OneCredentialPerChallenge
    /\ RegistrationIsWhole

-----------------------------------------------------------------------------
\* A claim that gives the lock up leaves a queue, and one that queues leaves
\* the holder where it is.
LEMMA LockSteps ==
    ASSUME NEW q \in Seq(Claims), NEW c \in Claims
    PROVE  /\ Append(q, c) \in Seq(Claims)
           /\ Append(q, c) # <<>>
           /\ q # <<>> => Head(Append(q, c)) = Head(q)
           /\ q # <<>> => Tail(q) \in Seq(Claims)
  <1>1. Append(q, c) \in Seq(Claims)
    OBVIOUS
  <1>2. Append(q, c) # <<>>
    <2>1. Len(Append(q, c)) = Len(q) + 1 /\ Len(q) \in Nat
      OBVIOUS
    <2> QED
      BY <2>1
  <1>3. q # <<>> => Head(Append(q, c)) = Head(q)
    OBVIOUS
  <1>4. q # <<>> => Tail(q) \in Seq(Claims)
    OBVIOUS
  <1> QED
    BY <1>1, <1>2, <1>3, <1>4

LEMMA InitInv == Init => PairingInv
  BY PairingAssumption
  DEF Init, PairingInv, TypeOK, ClaimPhases, Inserts, Registers, Counts, UsedUp,
      OneCredentialPerChallenge, RegistrationIsWhole

LEMMA TypeStep ==
    ASSUME PairingInv, [Next]_vars
    PROVE  TypeOK'
  <1> USE PairingAssumption DEF PairingInv, TypeOK, ClaimPhases
  <1>1. ASSUME NEW p \in Challenges, Create(p) \/ Expire(p)
        PROVE  TypeOK'
    BY <1>1 DEF Create, Expire
  <1>2. ASSUME NEW c \in Claims, Claim(c)
        PROVE  TypeOK'
    <2>1. lock' \in Seq(Claims)
      BY <1>2, LockSteps DEF Claim
    <2> QED
      BY <1>2, <2>1 DEF Claim, ClaimTo
  <1>3. ASSUME NEW c \in Claims, WrongSecret(c)
        PROVE  TypeOK'
    <2>1. failures[CodeOf[c]] + 1 \in 0 .. MaxClaimAttempts
      BY <1>3 DEF WrongSecret, Claimable, Open, Counts
    <2>2. lock' \in Seq(Claims)
      BY <1>3, LockSteps DEF WrongSecret, Release, Holds
    <2>3. failures' \in [Challenges -> 0 .. MaxClaimAttempts]
      BY <1>3, <2>1 DEF WrongSecret
    <2>4. guesses' \in [Challenges -> Nat]
      BY <1>3 DEF WrongSecret
    <2>5. challenge' \in [Challenges -> {"none", "open", "gone"}]
      BY <1>3 DEF WrongSecret, LastAttempt, Delete
    <2>6. claim' \in [Claims -> ClaimPhases] /\ UNCHANGED <<store, devices, credentials, expired>>
      BY <1>3 DEF WrongSecret, ClaimTo
    <2> QED
      BY <2>2, <2>3, <2>4, <2>5, <2>6
  <1>4. ASSUME NEW c \in Claims,
               Refuse(c) \/ StartInsert(c) \/ Commit(c) \/ InsertFails(c) \/ Pair(c)
        PROVE  TypeOK'
    <2>1. lock' \in Seq(Claims)
      BY <1>4, LockSteps
      DEF Refuse, StartInsert, Commit, InsertFails, Pair, Release, Holds
    <2> QED
      BY <1>4, <2>1
      DEF Refuse, StartInsert, Commit, InsertFails, Pair, ClaimTo, Delete, Rows
  <1>7. ASSUME NEW c \in Claims, Issue(c) \/ Add(c) \/ AddFails(c) \/ Undo(c)
        PROVE  TypeOK'
    <2>1. lock' \in Seq(Claims)
      BY <1>7, LockSteps DEF Issue, Add, AddFails, Undo, Release, Holds
    <2> QED
      BY <1>7, <2>1 DEF Issue, Add, AddFails, Undo, ClaimTo, Delete
  <1>5. CASE Crash
    <2>1. <<>> \in Seq(Claims)
      OBVIOUS
    <2> QED
      BY <1>5, <2>1 DEF Crash
  <1>6. CASE UNCHANGED vars
    BY <1>6 DEF vars
  <1> QED
    BY <1>1, <1>2, <1>3, <1>4, <1>5, <1>6, <1>7 DEF Next, ClaimRuns

\* Only the claim at the head of the lock moves on, and the others keep the
\* lock and the challenge they have.
LEMMA InsertsStep ==
    ASSUME PairingInv, [Next]_vars
    PROVE  Inserts'
  <1> USE PairingAssumption DEF PairingInv, TypeOK, Inserts, Holds, Open
  <1>1. ASSUME NEW p \in Challenges, Create(p) \/ Expire(p)
        PROVE  Inserts'
    BY <1>1 DEF Create, Expire
  <1>2. ASSUME NEW c \in Claims, Claim(c)
        PROVE  Inserts'
    BY <1>2, LockSteps DEF Claim, ClaimTo
  <1>3. ASSUME NEW c \in Claims, Refuse(c) \/ WrongSecret(c)
        PROVE  Inserts'
    <2>1. \A e \in Claims : claim[e] \notin {"inserting", "committed", "issued", "undoing"}
      BY <1>3 DEF Refuse, WrongSecret, Looks
    <2> QED
      BY <1>3, <2>1 DEF Refuse, WrongSecret, ClaimTo
  <1>4. ASSUME NEW c \in Claims, StartInsert(c) \/ Issue(c) \/ AddFails(c)
        PROVE  Inserts'
    BY <1>4 DEF StartInsert, Issue, AddFails, Looks, Claimable, ClaimTo
  <1>5. ASSUME NEW c \in Claims, Commit(c)
        PROVE  Inserts'
    BY <1>5 DEF Commit, Rows, ClaimTo
  <1>6. ASSUME NEW c \in Claims, InsertFails(c) \/ Pair(c) \/ Add(c) \/ Undo(c)
        PROVE  Inserts'
    <2>1. \A e \in Claims : e # c => claim[e] \notin {"inserting", "committed", "issued", "undoing"}
      BY <1>6 DEF InsertFails, Pair, Add, Undo, Release
    <2> QED
      BY <1>6, <2>1 DEF InsertFails, Pair, Add, Undo, ClaimTo
  <1>7. CASE Crash
    BY <1>7 DEF Crash
  <1>8. CASE UNCHANGED vars
    BY <1>8 DEF vars
  <1> QED
    BY <1>1, <1>2, <1>3, <1>4, <1>5, <1>6, <1>7, <1>8 DEF Next, ClaimRuns

\* A device comes with a claim in the transaction or in the registry, and in
\* memory it goes if that fails.
LEMMA RegistersStep ==
    ASSUME PairingInv, [Next]_vars
    PROVE  Registers'
  <1> USE PairingAssumption DEF PairingInv, TypeOK, Registers, Inserts
  <1>1. ASSUME NEW p \in Challenges, Create(p) \/ Expire(p)
        PROVE  Registers'
    BY <1>1 DEF Create, Expire
  <1>2. ASSUME NEW c \in Claims, Claim(c) \/ Refuse(c) \/ WrongSecret(c)
        PROVE  Registers'
    BY <1>2 DEF Claim, Refuse, WrongSecret, Looks, ClaimTo
  <1>3. ASSUME NEW c \in Claims, StartInsert(c) \/ Commit(c) \/ InsertFails(c) \/ Pair(c)
        PROVE  Registers'
    BY <1>3 DEF StartInsert, Commit, InsertFails, Pair, Looks, ClaimTo, Rows
  <1>4. ASSUME NEW c \in Claims, Issue(c) \/ Add(c) \/ AddFails(c) \/ Undo(c)
        PROVE  Registers'
    BY <1>4 DEF Issue, Add, AddFails, Undo, Looks, ClaimTo
  <1>5. CASE Crash
    BY <1>5 DEF Crash
  <1>6. CASE UNCHANGED vars
    BY <1>6 DEF vars
  <1> QED
    BY <1>1, <1>2, <1>3, <1>4, <1>5, <1>6 DEF Next, ClaimRuns

LEMMA CountsStep ==
    ASSUME PairingInv, [Next]_vars
    PROVE  Counts'
  <1> USE PairingAssumption DEF PairingInv, TypeOK, Counts
  <1>1. ASSUME NEW p \in Challenges, Create(p) \/ Expire(p)
        PROVE  Counts'
    BY <1>1 DEF Create, Expire
  <1>2. ASSUME NEW c \in Claims, WrongSecret(c)
        PROVE  Counts'
    BY <1>2 DEF WrongSecret, LastAttempt, Delete, Claimable, Open
  <1>3. ASSUME NEW c \in Claims,
               \/ Claim(c) \/ Refuse(c) \/ StartInsert(c) \/ Commit(c)
               \/ InsertFails(c) \/ Pair(c)
               \/ Issue(c) \/ Add(c) \/ AddFails(c) \/ Undo(c)
        PROVE  Counts'
    BY <1>3 DEF Claim, Refuse, StartInsert, Commit, InsertFails, Pair, Issue, Add, AddFails,
                Undo, Delete, Open, Inserts
  <1>4. CASE Crash
    BY <1>4 DEF Crash
  <1>5. CASE UNCHANGED vars
    BY <1>5 DEF vars
  <1> QED
    BY <1>1, <1>2, <1>3, <1>4, <1>5 DEF Next, ClaimRuns

\* What was paired stays so, and only a claim whose challenge is open, hence
\* not used up, is paired.
LEMMA PairedStep ==
    ASSUME PairingInv, [Next]_vars
    PROVE  UsedUp' /\ OneCredentialPerChallenge' /\ RegistrationIsWhole'
  <1> USE PairingAssumption
      DEF PairingInv, TypeOK, UsedUp, OneCredentialPerChallenge, RegistrationIsWhole
  <1>1. ASSUME NEW p \in Challenges, Create(p) \/ Expire(p)
        PROVE  UsedUp' /\ OneCredentialPerChallenge' /\ RegistrationIsWhole'
    BY <1>1 DEF Create, Expire
  <1>2. ASSUME NEW c \in Claims, Claim(c) \/ Refuse(c) \/ WrongSecret(c)
        PROVE  UsedUp' /\ OneCredentialPerChallenge' /\ RegistrationIsWhole'
    <2>1. CASE Claim(c)
      BY <2>1 DEF Claim, Looks, ClaimTo, Delete
    <2>2. CASE Refuse(c)
      BY <2>2 DEF Refuse, Looks, ClaimTo, Delete
    <2>3. CASE WrongSecret(c)
      BY <2>3 DEF WrongSecret, Looks, ClaimTo, Delete
    <2> QED
      BY <1>2, <2>1, <2>2, <2>3
  <1>6. ASSUME NEW c \in Claims, StartInsert(c) \/ Commit(c) \/ InsertFails(c)
        PROVE  UsedUp' /\ OneCredentialPerChallenge' /\ RegistrationIsWhole'
    <2>1. CASE StartInsert(c)
      BY <2>1 DEF StartInsert, ClaimTo, Rows, Looks
    <2>2. CASE Commit(c)
      BY <2>2 DEF Commit, ClaimTo, Rows, Looks
    <2>3. CASE InsertFails(c)
      BY <2>3 DEF InsertFails, ClaimTo, Rows, Looks
    <2> QED
      BY <1>6, <2>1, <2>2, <2>3
  <1>7. ASSUME NEW c \in Claims, Issue(c) \/ AddFails(c)
        PROVE  UsedUp' /\ OneCredentialPerChallenge' /\ RegistrationIsWhole'
    <2>1. \A e \in Claims : claim'[e] = "paired" => e = c \/ claim[e] = "paired"
      BY <1>7 DEF Issue, AddFails, ClaimTo, Looks
    <2>2. UsedUp'
      BY <1>7, <2>1 DEF Issue, AddFails, ClaimTo, Looks
    <2>3. OneCredentialPerChallenge'
      BY <1>7, <2>1 DEF Issue, AddFails, ClaimTo, Looks
    <2>4. RegistrationIsWhole'
      BY <1>7 DEF Issue, AddFails, ClaimTo, Looks
    <2> QED
      BY <2>2, <2>3, <2>4
  <1>8. ASSUME NEW c \in Claims, Undo(c)
        PROVE  UsedUp' /\ OneCredentialPerChallenge' /\ RegistrationIsWhole'
    <2>1. \A e \in Claims : claim'[e] = "paired" => e = c \/ claim[e] = "paired"
      BY <1>8 DEF Undo, ClaimTo
    <2>2. UsedUp'
      BY <1>8, <2>1 DEF Undo, ClaimTo
    <2>3. OneCredentialPerChallenge'
      BY <1>8, <2>1 DEF Undo, ClaimTo
    <2>4. RegistrationIsWhole'
      BY <1>8 DEF Undo, ClaimTo
    <2> QED
      BY <2>2, <2>3, <2>4
  <1>3. ASSUME NEW c \in Claims, Pair(c)
        PROVE  UsedUp' /\ OneCredentialPerChallenge' /\ RegistrationIsWhole'
    <2>1. \A e \in Claims : claim'[e] = "paired" => e = c \/ claim[e] = "paired"
      BY <1>3 DEF Pair, ClaimTo, Delete, Inserts, Open
    <2>2. UsedUp'
      BY <1>3, <2>1 DEF Pair, ClaimTo, Delete, Inserts, Open
    <2>3. OneCredentialPerChallenge'
      BY <1>3, <2>1 DEF Pair, ClaimTo, Delete, Inserts, Open
    <2>4. RegistrationIsWhole'
      BY <1>3 DEF Pair, ClaimTo, Delete, Inserts, Open
    <2> QED
      BY <2>2, <2>3, <2>4
  <1>9. ASSUME NEW c \in Claims, Add(c)
        PROVE  UsedUp' /\ OneCredentialPerChallenge' /\ RegistrationIsWhole'
    BY <1>9 DEF Add, ClaimTo, Delete, Inserts, Open
  <1>4. CASE Crash
    BY <1>4 DEF Crash
  <1>5. CASE UNCHANGED vars
    BY <1>5 DEF vars
  <1> QED
    BY <1>1, <1>2, <1>3, <1>4, <1>5, <1>6, <1>7, <1>8, <1>9 DEF Next, ClaimRuns

-----------------------------------------------------------------------------
(* Theorems *)

\* The inductive invariant holds in every reachable state.
THEOREM PairingInvariant == Spec => []PairingInv
  <1>1. PairingInv /\ [Next]_vars => PairingInv'
    BY TypeStep, InsertsStep, RegistersStep, CountsStep, PairedStep DEF PairingInv
  <1> QED
    BY InitInv, <1>1, PTL DEF Spec

\* Every reachable state has the declared types; in particular no record counts
\* more failures than the limit.
THEOREM PairingTypeCorrect == Spec => []TypeOK
  <1>1. PairingInv => TypeOK
    BY DEF PairingInv
  <1> QED
    BY PairingInvariant, <1>1, PTL

\* At most MaxClaimAttempts wrong secrets are compared with a challenge, and
\* after the last it is gone (database.py:212-224).
THEOREM GuessesBounded == Spec => []GuessBudget
  <1>1. PairingInv => GuessBudget
    BY PairingAssumption DEF PairingInv, TypeOK, Counts, GuessBudget
  <1> QED
    BY PairingInvariant, <1>1, PTL

\* A challenge gives out at most one credential (database.py:212-257).
THEOREM CredentialOnce == Spec => []OneCredentialPerChallenge
  <1>1. PairingInv => OneCredentialPerChallenge
    BY DEF PairingInv
  <1> QED
    BY PairingInvariant, <1>1, PTL

\* Devices and credentials are registered together, and a credential that was
\* given out is registered (database.py:234-257, memory.py:188-200).
THEOREM RegistrationWhole == Spec => []RegistrationIsWhole
  <1>1. PairingInv => RegistrationIsWhole
    BY DEF PairingInv
  <1> QED
    BY PairingInvariant, <1>1, PTL

\* In memory no challenge registers two devices either: there is no commit whose
\* acknowledgement could be lost (memory.py:182-200).
THEOREM MemoryPairsOneDevice ==
    Spec => [](store = "memory" => OneDevicePerChallenge)
  <1>1. PairingInv => (store = "memory" => OneDevicePerChallenge)
    <2> SUFFICES ASSUME PairingInv, store = "memory",
                        NEW c \in devices, NEW e \in devices, CodeOf[c] = CodeOf[e]
                 PROVE  c = e
      BY DEF OneDevicePerChallenge
    <2>1. c \in Claims /\ e \in Claims
      BY DEF PairingInv, TypeOK
    <2>2. claim[c] \in {"paired", "undoing"} /\ claim[e] \in {"paired", "undoing"}
      BY DEF PairingInv, Registers
    <2>3. CASE claim[c] = "paired" /\ claim[e] = "paired"
      BY <2>1, <2>3 DEF PairingInv, OneCredentialPerChallenge
    <2>4. CASE claim[c] = "undoing" /\ claim[e] = "undoing"
      BY <2>1, <2>4 DEF PairingInv, Inserts, Holds
    <2>5. ~(claim[c] = "undoing" /\ claim[e] = "paired")
      BY <2>1 DEF PairingInv, Inserts, UsedUp, Open
    <2>6. ~(claim[e] = "undoing" /\ claim[c] = "paired")
      BY <2>1 DEF PairingInv, Inserts, UsedUp, Open
    <2> QED
      BY <2>2, <2>3, <2>4, <2>5, <2>6
  <1> QED
    BY PairingInvariant, <1>1, PTL

-----------------------------------------------------------------------------
(* The lock *)

\* The claims between their await of the lock and its release.
InClaim == {"waiting", "inserting", "committed", "issued", "undoing"}
Queued == {c \in Claims : claim[c] \in InClaim}

\* Exactly the claims under way are in the queue of the lock, each once: no claim
\* waits behind one that has ended (database.py:206-257, memory.py:163-203).
LockServesClaims == Queues(lock, Queued)

LEMMA LockStep ==
    ASSUME PairingInv, LockServesClaims, [Next]_vars
    PROVE  LockServesClaims'
  <1> USE DEF LockServesClaims
  <1>0. TypeOK /\ lock \in Seq(Claims)
    BY DEF PairingInv, TypeOK
  <1>1. ASSUME lock' = lock, Queued' = Queued
        PROVE  LockServesClaims'
    BY <1>1
  <1>2. ASSUME NEW p \in Challenges, Create(p) \/ Expire(p)
        PROVE  LockServesClaims'
    BY <1>1, <1>2 DEF Create, Expire, Queued
  <1>3. ASSUME NEW c \in Claims, Claim(c)
        PROVE  LockServesClaims'
    <2>1. c \notin Queued /\ Queued' = Queued \cup {c}
      BY <1>0, <1>3 DEF TypeOK, Claim, ClaimTo, Queued, InClaim
    <2>2. lock' = Append(lock, c)
      BY <1>3 DEF Claim
    <2> QED
      BY <1>0, <2>1, <2>2, JoinQueue
  <1>4. ASSUME NEW c \in Claims, NEW ph \in {"invalid", "error", "paired"},
               Release(c), ClaimTo(c, ph)
        PROVE  LockServesClaims'
    <2>1. Queued' = Queued \ {c}
      BY <1>0, <1>4 DEF TypeOK, ClaimTo, Queued, InClaim
    <2>2. lock # <<>> /\ Head(lock) = c /\ lock' = Tail(lock)
      BY <1>4 DEF Release, Holds
    <2> QED
      BY <1>0, <2>1, <2>2, LeaveQueue
  <1>5. ASSUME NEW c \in Claims,
               \/ Refuse(c) \/ WrongSecret(c) \/ InsertFails(c) \/ Pair(c)
               \/ Add(c) \/ Undo(c)
        PROVE  LockServesClaims'
    BY <1>4, <1>5 DEF Refuse, WrongSecret, InsertFails, Pair, Add, Undo
  <1>6. ASSUME NEW c \in Claims, StartInsert(c) \/ Commit(c) \/ Issue(c) \/ AddFails(c)
        PROVE  LockServesClaims'
    <2>1. lock' = lock
      BY <1>6 DEF StartInsert, Commit, Issue, AddFails
    <2>2. Queued' = Queued
      BY <1>0, <1>6
      DEF TypeOK, StartInsert, Commit, Issue, AddFails, Looks, ClaimTo, Queued, InClaim
    <2> QED
      BY <1>1, <2>1, <2>2
  <1>7. CASE Crash
    <2>1. \A c \in Claims : claim[c] \notin {"issued", "undoing"}
      BY <1>7 DEF PairingInv, Inserts, Crash
    <2>2. lock' = <<>> /\ Queued' = {}
      BY <1>7, <2>1 DEF Crash, Queued, InClaim
    <2> QED
      BY <2>2, FreeLock
  <1>8. CASE UNCHANGED vars
    BY <1>1, <1>8 DEF vars, Queued
  <1> QED
    BY <1>2, <1>3, <1>5, <1>6, <1>7, <1>8 DEF Next, ClaimRuns

\* The lock is held and awaited by exactly the claims under way, through errors,
\* roll-backs and crashes: it is the safety half of ClaimEnds.
THEOREM LockIsExact == Spec => []LockServesClaims
  <1>1. Init => LockServesClaims
    BY FreeLock DEF Init, LockServesClaims, Queued, InClaim
  <1>2. PairingInv /\ LockServesClaims /\ [Next]_vars => LockServesClaims'
    BY LockStep
  <1> QED
    BY PairingInvariant, <1>1, <1>2, PTL DEF Spec

-----------------------------------------------------------------------------
(* Refinement of PairingCodes *)

Codes == [p \in Challenges |-> IF Redeemed(p) THEN "gone" ELSE challenge[p]]
States == [c \in Claims |-> StateOf(claim[c])]
Registered == {c \in devices : claim[c] \notin {"issued", "undoing"}}

\* A step of the code refines one of the abstract specification if it does so in
\* terms of these names.
LEMMA Bars ==
    /\ Pairing!Init <=>
          /\ Codes = [p \in Challenges |-> "none"]
          /\ expired = {}
          /\ guesses = [p \in Challenges |-> 0]
          /\ States = [c \in Claims |-> "new"]
          /\ Registered = {}
    /\ UNCHANGED <<Codes, expired, guesses, States, Registered>>
          => UNCHANGED Pairing!vars
  BY DEF Pairing!Init, Pairing!vars, Codes, States, Registered

LEMMA PhaseStates ==
    /\ StateOf("idle") = "new" /\ StateOf("waiting") = "new"
    /\ StateOf("inserting") = "accepted" /\ StateOf("issued") = "accepted"
    /\ StateOf("committed") = "redeemed"
    /\ StateOf("paired") = "given"
    /\ StateOf("undoing") = "failed" /\ StateOf("invalid") = "failed"
    /\ StateOf("error") = "failed"
  BY DEF StateOf

\* The phase of one claim gives its state, and leaves the others theirs.
LEMMA StateChange ==
    ASSUME TypeOK, NEW c \in Claims, NEW ph, ClaimTo(c, ph)
    PROVE  /\ States' = [States EXCEPT ![c] = StateOf(ph)]
           /\ claim'[c] = ph
           /\ \A e \in Claims \ {c} : claim'[e] = claim[e]
  BY DEF TypeOK, ClaimTo, States

\* While one claim has the lock no other is behind its commit.
LEMMA HolderAlone ==
    ASSUME PairingInv, NEW c \in Claims, Holds(c)
    PROVE  \A e \in Claims \ {c} : claim[e] \notin {"inserting", "committed", "issued", "undoing"}
  BY DEF PairingInv, Inserts, Holds

\* Without a claim behind its commit the codes are the challenges.
LEMMA CodesAre ==
    ASSUME TypeOK, \A e \in Claims : claim[e] # "committed"
    PROVE  Codes = challenge
  BY DEF TypeOK, Redeemed, Codes

LEMMA InitRefines == Init => Pairing!Init
  <1> SUFFICES ASSUME Init PROVE Pairing!Init
    OBVIOUS
  <1>1. Codes = [p \in Challenges |-> "none"]
    BY DEF Init, Codes, Redeemed
  <1>2. States = [c \in Claims |-> "new"] /\ Registered = {}
    BY PhaseStates DEF Init, States, Registered
  <1> QED
    BY <1>1, <1>2, Bars DEF Init

LEMMA ChallengeRefines ==
    ASSUME PairingInv, NEW p \in Challenges, Create(p) \/ Expire(p)
    PROVE  Pairing!Next
  <1>1. States' = States /\ Registered' = Registered
    BY DEF Create, Expire, States, Registered
  <1>2. \A q \in Challenges : Redeemed(q)' <=> Redeemed(q)
    BY DEF Create, Expire, Redeemed
  <1>3. CASE Create(p)
    <2>1. ~Redeemed(p)
      BY <1>3 DEF PairingInv, Inserts, Open, Redeemed, Create
    <2>2. Codes[p] = "none" /\ Codes' = [Codes EXCEPT ![p] = "open"]
      BY <1>2, <1>3, <2>1 DEF Create, Codes, PairingInv, TypeOK
    <2>3. Pairing!Create(p)
      BY <1>1, <1>3, <2>2 DEF Create, Pairing!Create, Codes, States, Registered
    <2> QED
      BY <2>3 DEF Pairing!Next
  <1>4. CASE Expire(p)
    <2>1. Codes[p] # "none" /\ Codes' = Codes
      BY <1>2, <1>4 DEF Expire, Codes
    <2>2. Pairing!Expire(p)
      BY <1>1, <1>4, <2>1 DEF Expire, Pairing!Expire, Codes, States, Registered
    <2> QED
      BY <2>2 DEF Pairing!Next
  <1> QED
    BY <1>3, <1>4

\* Queueing for the lock is no step of the abstract specification.
LEMMA ClaimRefines ==
    ASSUME PairingInv, NEW c \in Claims, Claim(c)
    PROVE  UNCHANGED Pairing!vars
  <1>1. /\ States' = [States EXCEPT ![c] = "new"]
        /\ claim'[c] = "waiting"
        /\ \A e \in Claims \ {c} : claim'[e] = claim[e]
    BY StateChange, PhaseStates DEF PairingInv, Claim
  <1>2. States[c] = "new"
    BY PhaseStates DEF Claim, States
  <1>3. States' = States
    BY <1>1, <1>2 DEF States
  <1>4. Codes' = Codes
    BY <1>1 DEF Claim, Codes, Redeemed
  <1>5. Registered' = Registered
    BY <1>1 DEF Claim, Registered, PairingInv, TypeOK
  <1> QED
    BY <1>3, <1>4, <1>5, Bars DEF Claim

\* The claim that has the lock finds its challenge as the abstract specification
\* has it.
LEMMA Looking ==
    ASSUME PairingInv, NEW c \in Claims, Looks(c)
    PROVE  /\ \A e \in Claims : claim[e] # "committed"
           /\ Codes = challenge
           /\ States[c] = "new"
           /\ c \notin devices
  <1>1. claim[c] = "waiting"
    BY DEF Looks
  <1>2. \A e \in Claims : claim[e] # "committed"
    BY <1>1, HolderAlone DEF Looks
  <1>3. Codes = challenge
    BY <1>2, CodesAre DEF PairingInv
  <1>4. States[c] = "new"
    BY <1>1, PhaseStates DEF States
  <1>5. c \notin devices
    BY <1>1 DEF PairingInv, Registers
  <1> QED
    BY <1>2, <1>3, <1>4, <1>5

\* While no claim comes to be behind its commit and no device is touched, codes and
\* registrations follow the challenges.
LEMMA Following ==
    ASSUME TypeOK, NEW c \in Claims, c \notin devices, UNCHANGED devices,
           \A e \in Claims : claim[e] # "committed",
           claim'[c] # "committed", \A e \in Claims \ {c} : claim'[e] = claim[e],
           challenge' \in [Challenges -> {"none", "open", "gone"}]
    PROVE  Codes' = challenge' /\ Registered' = Registered
  <1>1. \A e \in Claims : claim'[e] # "committed"
    OBVIOUS
  <1>2. Codes' = challenge'
    BY <1>1 DEF Codes, Redeemed
  <1>3. Registered' = Registered
    BY DEF Registered, TypeOK
  <1> QED
    BY <1>2, <1>3

LEMMA RefuseRefines ==
    ASSUME PairingInv, NEW c \in Claims, Refuse(c)
    PROVE  Pairing!Refuse(c)
  <1> USE PairingAssumption DEF PairingInv
  <1>1. /\ States' = [States EXCEPT ![c] = "failed"]
        /\ claim'[c] = "invalid"
        /\ \A e \in Claims \ {c} : claim'[e] = claim[e]
    BY StateChange, PhaseStates DEF Refuse
  <1>2. Codes = challenge /\ States[c] = "new"
    BY Looking DEF Refuse
  <1>3. challenge' \in [Challenges -> {"none", "open", "gone"}]
    BY DEF TypeOK, Refuse, Delete
  <1>4. Codes' = challenge' /\ Registered' = Registered
    BY <1>1, <1>3, Looking, Following DEF Refuse
  <1>5. /\ ~(Codes[CodeOf[c]] = "open" /\ CodeOf[c] \notin expired)
        /\ IF Codes[CodeOf[c]] = "open"
           THEN Codes' = [Codes EXCEPT ![CodeOf[c]] = "gone"] ELSE Codes' = Codes
    BY <1>2, <1>4 DEF Refuse, Open, Late, Delete
  <1> QED
    BY <1>1, <1>2, <1>4, <1>5
    DEF Refuse, Codes, States, Registered, Pairing!Refuse, Pairing!Claimable,
        Pairing!ClaimTo, Pairing!Drop

LEMMA WrongSecretRefines ==
    ASSUME PairingInv, NEW c \in Claims, WrongSecret(c)
    PROVE  Pairing!Guess(c)
  <1> USE PairingAssumption DEF PairingInv
  <1> DEFINE q == CodeOf[c]
  <1>1. /\ States' = [States EXCEPT ![c] = "failed"]
        /\ claim'[c] = "invalid"
        /\ \A e \in Claims \ {c} : claim'[e] = claim[e]
    BY StateChange, PhaseStates DEF WrongSecret
  <1>2. Codes = challenge /\ States[c] = "new"
    BY Looking DEF WrongSecret
  <1>3. challenge' \in [Challenges -> {"none", "open", "gone"}]
    BY DEF TypeOK, WrongSecret, Delete
  <1>4. Codes' = challenge' /\ Registered' = Registered
    BY <1>1, <1>3, Looking, Following DEF WrongSecret
  <1>5. /\ guesses[q] < MaxClaimAttempts
        /\ guesses' = [guesses EXCEPT ![q] = @ + 1]
        /\ LastAttempt(q) <=> guesses'[q] = MaxClaimAttempts
    BY DEF TypeOK, Counts, WrongSecret, Claimable, Open, LastAttempt
  <1>6. /\ Codes[q] = "open" /\ q \notin expired
        /\ IF guesses'[q] = MaxClaimAttempts
           THEN Codes' = [Codes EXCEPT ![q] = "gone"] ELSE Codes' = Codes
    BY <1>2, <1>4, <1>5 DEF WrongSecret, Claimable, Open, Late, Delete
  <1> QED
    BY <1>1, <1>2, <1>4, <1>5, <1>6
    DEF WrongSecret, Codes, States, Registered, Pairing!Guess, Pairing!Claimable,
        Pairing!ClaimTo, Pairing!Drop

LEMMA AcceptRefines ==
    ASSUME PairingInv, NEW c \in Claims, StartInsert(c) \/ Issue(c)
    PROVE  Pairing!Accept(c)
  <1> USE DEF PairingInv
  <1>1. PICK ph \in {"inserting", "issued"} : ClaimTo(c, ph)
    BY DEF StartInsert, Issue
  <1>2. /\ States' = [States EXCEPT ![c] = "accepted"]
        /\ claim'[c] = ph
        /\ \A e \in Claims \ {c} : claim'[e] = claim[e]
    BY <1>1, StateChange, PhaseStates
  <1>3. Looks(c) /\ Claimable(c) /\ c \in Knowing
    BY DEF StartInsert, Issue
  <1>4. Codes = challenge /\ States[c] = "new"
    BY <1>3, Looking
  <1>5. Codes' = challenge' /\ Registered' = Registered
    BY <1>2, <1>3, Looking, Following DEF StartInsert, Issue, TypeOK
  <1>6. Codes' = Codes /\ UNCHANGED <<expired, guesses>>
    BY <1>4, <1>5 DEF StartInsert, Issue
  <1> QED
    BY <1>2, <1>3, <1>4, <1>5, <1>6
    DEF Claimable, Open, Late, Codes, States, Registered,
        Pairing!Accept, Pairing!Claimable, Pairing!ClaimTo

\* The commit redeems the code and registers the device.
LEMMA CommitRefines ==
    ASSUME PairingInv, NEW c \in Claims, Commit(c)
    PROVE  Pairing!Redeem(c)
  <1> USE PairingAssumption DEF PairingInv
  <1>1. /\ States' = [States EXCEPT ![c] = "redeemed"]
        /\ claim'[c] = "committed"
        /\ \A e \in Claims \ {c} : claim'[e] = claim[e]
    BY StateChange, PhaseStates DEF Commit
  <1>2. Holds(c) /\ Open(c) /\ claim[c] = "inserting"
    BY DEF Commit, Inserts
  <1>3. \A e \in Claims : claim[e] # "committed"
    BY <1>2, HolderAlone
  <1>4. Codes = challenge /\ States[c] = "accepted"
    BY <1>2, <1>3, CodesAre, PhaseStates DEF States
  <1>5. Codes[CodeOf[c]] = "open" /\ Codes' = [Codes EXCEPT ![CodeOf[c]] = "gone"]
    <2>1. \A p \in Challenges : Redeemed(p)' <=> p = CodeOf[c]
      BY <1>1, <1>3 DEF Redeemed
    <2> QED
      BY <1>2, <1>4, <2>1 DEF Commit, Open, Codes, TypeOK
  <1>6. Registered' = Registered \cup {c}
    BY <1>1 DEF Commit, Rows, Registered, TypeOK
  <1> QED
    BY <1>1, <1>4, <1>5, <1>6
    DEF Commit, Codes, States, Registered, Pairing!Redeem, Pairing!ClaimTo, Pairing!Drop

\* A transaction that raises is a failed claim, its device registered or not.
LEMMA InsertFailsRefines ==
    ASSUME PairingInv, NEW c \in Claims, InsertFails(c)
    PROVE  Pairing!Fail(c)
  <1> USE DEF PairingInv
  <1>1. /\ States' = [States EXCEPT ![c] = "failed"]
        /\ claim'[c] = "error"
        /\ \A e \in Claims \ {c} : claim'[e] = claim[e]
    BY StateChange, PhaseStates DEF InsertFails
  <1>2. claim[c] = "inserting" /\ States[c] = "accepted"
    BY PhaseStates DEF InsertFails, States
  <1>3. Codes' = Codes
    BY <1>1, <1>2 DEF InsertFails, Codes, Redeemed
  <1>4. Registered' \in {Registered, Registered \cup {c}}
    <2>1. CASE devices' = devices \cup {c}
      BY <1>1, <2>1 DEF Registered, TypeOK
    <2>2. CASE devices' = devices
      <3>1. c \notin devices
        BY <1>2 DEF Registers
      <3> QED
        BY <1>1, <2>2, <3>1 DEF Registered, TypeOK
    <2> QED
      BY <2>1, <2>2 DEF InsertFails, Rows
  <1> QED
    BY <1>1, <1>2, <1>3, <1>4
    DEF InsertFails, Codes, States, Registered, Pairing!Fail, Pairing!ClaimTo

\* Behind the commit the credential is handed over; the code was gone.
LEMMA PairRefines ==
    ASSUME PairingInv, NEW c \in Claims, Pair(c)
    PROVE  Pairing!Give(c)
  <1> USE PairingAssumption DEF PairingInv
  <1>1. /\ States' = [States EXCEPT ![c] = "given"]
        /\ claim'[c] = "paired"
        /\ \A e \in Claims \ {c} : claim'[e] = claim[e]
    BY StateChange, PhaseStates DEF Pair
  <1>2. claim[c] = "committed" /\ States[c] = "redeemed"
    BY PhaseStates DEF Pair, States
  <1>3. \A e \in Claims \ {c} : claim[e] # "committed"
    BY HolderAlone DEF Pair, Release
  <1>4. Codes' = Codes
    <2>1. \A p \in Challenges : Redeemed(p) <=> p = CodeOf[c]
      BY <1>2, <1>3 DEF Redeemed
    <2>2. \A p \in Challenges : ~Redeemed(p)'
      BY <1>1, <1>3 DEF Redeemed
    <2> QED
      BY <2>1, <2>2 DEF Pair, Delete, Codes, TypeOK
  <1>5. Registered' = Registered
    BY <1>1, <1>2 DEF Pair, Registered, TypeOK
  <1> QED
    BY <1>1, <1>2, <1>4, <1>5
    DEF Pair, Codes, States, Registered, Pairing!Give, Pairing!ClaimTo

\* In memory all of it is one step, when the registry has added the device.
LEMMA AddRefines ==
    ASSUME PairingInv, NEW c \in Claims, Add(c)
    PROVE  Pairing!Redeem(c)
  <1> USE PairingAssumption DEF PairingInv
  <1>1. /\ States' = [States EXCEPT ![c] = "given"]
        /\ claim'[c] = "paired"
        /\ \A e \in Claims \ {c} : claim'[e] = claim[e]
    BY StateChange, PhaseStates DEF Add
  <1>2. Holds(c) /\ Open(c) /\ claim[c] = "issued"
    BY DEF Add, Inserts
  <1>3. \A e \in Claims : claim[e] # "committed"
    BY <1>2, HolderAlone
  <1>4. Codes = challenge /\ States[c] = "accepted"
    BY <1>2, <1>3, CodesAre, PhaseStates DEF States
  <1>5. Codes[CodeOf[c]] = "open" /\ Codes' = [Codes EXCEPT ![CodeOf[c]] = "gone"]
    <2>1. \A p \in Challenges : ~Redeemed(p)'
      BY <1>1, <1>3 DEF Redeemed
    <2> QED
      BY <1>2, <1>4, <2>1 DEF Add, Delete, Open, Codes, TypeOK
  <1>6. Registered' = Registered \cup {c}
    BY <1>1 DEF Add, Registered, TypeOK
  <1> QED
    BY <1>1, <1>4, <1>5, <1>6
    DEF Add, Codes, States, Registered, Pairing!Redeem, Pairing!ClaimTo, Pairing!Drop

\* A registry that raises has registered nothing, whatever is still to be undone.
LEMMA AddFailsRefines ==
    ASSUME PairingInv, NEW c \in Claims, AddFails(c)
    PROVE  Pairing!Fail(c)
  <1> USE DEF PairingInv
  <1>1. /\ States' = [States EXCEPT ![c] = "failed"]
        /\ claim'[c] = "undoing"
        /\ \A e \in Claims \ {c} : claim'[e] = claim[e]
    BY StateChange, PhaseStates DEF AddFails
  <1>2. claim[c] = "issued" /\ States[c] = "accepted"
    BY PhaseStates DEF AddFails, States
  <1>3. Codes' = Codes
    BY <1>1, <1>2 DEF AddFails, Codes, Redeemed
  <1>4. Registered' = Registered
    BY <1>1, <1>2 DEF AddFails, Registered, TypeOK
  <1> QED
    BY <1>1, <1>2, <1>3, <1>4
    DEF AddFails, Codes, States, Registered, Pairing!Fail, Pairing!ClaimTo

\* Undoing it is no step of the abstract specification.
LEMMA UndoRefines ==
    ASSUME PairingInv, NEW c \in Claims, Undo(c)
    PROVE  UNCHANGED Pairing!vars
  <1> USE DEF PairingInv
  <1>1. /\ States' = [States EXCEPT ![c] = "failed"]
        /\ claim'[c] = "error"
        /\ \A e \in Claims \ {c} : claim'[e] = claim[e]
    BY StateChange, PhaseStates DEF Undo
  <1>2. claim[c] = "undoing" /\ States[c] = "failed"
    BY PhaseStates DEF Undo, States
  <1>3. States' = States
    BY <1>1, <1>2 DEF States
  <1>4. Codes' = Codes
    BY <1>1, <1>2 DEF Undo, Codes, Redeemed
  <1>5. Registered' = Registered
    BY <1>1, <1>2 DEF Undo, Registered, TypeOK
  <1> QED
    BY <1>3, <1>4, <1>5, Bars DEF Undo

\* The process dies with at most one transaction open, that of the claim with the
\* lock.
LEMMA CrashRefines ==
    ASSUME PairingInv, Crash
    PROVE  Pairing!Restart
  <1> USE PairingAssumption DEF PairingInv
  <1> DEFINE F == {c \in Claims : claim[c] = "waiting"}
  <1>1. Codes' = [p \in Challenges |-> IF Codes[p] = "none" THEN "none" ELSE "gone"]
    <2>1. \A p \in Challenges : ~Redeemed(p)'
      BY DEF Crash, Redeemed
    <2>2. \A p \in Challenges : Redeemed(p) => challenge[p] = "open"
      BY DEF Redeemed, Inserts, Open
    <2> QED
      BY <2>1, <2>2 DEF Crash, Codes, TypeOK
  <1>2. F \in SUBSET {c \in Claims : States[c] = "new"}
    BY PhaseStates DEF States
  <1>3. States' = [c \in Claims |->
                      IF c \in F \/ States[c] \in {"accepted", "redeemed"}
                      THEN "failed" ELSE States[c]]
    <2>1. \A c \in Claims : claim[c] \notin {"issued", "undoing"}
      BY DEF Crash, Inserts
    <2>2. ASSUME NEW c \in Claims
          PROVE  StateOf(claim'[c]) =
                     IF c \in F \/ StateOf(claim[c]) \in {"accepted", "redeemed"}
                     THEN "failed" ELSE StateOf(claim[c])
      <3>1. CASE claim[c] \in {"waiting", "inserting", "committed"}
        BY <3>1, PhaseStates DEF Crash
      <3>2. CASE claim[c] \in {"idle", "paired", "invalid", "error"}
        <4>1. claim'[c] = claim[c]
          BY <3>2 DEF Crash
        <4>2. StateOf(claim[c]) \notin {"accepted", "redeemed"}
          BY <3>2, PhaseStates
        <4> QED
          BY <3>2, <4>1, <4>2
      <3> QED
        BY <2>1, <3>1, <3>2 DEF TypeOK, ClaimPhases
    <2> QED
      BY <2>2 DEF States
  <1>4. \/ Registered' = Registered
        \/ \E c \in Claims : States[c] = "accepted" /\ Registered' = Registered \cup {c}
    <2>1. PICK C \in SUBSET {c \in Claims : claim[c] = "inserting"} : devices' = devices \cup C
      BY DEF Crash
    <2>2. Registered' = Registered \cup C
      <3>1. \A c \in Claims : claim[c] \notin {"issued", "undoing"}
        BY DEF Crash, Inserts
      <3>2. \A c \in Claims : claim'[c] \notin {"issued", "undoing"}
        BY <3>1 DEF Crash
      <3> QED
        BY <2>1, <3>1, <3>2 DEF Registered, TypeOK
    <2>3. CASE C = {}
      BY <2>2, <2>3
    <2>4. CASE C # {}
      <3>1. PICK c \in C : TRUE
        BY <2>4
      <3>2. c \in Claims /\ claim[c] = "inserting" /\ States[c] = "accepted"
        BY <3>1, PhaseStates DEF States
      <3>3. \A e \in C : e = c
        BY <3>2, HolderAlone DEF Inserts
      <3> QED
        BY <2>2, <3>1, <3>2, <3>3
    <2> QED
      BY <2>3, <2>4
  <1>5. \E G \in SUBSET {c \in Claims : States[c] = "new"} :
           States' = [c \in Claims |->
                         IF c \in G \/ States[c] \in {"accepted", "redeemed"}
                         THEN "failed" ELSE States[c]]
    BY <1>2, <1>3
  <1> QED
    BY <1>1, <1>4, <1>5
    DEF Crash, Codes, States, Registered, Pairing!Restart

LEMMA StepRefines ==
    ASSUME PairingInv, [Next]_vars
    PROVE  [Pairing!Next]_(Pairing!vars)
  <1>1. CASE \E p \in Challenges : Create(p) \/ Expire(p)
    BY <1>1, ChallengeRefines
  <1>2. ASSUME NEW c \in Claims, Claim(c) \/ ClaimRuns(c)
        PROVE  [Pairing!Next]_(Pairing!vars)
    <2>1. CASE Claim(c) \/ Undo(c)
      BY <2>1, ClaimRefines, UndoRefines
    <2>2. ASSUME \/ Pairing!Refuse(c) \/ Pairing!Guess(c) \/ Pairing!Accept(c)
                 \/ Pairing!Redeem(c) \/ Pairing!Give(c) \/ Pairing!Fail(c)
          PROVE  Pairing!Next
      BY <2>2 DEF Pairing!Next
    <2>3. CASE Refuse(c) \/ WrongSecret(c) \/ StartInsert(c) \/ Issue(c)
      BY <2>2, <2>3, RefuseRefines, WrongSecretRefines, AcceptRefines
    <2>4. CASE Commit(c) \/ InsertFails(c) \/ Pair(c)
      BY <2>2, <2>4, CommitRefines, InsertFailsRefines, PairRefines
    <2>5. CASE Add(c) \/ AddFails(c)
      BY <2>2, <2>5, AddRefines, AddFailsRefines
    <2> QED
      BY <1>2, <2>1, <2>3, <2>4, <2>5 DEF ClaimRuns
  <1>3. CASE Crash
    BY <1>3, CrashRefines DEF Pairing!Next
  <1>4. CASE UNCHANGED vars
    <2>1. UNCHANGED <<Codes, expired, guesses, States, Registered>>
      BY <1>4 DEF vars, Codes, Redeemed, States, Registered
    <2> QED
      BY <2>1, Bars
  <1> QED
    BY <1>1, <1>2, <1>3, <1>4 DEF Next

\* Pairing implements the abstract specification: seen from the codes, every claim
\* happens at one moment or not at all (database.py:206-257, memory.py:163-203).
THEOREM PairingIsAtomic == Spec => ClaimsAreAtomic
  <1>1. PairingInv /\ [Next]_vars => [Pairing!Next]_(Pairing!vars)
    BY StepRefines
  <1> QED
    BY PairingInvariant, InitRefines, <1>1, PTL DEF Spec, ClaimsAreAtomic, Pairing!Spec
=============================================================================
