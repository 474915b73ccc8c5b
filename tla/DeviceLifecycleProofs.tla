------------------------ MODULE DeviceLifecycleProofs ------------------------
(***************************************************************************)
(* Proofs about DeviceLifecycle, for any devices, sockets, revocations,    *)
(* commands and number of crashes.                                         *)
(***************************************************************************)
EXTENDS DeviceLifecycle, LockQueues, TLAPS

\* Between its reads and its writes a connection, or a revocation, has the lock.
Locking ==
    /\ \A s \in Sessions : phase[s] \in {"checked", "registering"} => Holds(s)
    /\ \A r \in Revocations :
          revocation[r] \in {"active", "deleted", "saved", "closing"} => Holds(r)

\* What connect_device has read is true until it has registered the session.
StillPaired == \A s \in Sessions : phase[s] = "checked" => DeviceOf[s] \notin revoked

\* What a revocation has done so far stays done.
Progress ==
    \A r \in Revocations :
        /\ revocation[r] = "deleted" => TargetOf[r] \notin credentials
        /\ revocation[r] \in {"saved", "closing", "done"} => TargetOf[r] \in revoked
        /\ revocation[r] \in {"closing", "done"} => connections[TargetOf[r]] = None

\* The table holds sessions under their own device, and every handler that was
\* registered and is not any more has a transport that is closing, or was dropped.
Known ==
    /\ \A d \in Devices, s \in Sessions : connections[d] = s => DeviceOf[s] = d
    /\ \A s \in Sessions : phase[s] \in Registered =>
          connections[DeviceOf[s]] = s \/ transport[s] # "open" \/ s \in orphaned

\* A command has captured a session of its device; while it writes it is alone,
\* and the session is current or closing: closed, once a revocation has returned.
Sending ==
    /\ \A k \in Commands : command[k] \in {"queued", "sending"} =>
          session[k] \in Sessions /\ DeviceOf[session[k]] = ReceiverOf[k]
    /\ \A k \in Commands : command[k] = "sending" =>
          connections[ReceiverOf[k]] = session[k] \/ transport[session[k]] # "open"
    /\ \A j, k \in Commands :
          command[j] = "sending" /\ command[k] = "sending" /\ session[j] = session[k]
              => j = k
    /\ \A r \in Revocations, k \in Commands :
          revocation[r] = "done" /\ TargetOf[r] = ReceiverOf[k] /\ command[k] = "sending"
              => transport[session[k]] = "closed"

\* Phases before manager.connect.
Arriving == {"new", "authenticating", "authenticated", "locking", "checked"}

\* A session arrives on an open transport, is in the table from then on and, once
\* its handler has ended, only with a closed one; commands capture only sessions that
\* were activated.
Entering ==
    /\ \A s \in Sessions : phase[s] \in Arriving => transport[s] = "open"
    /\ \A s \in Sessions : connections[DeviceOf[s]] = s =>
          phase[s] \in Registered \/ (phase[s] = "ended" /\ transport[s] = "closed")
    /\ \A k \in Commands : command[k] \in {"queued", "sending"} => Online(session[k])

\* The inductive invariant.
LifecycleInv ==
    /\ TypeOK
    /\ Locking
    /\ StillPaired
    /\ RevokedHasNoCredential
    /\ Progress
    /\ Known
    /\ Sending
    /\ Entering

-----------------------------------------------------------------------------
Tasks == Sessions \cup Revocations

\* A task that queues leaves the holder of the lock where it is.
LEMMA LockSteps ==
    ASSUME NEW q \in Seq(Tasks), NEW t \in Tasks
    PROVE  /\ Append(q, t) \in Seq(Tasks)
           /\ Append(q, t) # <<>>
           /\ q # <<>> => Head(Append(q, t)) = Head(q)
           /\ q # <<>> => Tail(q) \in Seq(Tasks)
  <1>1. Append(q, t) \in Seq(Tasks)
    OBVIOUS
  <1>2. Append(q, t) # <<>>
    <2>1. Len(Append(q, t)) = Len(q) + 1 /\ Len(q) \in Nat
      OBVIOUS
    <2> QED
      BY <2>1
  <1>3. q # <<>> => Head(Append(q, t)) = Head(q)
    OBVIOUS
  <1>4. q # <<>> => Tail(q) \in Seq(Tasks)
    OBVIOUS
  <1> QED
    BY <1>1, <1>2, <1>3, <1>4

\* Acquiring the lock keeps every holder, releasing it every queue of tasks.
LEMMA AcquireKeeps ==
    ASSUME TypeOK, NEW t \in Tasks, NEW u, Acquire(t)
    PROVE  /\ lifecycle' \in Seq(Tasks)
           /\ Holds(u) => Holds(u)'
  <1>1. lifecycle \in Seq(Tasks)
    BY DEF TypeOK, Tasks
  <1> QED
    BY <1>1, LockSteps DEF Acquire, Holds

LEMMA ReleaseKeeps ==
    ASSUME TypeOK, NEW t, Release(t)
    PROVE  lifecycle' \in Seq(Tasks)
  <1>1. lifecycle \in Seq(Tasks) /\ lifecycle # <<>>
    BY DEF TypeOK, Tasks, Release, Holds
  <1>2. Tail(lifecycle) \in Seq(Tasks)
    BY <1>1
  <1> QED
    BY <1>2 DEF Release

LEMMA InitInv == Init => LifecycleInv
  <1> SUFFICES ASSUME Init PROVE LifecycleInv
    OBVIOUS
  <1>1. TypeOK
    <2>1. <<>> \in Seq(Sessions \cup Revocations)
      OBVIOUS
    <2> QED
      BY <2>1, LifecycleAssumption
      DEF Init, TypeOK, SessionPhases, RevocationPhases, CommandPhases
  <1>2. /\ Locking /\ StillPaired /\ RevokedHasNoCredential
        /\ Progress /\ Known /\ Sending /\ Entering
    BY LifecycleAssumption
    DEF Init, Locking, StillPaired, RevokedHasNoCredential, Progress, Known, Sending,
        Registered, Entering
  <1> QED
    BY <1>1, <1>2 DEF LifecycleInv

-----------------------------------------------------------------------------
\* The transports after the manager has closed the session of a device.
LEMMA ClosedTypes ==
    ASSUME TypeOK, NEW d
    PROVE  ClosedOf(d) \in [Sessions -> {"open", "closing", "closed"}]
  BY DEF TypeOK, ClosedOf

LEMMA TypeStep ==
    ASSUME LifecycleInv, [Next]_vars
    PROVE  TypeOK'
  <1> USE LifecycleAssumption
  <1>0. TypeOK
    BY DEF LifecycleInv
  <1> DEFINE LockOK == lifecycle' \in Seq(Sessions \cup Revocations)
  <1>1. ASSUME NEW s \in Sessions,
               Authenticate(s) \/ Accept(s) \/ EnterConnect(s) \/ CheckDevice(s)
                  \/ ConnectReturns(s) \/ CloseEnds(s)
        PROVE  TypeOK'
    <2>1. s \in Tasks
      BY DEF Tasks
    <2>2. LockOK
      BY <1>0, <1>1, <2>1, AcquireKeeps, ReleaseKeeps
      DEF Tasks, TypeOK, Authenticate, Accept, EnterConnect, CheckDevice, ConnectReturns,
          CloseEnds
    <2>3. phase' \in [Sessions -> SessionPhases]
      BY <1>0, <1>1
      DEF TypeOK, SessionPhases, SessionTo, Authenticate, Accept, EnterConnect, CheckDevice,
          ConnectReturns, CloseEnds
    <2> QED
      BY <1>0, <1>1, <2>2, <2>3
      DEF TypeOK, durable, commandVars, Authenticate, Accept, EnterConnect, CheckDevice,
          ConnectReturns, CloseEnds
  <1>2. ASSUME NEW s \in Sessions, Register(s)
        PROVE  TypeOK'
    <2>1. transport' \in [Sessions -> {"open", "closing", "closed"}]
      BY <1>0, <1>2, ClosedTypes DEF Register
    <2> QED
      BY <1>0, <1>2, <2>1
      DEF TypeOK, durable, commandVars, SessionPhases, SessionTo, Register
  <1>3. ASSUME NEW s \in Sessions, Leave(s)
        PROVE  TypeOK'
    BY <1>0, <1>3 DEF TypeOK, durable, commandVars, SessionPhases, SessionTo, Leave
  <1>4. ASSUME NEW s \in Sessions,
               ReadGrants(s) \/ Activate(s) \/ PeerLeaves(s) \/ SocketEnds(s)
        PROVE  TypeOK'
    BY <1>0, <1>3, <1>4
    DEF TypeOK, durable, commandVars, SessionPhases, SessionTo, ReadGrants, Activate,
        PeerLeaves, SocketEnds
  <1>5. ASSUME NEW r \in Revocations,
               Revoke(r) \/ ReadDevice(r) \/ DeleteCredential(r) \/ SaveStatus(r)
                  \/ DisconnectDevice(r) \/ RevokeReturns(r)
        PROVE  TypeOK'
    <2>1. r \in Tasks
      BY DEF Tasks
    <2>2. LockOK
      BY <1>0, <1>5, <2>1, AcquireKeeps, ReleaseKeeps
      DEF Tasks, TypeOK, Fails, Revoke, ReadDevice, DeleteCredential, SaveStatus,
          DisconnectDevice, RevokeReturns
    <2>3. revocation' \in [Revocations -> RevocationPhases]
      BY <1>0, <1>5
      DEF TypeOK, RevocationPhases, RevocationTo, Fails, Revoke, ReadDevice,
          DeleteCredential, SaveStatus, DisconnectDevice, RevokeReturns
    <2>4. credentials' \in SUBSET Devices /\ revoked' \in SUBSET Devices
      BY <1>0, <1>5
      DEF TypeOK, durable, Revoke, ReadDevice, DeleteCredential, SaveStatus,
          DisconnectDevice, RevokeReturns
    <2>5. /\ connections' \in [Devices -> Sessions \cup {None}]
          /\ transport' \in [Sessions -> {"open", "closing", "closed"}]
      BY <1>0, <1>5, ClosedTypes
      DEF TypeOK, Revoke, ReadDevice, DeleteCredential, SaveStatus,
          DisconnectDevice, RevokeReturns
    <2> QED
      BY <1>0, <1>5, <2>2, <2>3, <2>4, <2>5
      DEF TypeOK, commandVars, Revoke, ReadDevice, DeleteCredential, SaveStatus,
          DisconnectDevice, RevokeReturns
  <1>6. ASSUME NEW k \in Commands, ReadReceiver(k) \/ Admit(k) \/ StartSend(k)
        PROVE  TypeOK'
    BY <1>0, <1>6
    DEF TypeOK, durable, CommandPhases, CommandTo, ReadReceiver, Admit, StartSend
  <1>7. ASSUME NEW k \in Commands, WriteFrame(k)
        PROVE  TypeOK'
    <2>1. session[k] \in Sessions
      BY <1>7 DEF LifecycleInv, Sending, WriteFrame
    <2> QED
      BY <1>0, <1>7, <2>1 DEF TypeOK, durable, CommandPhases, CommandTo, WriteFrame
  <1>8. CASE Crash
    <2>1. lifecycle' \in Seq(Sessions \cup Revocations)
      BY <1>8 DEF Crash
    <2>2. restarts' \in 0 .. MaxRestarts
      BY <1>0, <1>8 DEF TypeOK, Crash
    <2>3. phase' \in [Sessions -> SessionPhases]
      BY <1>0, <1>8 DEF TypeOK, SessionPhases, Crash
    <2>4. revocation' \in [Revocations -> RevocationPhases]
      BY <1>0, <1>8 DEF TypeOK, RevocationPhases, Crash
    <2>5. command' \in [Commands -> CommandPhases]
      BY <1>0, <1>8 DEF TypeOK, CommandPhases, Crash
    <2> QED
      BY <1>0, <1>8, <2>1, <2>2, <2>3, <2>4, <2>5 DEF TypeOK, durable, Crash
  <1>9. CASE UNCHANGED vars
    BY <1>0, <1>9 DEF TypeOK, vars
  <1> QED
    BY <1>1, <1>2, <1>4, <1>5, <1>6, <1>7, <1>8, <1>9
    DEF Next, SessionRuns, RevocationRuns, CommandRuns

-----------------------------------------------------------------------------
\* A task with the lock moves; nobody else can be the holder.
LEMMA OneHolder ==
    ASSUME NEW t, NEW u, Holds(t), Holds(u)
    PROVE  t = u
  BY DEF Holds

\* Sockets and revocations are different tasks.
LEMMA DifferentTasks ==
    ASSUME NEW s \in Sessions, NEW r \in Revocations
    PROVE  s # r
  BY LifecycleAssumption

\* Who holds the lock keeps it until it releases it.
LEMMA LockingStep ==
    ASSUME LifecycleInv, [Next]_vars
    PROVE  Locking'
  <1>0. TypeOK /\ Locking
    BY DEF LifecycleInv
  <1>1. ASSUME NEW s \in Sessions, EnterConnect(s)
        PROVE  Locking'
    <2>1. s \in Tasks
      BY DEF Tasks
    <2>2. \A u : Holds(u) => Holds(u)'
      BY <1>0, <1>1, <2>1, AcquireKeeps DEF EnterConnect
    <2> QED
      BY <1>0, <1>1, <2>2 DEF TypeOK, Locking, EnterConnect, SessionTo
  <1>2. ASSUME NEW s \in Sessions, CheckDevice(s) \/ ConnectReturns(s)
        PROVE  Locking'
    <2>1. Holds(s)
      BY <1>2 DEF CheckDevice, ConnectReturns, Release
    <2>2. \A t \in Sessions : t # s /\ phase[t] \in {"checked", "registering"} => FALSE
      BY <1>0, <2>1, OneHolder DEF Locking
    <2>3. \A r \in Revocations :
             revocation[r] \notin {"active", "deleted", "saved", "closing"}
      BY <1>0, <2>1, OneHolder, DifferentTasks DEF Locking
    <2> QED
      BY <1>0, <1>2, <2>1, <2>2, <2>3
      DEF TypeOK, Locking, Holds, CheckDevice, ConnectReturns, SessionTo
  <1>3. ASSUME NEW s \in Sessions, Leave(s)
        PROVE  Locking'
    BY <1>0, <1>3 DEF TypeOK, Locking, Holds, Leave, SessionTo
  <1>4. ASSUME NEW s \in Sessions,
               Authenticate(s) \/ Accept(s) \/ Register(s) \/ ReadGrants(s) \/ Activate(s)
                  \/ PeerLeaves(s) \/ SocketEnds(s) \/ CloseEnds(s)
        PROVE  Locking'
    BY <1>0, <1>3, <1>4
    DEF TypeOK, Locking, Holds, SessionTo, Authenticate, Accept, Register, ReadGrants,
        Activate, PeerLeaves, SocketEnds, CloseEnds
  <1>5. ASSUME NEW r \in Revocations, Revoke(r)
        PROVE  Locking'
    <2>1. r \in Tasks
      BY DEF Tasks
    <2>2. \A u : Holds(u) => Holds(u)'
      BY <1>0, <1>5, <2>1, AcquireKeeps DEF Revoke
    <2> QED
      BY <1>0, <1>5, <2>2 DEF TypeOK, Locking, Revoke, RevocationTo
  <1>6. ASSUME NEW r \in Revocations,
               ReadDevice(r) \/ DeleteCredential(r) \/ SaveStatus(r)
                  \/ DisconnectDevice(r) \/ RevokeReturns(r)
        PROVE  Locking'
    <2>1. Holds(r)
      BY <1>0, <1>6
      DEF Locking, ReadDevice, DeleteCredential, SaveStatus, DisconnectDevice, RevokeReturns
    <2>2. \A s \in Sessions : phase[s] \notin {"checked", "registering"}
      BY <1>0, <2>1, OneHolder, DifferentTasks DEF Locking
    <2>3. \A q \in Revocations :
             revocation[q] \in {"active", "deleted", "saved", "closing"} => q = r
      BY <1>0, <2>1, OneHolder DEF Locking
    <2>4. /\ phase' = phase
          /\ \/ Holds(r)'
             \/ revocation'[r] \in {"done", "failed"}
      BY <1>0, <1>6, <2>1
      DEF TypeOK, Holds, RevocationTo, Fails, ReadDevice, DeleteCredential, SaveStatus,
          DisconnectDevice, RevokeReturns
    <2>5. \A q \in Revocations : q # r => revocation'[q] = revocation[q]
      BY <1>0, <1>6
      DEF TypeOK, RevocationTo, Fails, ReadDevice, DeleteCredential, SaveStatus,
          DisconnectDevice, RevokeReturns
    <2> QED
      BY <2>2, <2>3, <2>4, <2>5 DEF Locking
  <1>7. ASSUME NEW k \in Commands,
               ReadReceiver(k) \/ Admit(k) \/ StartSend(k) \/ WriteFrame(k)
        PROVE  Locking'
    BY <1>0, <1>7 DEF Locking, Holds, ReadReceiver, Admit, StartSend, WriteFrame
  <1>8. CASE Crash
    BY <1>0, <1>8 DEF TypeOK, Locking, Crash
  <1>9. CASE UNCHANGED vars
    BY <1>0, <1>9 DEF Locking, Holds, vars
  <1> QED
    BY <1>1, <1>2, <1>4, <1>5, <1>6, <1>7, <1>8, <1>9
    DEF Next, SessionRuns, RevocationRuns, CommandRuns

\* The rows change only under the lock, the credential before the status.
LEMMA RowsStep ==
    ASSUME LifecycleInv, [Next]_vars
    PROVE  StillPaired' /\ RevokedHasNoCredential'
  <1>0. TypeOK /\ Locking /\ StillPaired /\ RevokedHasNoCredential /\ Progress
    BY DEF LifecycleInv
  <1> USE DEF StillPaired, RevokedHasNoCredential
  <1>1. ASSUME NEW s \in Sessions, Leave(s)
        PROVE  StillPaired' /\ RevokedHasNoCredential'
    BY <1>0, <1>1 DEF TypeOK, durable, Leave, SessionTo
  <1>2. ASSUME NEW s \in Sessions,
               Authenticate(s) \/ Accept(s) \/ EnterConnect(s) \/ CheckDevice(s)
                  \/ Register(s) \/ ConnectReturns(s) \/ ReadGrants(s) \/ Activate(s)
                  \/ PeerLeaves(s) \/ SocketEnds(s) \/ CloseEnds(s)
        PROVE  StillPaired' /\ RevokedHasNoCredential'
    BY <1>0, <1>1, <1>2
    DEF TypeOK, durable, SessionTo, Authenticate, Accept, EnterConnect, CheckDevice,
        Register, ConnectReturns, ReadGrants, Activate, PeerLeaves, SocketEnds, CloseEnds
  <1>3. ASSUME NEW r \in Revocations, SaveStatus(r)
        PROVE  StillPaired' /\ RevokedHasNoCredential'
    <2>1. Holds(r) /\ TargetOf[r] \notin credentials
      BY <1>0, <1>3 DEF Locking, Progress, SaveStatus
    <2>2. \A s \in Sessions : phase[s] # "checked"
      BY <1>0, <2>1, OneHolder, DifferentTasks DEF Locking
    <2> QED
      BY <1>0, <1>3, <2>1, <2>2 DEF SaveStatus
  <1>4. ASSUME NEW r \in Revocations,
               Revoke(r) \/ ReadDevice(r) \/ DeleteCredential(r)
                  \/ DisconnectDevice(r) \/ RevokeReturns(r)
        PROVE  StillPaired' /\ RevokedHasNoCredential'
    BY <1>0, <1>4
    DEF durable, Revoke, ReadDevice, DeleteCredential, DisconnectDevice, RevokeReturns
  <1>5. ASSUME NEW k \in Commands,
               ReadReceiver(k) \/ Admit(k) \/ StartSend(k) \/ WriteFrame(k)
        PROVE  StillPaired' /\ RevokedHasNoCredential'
    BY <1>0, <1>5 DEF durable, ReadReceiver, Admit, StartSend, WriteFrame
  <1>6. CASE Crash
    BY <1>0, <1>6 DEF TypeOK, durable, Crash
  <1>7. CASE UNCHANGED vars
    BY <1>0, <1>7 DEF vars
  <1> QED
    BY <1>2, <1>3, <1>4, <1>5, <1>6, <1>7
    DEF Next, SessionRuns, RevocationRuns, CommandRuns

\* Rows never come back, and no session is registered for a revoked device.
LEMMA ProgressStep ==
    ASSUME LifecycleInv, [Next]_vars
    PROVE  Progress'
  <1> USE LifecycleAssumption
  <1>0. TypeOK /\ StillPaired /\ RevokedHasNoCredential /\ Progress
    BY DEF LifecycleInv
  <1>1. ASSUME NEW s \in Sessions, Leave(s)
        PROVE  Progress'
    BY <1>0, <1>1 DEF TypeOK, Progress, durable, Leave
  <1>2. ASSUME NEW s \in Sessions, Register(s)
        PROVE  Progress'
    BY <1>0, <1>2 DEF TypeOK, Progress, StillPaired, durable, Register
  <1>3. ASSUME NEW s \in Sessions,
               Authenticate(s) \/ Accept(s) \/ EnterConnect(s) \/ CheckDevice(s)
                  \/ ConnectReturns(s) \/ ReadGrants(s) \/ Activate(s)
                  \/ PeerLeaves(s) \/ SocketEnds(s) \/ CloseEnds(s)
        PROVE  Progress'
    BY <1>0, <1>1, <1>3
    DEF Progress, durable, Authenticate, Accept, EnterConnect, CheckDevice,
        ConnectReturns, ReadGrants, Activate, PeerLeaves, SocketEnds, CloseEnds
  <1>4. ASSUME NEW r \in Revocations,
               Revoke(r) \/ ReadDevice(r) \/ DeleteCredential(r) \/ SaveStatus(r)
                  \/ DisconnectDevice(r) \/ RevokeReturns(r)
        PROVE  Progress'
    BY <1>0, <1>4
    DEF TypeOK, Progress, RevokedHasNoCredential, durable, RevocationTo, Fails, Revoke,
        ReadDevice, DeleteCredential, SaveStatus, DisconnectDevice, RevokeReturns
  <1>5. ASSUME NEW k \in Commands,
               ReadReceiver(k) \/ Admit(k) \/ StartSend(k) \/ WriteFrame(k)
        PROVE  Progress'
    BY <1>0, <1>5
    DEF TypeOK, Progress, durable, ReadReceiver, Admit, StartSend, WriteFrame
  <1>6. CASE Crash
    BY <1>0, <1>6 DEF TypeOK, Progress, durable, Crash
  <1>7. CASE UNCHANGED vars
    BY <1>0, <1>7 DEF Progress, vars
  <1> QED
    BY <1>2, <1>3, <1>4, <1>5, <1>6, <1>7
    DEF Next, SessionRuns, RevocationRuns, CommandRuns

-----------------------------------------------------------------------------
\* What the manager closes is closing, or was not open before.
LEMMA ClosedFacts ==
    ASSUME TypeOK, NEW d \in Devices, NEW s \in Sessions
    PROVE  /\ connections[d] = s => ClosedOf(d)[s] # "open"
           /\ transport[s] # "open" => ClosedOf(d)[s] = transport[s]
  BY DEF TypeOK, ClosedOf

\* A session leaves the table closing, closed, or by a failed send.
LEMMA KnownStep ==
    ASSUME LifecycleInv, [Next]_vars
    PROVE  Known'
  <1> USE LifecycleAssumption
  <1>0. TypeOK /\ Known /\ Sending
    BY DEF LifecycleInv
  <1>1. ASSUME NEW s \in Sessions, Leave(s)
        PROVE  Known'
    BY <1>0, <1>1 DEF TypeOK, Known, Registered, commandVars, Leave, SessionTo
  <1>2. ASSUME NEW s \in Sessions, Register(s)
        PROVE  Known'
    <2> DEFINE d == DeviceOf[s]
    <2>1. /\ connections' = [connections EXCEPT ![d] = s]
          /\ transport' = ClosedOf(d)
          /\ phase' = [phase EXCEPT ![s] = "registering"]
          /\ orphaned' = orphaned
      BY <1>2 DEF Register, SessionTo, commandVars
    <2>2. \A e \in Devices, t \in Sessions : connections'[e] = t => DeviceOf[t] = e
      BY <1>0, <2>1 DEF TypeOK, Known
    <2>3. ASSUME NEW t \in Sessions, phase'[t] \in Registered
          PROVE  connections'[DeviceOf[t]] = t \/ transport'[t] # "open" \/ t \in orphaned'
      <3>1. CASE t = s
        BY <1>0, <2>1, <3>1 DEF TypeOK
      <3>2. CASE t # s
        <4>1. connections[DeviceOf[t]] = t \/ transport[t] # "open" \/ t \in orphaned
          BY <1>0, <2>1, <2>3, <3>2 DEF TypeOK, Known
        <4>2. CASE DeviceOf[t] = d
          BY <1>0, <2>1, <4>1, <4>2, ClosedFacts DEF TypeOK
        <4>3. CASE DeviceOf[t] # d
          BY <1>0, <2>1, <4>1, <4>3, ClosedFacts DEF TypeOK
        <4> QED
          BY <4>2, <4>3
      <3> QED
        BY <3>1, <3>2
    <2> QED
      BY <2>2, <2>3 DEF Known
  <1>3. ASSUME NEW s \in Sessions,
               Authenticate(s) \/ Accept(s) \/ EnterConnect(s) \/ CheckDevice(s)
                  \/ ConnectReturns(s) \/ ReadGrants(s) \/ Activate(s)
                  \/ PeerLeaves(s) \/ SocketEnds(s) \/ CloseEnds(s)
        PROVE  Known'
    BY <1>0, <1>1, <1>3
    DEF TypeOK, Known, Registered, commandVars, SessionTo, Authenticate, Accept,
        EnterConnect, CheckDevice, ConnectReturns, ReadGrants, Activate, PeerLeaves,
        SocketEnds, CloseEnds
  <1>4. ASSUME NEW r \in Revocations, DisconnectDevice(r)
        PROVE  Known'
    <2> DEFINE d == TargetOf[r]
    <2>1. /\ connections' = [connections EXCEPT ![d] = None]
          /\ transport' = ClosedOf(d)
          /\ phase' = phase
          /\ orphaned' = orphaned
      BY <1>4 DEF DisconnectDevice, commandVars
    <2>2. \A e \in Devices, t \in Sessions : connections'[e] = t => DeviceOf[t] = e
      BY <1>0, <2>1 DEF TypeOK, Known
    <2>3. ASSUME NEW t \in Sessions, phase'[t] \in Registered
          PROVE  connections'[DeviceOf[t]] = t \/ transport'[t] # "open" \/ t \in orphaned'
      <3>1. connections[DeviceOf[t]] = t \/ transport[t] # "open" \/ t \in orphaned
        BY <1>0, <2>1, <2>3 DEF Known
      <3>2. CASE DeviceOf[t] = d
        BY <1>0, <2>1, <3>1, <3>2, ClosedFacts DEF TypeOK
      <3>3. CASE DeviceOf[t] # d
        BY <1>0, <2>1, <3>1, <3>3, ClosedFacts DEF TypeOK
      <3> QED
        BY <3>2, <3>3
    <2> QED
      BY <2>2, <2>3 DEF Known
  <1>5. ASSUME NEW r \in Revocations,
               Revoke(r) \/ ReadDevice(r) \/ DeleteCredential(r) \/ SaveStatus(r)
                  \/ RevokeReturns(r)
        PROVE  Known'
    BY <1>0, <1>5
    DEF Known, commandVars, Revoke, ReadDevice, DeleteCredential, SaveStatus, RevokeReturns
  <1>6. ASSUME NEW k \in Commands, ReadReceiver(k) \/ Admit(k) \/ StartSend(k)
        PROVE  Known'
    BY <1>0, <1>6 DEF Known, ReadReceiver, Admit, StartSend
  <1>7. ASSUME NEW k \in Commands, WriteFrame(k)
        PROVE  Known'
    <2>1. session[k] \in Sessions /\ DeviceOf[session[k]] = ReceiverOf[k]
      BY <1>0, <1>7 DEF Sending, WriteFrame
    <2>2. /\ transport' = transport /\ phase' = phase
          /\ orphaned \subseteq orphaned'
          /\ \A e \in Devices : connections'[e] \in {connections[e], None}
      BY <1>0, <1>7 DEF TypeOK, WriteFrame
    <2>3. ASSUME NEW t \in Sessions,
                 connections[DeviceOf[t]] = t, connections'[DeviceOf[t]] # t,
                 transport[t] = "open"
          PROVE  t \in orphaned'
      <3>1. DeviceOf[t] = ReceiverOf[k] /\ session[k] = t
        BY <1>0, <1>7, <2>1, <2>3 DEF TypeOK, WriteFrame
      <3> QED
        BY <1>0, <1>7, <2>3, <3>1 DEF WriteFrame
    <2> QED
      BY <1>0, <2>2, <2>3 DEF Known
  <1>8. CASE Crash
    BY <1>0, <1>8 DEF TypeOK, Known, Registered, Crash
  <1>9. CASE UNCHANGED vars
    BY <1>0, <1>9 DEF Known, vars
  <1> QED
    BY <1>2, <1>3, <1>4, <1>5, <1>6, <1>7, <1>8, <1>9
    DEF Next, SessionRuns, RevocationRuns, CommandRuns

-----------------------------------------------------------------------------
\* A command of a session that leaves the table goes on with a closing transport,
\* and nothing opens one again.
LEMMA SendingKeeps ==
    ASSUME LifecycleInv, TypeOK',
           command' = command, session' = session,
           \A r \in Revocations : revocation'[r] = "done" => revocation[r] = "done",
           \A s \in Sessions : transport[s] # "open" => transport'[s] # "open",
           \A s \in Sessions : transport[s] = "closed" => transport'[s] = "closed",
           \A d \in Devices, s \in Sessions :
              connections[d] = s => connections'[d] = s \/ transport'[s] # "open"
    PROVE  Sending'
  <1>0. TypeOK /\ Sending
    BY DEF LifecycleInv
  <1>1. \A k \in Commands : command'[k] \in {"queued", "sending"} =>
           session'[k] \in Sessions /\ DeviceOf[session'[k]] = ReceiverOf[k]
    BY <1>0 DEF Sending
  <1>2. \A k \in Commands : command'[k] = "sending" =>
           connections'[ReceiverOf[k]] = session'[k] \/ transport'[session'[k]] # "open"
    BY <1>0, LifecycleAssumption DEF Sending
  <1>3. \A j, k \in Commands :
           command'[j] = "sending" /\ command'[k] = "sending" /\ session'[j] = session'[k]
              => j = k
    BY <1>0 DEF Sending
  <1>4. \A r \in Revocations, k \in Commands :
           revocation'[r] = "done" /\ TargetOf[r] = ReceiverOf[k] /\ command'[k] = "sending"
              => transport'[session'[k]] = "closed"
    BY <1>0 DEF Sending
  <1> QED
    BY <1>1, <1>2, <1>3, <1>4 DEF Sending

LEMMA SendingStep ==
    ASSUME LifecycleInv, [Next]_vars
    PROVE  Sending'
  <1> USE LifecycleAssumption
  <1>0. TypeOK /\ Progress /\ Known /\ Sending
    BY DEF LifecycleInv
  <1>t. TypeOK'
    BY TypeStep
  <1>1. ASSUME NEW s \in Sessions, Leave(s)
        PROVE  Sending'
    BY <1>0, <1>1, <1>t, SendingKeeps DEF TypeOK, commandVars, Leave
  <1>2. ASSUME NEW s \in Sessions, Register(s)
        PROVE  Sending'
    <2>1. \A t \in Sessions : transport[t] # "open" => transport'[t] = transport[t]
      BY <1>0, <1>2, ClosedFacts DEF Register
    <2>2. \A d \in Devices, t \in Sessions :
             connections[d] = t => connections'[d] = t \/ transport'[t] # "open"
      BY <1>0, <1>2, ClosedFacts DEF TypeOK, Register
    <2> QED
      BY <1>2, <1>t, <2>1, <2>2, SendingKeeps DEF Register, commandVars
  <1>3. ASSUME NEW s \in Sessions,
               Authenticate(s) \/ Accept(s) \/ EnterConnect(s) \/ CheckDevice(s)
                  \/ ConnectReturns(s) \/ ReadGrants(s) \/ Activate(s)
                  \/ PeerLeaves(s) \/ SocketEnds(s)
        PROVE  Sending'
    BY <1>1, <1>3, <1>t, SendingKeeps
    DEF commandVars, Authenticate, Accept, EnterConnect, CheckDevice, ConnectReturns,
        ReadGrants, Activate, PeerLeaves, SocketEnds
  <1>4. ASSUME NEW s \in Sessions, CloseEnds(s)
        PROVE  Sending'
    BY <1>0, <1>4, <1>t, SendingKeeps DEF TypeOK, commandVars, CloseEnds
  <1>5. ASSUME NEW r \in Revocations, DisconnectDevice(r)
        PROVE  Sending'
    <2>1. \A t \in Sessions : transport[t] # "open" => transport'[t] = transport[t]
      BY <1>0, <1>5, ClosedFacts DEF DisconnectDevice
    <2>2. \A d \in Devices, t \in Sessions :
             connections[d] = t => connections'[d] = t \/ transport'[t] # "open"
      BY <1>0, <1>5, ClosedFacts DEF TypeOK, DisconnectDevice
    <2>3. \A q \in Revocations : revocation'[q] = "done" => revocation[q] = "done"
      BY <1>0, <1>5 DEF TypeOK, DisconnectDevice, RevocationTo
    <2> QED
      BY <1>5, <1>t, <2>1, <2>2, <2>3, SendingKeeps DEF DisconnectDevice, commandVars
  <1>6. ASSUME NEW r \in Revocations,
               Revoke(r) \/ ReadDevice(r) \/ DeleteCredential(r) \/ SaveStatus(r)
        PROVE  Sending'
    <2>1. \A q \in Revocations : revocation'[q] = "done" => revocation[q] = "done"
      BY <1>0, <1>6
      DEF TypeOK, RevocationTo, Fails, Revoke, ReadDevice, DeleteCredential, SaveStatus
    <2>2. UNCHANGED <<command, session, transport, connections>>
      BY <1>6 DEF commandVars, Revoke, ReadDevice, DeleteCredential, SaveStatus
    <2> QED
      BY <1>t, <2>1, <2>2, SendingKeeps
  <1>7. ASSUME NEW r \in Revocations, RevokeReturns(r)
        PROVE  Sending'
    <2>1. UNCHANGED <<command, session, transport, connections>>
      BY <1>7 DEF commandVars, RevokeReturns
    <2>2. ASSUME NEW k \in Commands, TargetOf[r] = ReceiverOf[k], command[k] = "sending"
          PROVE  transport[session[k]] = "closed"
      <3>1. session[k] \in Sessions /\ DeviceOf[session[k]] = TargetOf[r]
        BY <1>0, <2>2 DEF Sending
      <3>2. connections[TargetOf[r]] = None
        BY <1>0, <1>7 DEF Progress, RevokeReturns
      <3>3. transport[session[k]] # "open"
        BY <1>0, <2>2, <3>1, <3>2 DEF Sending
      <3>4. transport[session[k]] # "closing"
        BY <1>7, <3>1 DEF RevokeReturns, CloseAwaited
      <3> QED
        BY <1>0, <3>1, <3>3, <3>4 DEF TypeOK
    <2>3. \A q \in Revocations : revocation'[q] = "done" => q = r \/ revocation[q] = "done"
      BY <1>0, <1>7 DEF TypeOK, RevokeReturns, RevocationTo
    <2> QED
      BY <1>0, <2>1, <2>2, <2>3 DEF Sending
  <1>8. ASSUME NEW k \in Commands, ReadReceiver(k)
        PROVE  Sending'
    <2>1. UNCHANGED <<session, transport, connections, revocation>>
      BY <1>8 DEF ReadReceiver
    <2>2. \A j \in Commands : command'[j] \in {"queued", "sending"} => command'[j] = command[j]
      BY <1>0, <1>8 DEF TypeOK, ReadReceiver, CommandTo
    <2> QED
      BY <1>0, <2>1, <2>2 DEF Sending
  <1>9. ASSUME NEW k \in Commands, Admit(k)
        PROVE  Sending'
    <2>1. UNCHANGED <<transport, connections, revocation>>
      BY <1>9 DEF Admit
    <2>2. \A j \in Commands : j # k => command'[j] = command[j] /\ session'[j] = session[j]
      BY <1>0, <1>9 DEF TypeOK, Admit, CommandTo
    <2>3. command'[k] # "sending"
      BY <1>0, <1>9 DEF TypeOK, Admit, CommandTo
    <2>4. command'[k] = "queued" =>
             session'[k] \in Sessions /\ DeviceOf[session'[k]] = ReceiverOf[k]
      BY <1>0, <1>9 DEF TypeOK, Known, Admit, CommandTo
    <2> QED
      BY <1>0, <2>1, <2>2, <2>3, <2>4 DEF Sending
  <1>10. ASSUME NEW k \in Commands, StartSend(k)
         PROVE  Sending'
    <2>1. UNCHANGED <<session, transport, connections, revocation>>
      BY <1>10 DEF StartSend
    <2>2. \A j \in Commands : j # k => command'[j] = command[j]
      BY <1>0, <1>10 DEF TypeOK, StartSend, CommandTo
    <2>3. /\ session[k] \in Sessions /\ DeviceOf[session[k]] = ReceiverOf[k]
          /\ \A j \in Commands : session[j] = session[k] => command[j] # "sending"
          /\ command'[k] = "sending" => connections[ReceiverOf[k]] = session[k]
      BY <1>0, <1>10 DEF TypeOK, Sending, StartSend, CommandTo
    <2>4. ASSUME NEW r \in Revocations, revocation[r] = "done", TargetOf[r] = ReceiverOf[k],
                 command'[k] = "sending"
          PROVE  FALSE
      BY <1>0, <2>3, <2>4 DEF Progress
    <2> QED
      BY <1>0, <2>1, <2>2, <2>3, <2>4 DEF Sending
  <1>11. ASSUME NEW k \in Commands, WriteFrame(k)
         PROVE  Sending'
    <2>1. /\ command[k] = "sending"
          /\ UNCHANGED <<session, transport, revocation>>
      BY <1>11 DEF WriteFrame
    <2>2. \A j \in Commands : j # k => command'[j] = command[j]
      BY <1>0, <1>11 DEF TypeOK, WriteFrame, CommandTo
    <2>3. command'[k] \in {"sent", "failed"}
      BY <1>0, <1>11 DEF TypeOK, WriteFrame, CommandTo
    <2>4. ASSUME NEW j \in Commands, j # k, command[j] = "sending",
                 connections[ReceiverOf[j]] = session[j]
          PROVE  connections'[ReceiverOf[j]] = session[j]
      <3>1. session[j] # session[k]
        BY <1>0, <2>1, <2>4 DEF Sending
      <3> QED
        BY <1>0, <1>11, <2>4, <3>1 DEF TypeOK, WriteFrame
    <2> QED
      BY <1>0, <2>1, <2>2, <2>3, <2>4 DEF Sending
  <1>12. CASE Crash
    BY <1>0, <1>12 DEF TypeOK, Sending, Crash
  <1>13. CASE UNCHANGED vars
    BY <1>0, <1>13 DEF Sending, vars
  <1> QED
    BY <1>2, <1>3, <1>4, <1>5, <1>6, <1>7, <1>8, <1>9, <1>10, <1>11, <1>12, <1>13
    DEF Next, SessionRuns, RevocationRuns, CommandRuns

-----------------------------------------------------------------------------
\* What was activated stays so; a handler leaves with a closed transport.
LEMMA EnteringStep ==
    ASSUME LifecycleInv, [Next]_vars
    PROVE  Entering'
  <1> USE LifecycleAssumption
  <1>0. TypeOK /\ Known /\ Sending /\ Entering
    BY DEF LifecycleInv
  <1>c. ASSUME command' = command, session' = session,
               \A t \in Sessions : Online(t) => Online(t)'
        PROVE  \A k \in Commands : command'[k] \in {"queued", "sending"} => Online(session[k])'
    BY <1>0, <1>c DEF Entering, Sending, Online
  <1>1. ASSUME NEW s \in Sessions, phase[s] \notin Arriving, Leave(s)
        PROVE  Entering'
    <2>1. \A t \in Sessions : Online(t) => Online(t)'
      BY <1>0, <1>1 DEF TypeOK, Online, Leave, SessionTo
    <2>2. \A t \in Sessions : phase'[t] \in Arriving => transport'[t] = "open"
      BY <1>0, <1>1 DEF TypeOK, Entering, Arriving, Leave, SessionTo
    <2>3. \A t \in Sessions : connections'[DeviceOf[t]] = t =>
             phase'[t] \in Registered \/ (phase'[t] = "ended" /\ transport'[t] = "closed")
      BY <1>0, <1>1 DEF TypeOK, Entering, Leave, SessionTo
    <2> QED
      BY <1>1, <1>c, <2>1, <2>2, <2>3 DEF Entering, Leave, commandVars
  <1>2. ASSUME NEW s \in Sessions, Register(s)
        PROVE  Entering'
    <2> DEFINE d == DeviceOf[s]
    <2>1. /\ connections' = [connections EXCEPT ![d] = s]
          /\ transport' = ClosedOf(d)
          /\ phase[s] = "checked"
          /\ phase' = [phase EXCEPT ![s] = "registering"]
          /\ command' = command /\ session' = session
      BY <1>2 DEF Register, SessionTo, commandVars
    <2>2. \A t \in Sessions : Online(t) => Online(t)'
      BY <1>0, <2>1 DEF TypeOK, Online
    <2>3. ASSUME NEW t \in Sessions, phase'[t] \in Arriving
          PROVE  transport'[t] = "open"
      <3>1. phase[t] \in Arriving /\ t # s
        BY <1>0, <2>1, <2>3 DEF TypeOK, Arriving
      <3>2. connections[d] # t
        <4>1. connections[d] = t => DeviceOf[t] = d
          BY <1>0 DEF Known
        <4> QED
          BY <1>0, <3>1, <4>1 DEF Entering, Arriving, Registered
      <3> QED
        BY <1>0, <2>1, <3>1, <3>2 DEF Entering, ClosedOf
    <2>4. ASSUME NEW t \in Sessions, connections'[DeviceOf[t]] = t
          PROVE  phase'[t] \in Registered \/ (phase'[t] = "ended" /\ transport'[t] = "closed")
      <3>1. CASE t = s
        BY <1>0, <2>1, <3>1 DEF TypeOK, Registered
      <3>2. CASE t # s
        <4>1. connections[DeviceOf[t]] = t /\ phase'[t] = phase[t]
          BY <1>0, <2>1, <2>4, <3>2 DEF TypeOK
        <4> QED
          BY <1>0, <2>1, <4>1, ClosedFacts DEF Entering
      <3> QED
        BY <3>1, <3>2
    <2> QED
      BY <1>c, <2>1, <2>2, <2>3, <2>4 DEF Entering
  <1>3. ASSUME NEW s \in Sessions,
               Authenticate(s) \/ Accept(s) \/ EnterConnect(s) \/ CheckDevice(s)
        PROVE  Entering'
    <2>1. /\ phase[s] \in Arriving
          /\ UNCHANGED <<connections, transport, command, session>>
      BY <1>3 DEF Authenticate, Accept, EnterConnect, CheckDevice, Arriving, commandVars
    <2>2. \E p \in Arriving \cup {"ended"} : phase' = [phase EXCEPT ![s] = p]
      BY <1>3 DEF Authenticate, Accept, EnterConnect, CheckDevice, Arriving, SessionTo
    <2>3. connections[DeviceOf[s]] # s
      BY <1>0, <2>1 DEF Entering, Arriving, Registered
    <2>4. \A t \in Sessions : Online(t) => Online(t)'
      BY <1>0, <2>1, <2>2 DEF TypeOK, Online, Arriving
    <2> QED
      BY <1>0, <1>c, <2>1, <2>2, <2>3, <2>4 DEF TypeOK, Entering
  <1>4. ASSUME NEW s \in Sessions,
               ConnectReturns(s) \/ ReadGrants(s) \/ Activate(s) \/ PeerLeaves(s) \/ SocketEnds(s)
        PROVE  Entering'
    <2>1. CASE Leave(s)
      BY <1>1, <1>4, <2>1
      DEF ConnectReturns, ReadGrants, Activate, PeerLeaves, SocketEnds, Arriving
    <2>2. CASE ~Leave(s)
      <3>1. /\ phase[s] \in Registered
            /\ UNCHANGED <<connections, transport, command, session>>
        BY <1>4, <2>2
        DEF ConnectReturns, ReadGrants, Activate, PeerLeaves, SocketEnds, Registered,
            commandVars
      <3>2. \E p \in Registered :
               /\ phase' = [phase EXCEPT ![s] = p]
               /\ phase[s] \in {"serving", "updating"} => p \in {"serving", "updating"}
        BY <1>4, <2>2
        DEF ConnectReturns, ReadGrants, Activate, PeerLeaves, SocketEnds, Registered,
            SessionTo
      <3>3. \A t \in Sessions : Online(t) => Online(t)'
        BY <1>0, <3>1, <3>2 DEF TypeOK, Online, Registered
      <3>4. \A t \in Sessions : phase'[t] \in Arriving => phase[t] \in Arriving
        BY <1>0, <3>2 DEF TypeOK, Arriving, Registered
      <3>5. \A t \in Sessions : phase'[t] \in Registered \/ phase'[t] = phase[t]
        BY <1>0, <3>2 DEF TypeOK
      <3> QED
        BY <1>0, <1>c, <3>1, <3>3, <3>4, <3>5 DEF Entering
    <2> QED
      BY <2>1, <2>2
  <1>5. ASSUME NEW s \in Sessions, CloseEnds(s)
        PROVE  Entering'
    <2>1. UNCHANGED <<connections, phase, command, session>>
      BY <1>5 DEF CloseEnds, commandVars
    <2> QED
      BY <1>0, <1>5, <1>c, <2>1 DEF TypeOK, Entering, Online, CloseEnds
  <1>6. ASSUME NEW r \in Revocations, DisconnectDevice(r)
        PROVE  Entering'
    <2> DEFINE d == TargetOf[r]
    <2>1. /\ connections' = [connections EXCEPT ![d] = None]
          /\ transport' = ClosedOf(d)
          /\ UNCHANGED <<phase, command, session>>
      BY <1>6 DEF DisconnectDevice, commandVars
    <2>2. ASSUME NEW t \in Sessions, phase[t] \in Arriving
          PROVE  transport'[t] = "open"
      <3>1. connections[d] # t
        <4>1. connections[d] = t => DeviceOf[t] = d
          BY <1>0 DEF Known
        <4> QED
          BY <1>0, <2>2, <4>1 DEF Entering, Arriving, Registered
      <3> QED
        BY <1>0, <2>1, <2>2, <3>1 DEF Entering, ClosedOf
    <2>3. ASSUME NEW t \in Sessions, connections'[DeviceOf[t]] = t
          PROVE  phase[t] \in Registered \/ (phase[t] = "ended" /\ transport'[t] = "closed")
      <3>1. connections[DeviceOf[t]] = t
        BY <1>0, <2>1, <2>3 DEF TypeOK
      <3> QED
        BY <1>0, <2>1, <3>1, ClosedFacts DEF Entering
    <2> QED
      BY <1>c, <2>1, <2>2, <2>3 DEF Entering, Online
  <1>7. ASSUME NEW r \in Revocations,
               Revoke(r) \/ ReadDevice(r) \/ DeleteCredential(r) \/ SaveStatus(r)
                  \/ RevokeReturns(r)
        PROVE  Entering'
    BY <1>0, <1>7
    DEF Entering, Online, commandVars, Revoke, ReadDevice, DeleteCredential, SaveStatus,
        RevokeReturns
  <1>8. ASSUME NEW k \in Commands,
               ReadReceiver(k) \/ Admit(k) \/ StartSend(k) \/ WriteFrame(k)
        PROVE  Entering'
    <2>1. UNCHANGED <<transport, phase>>
      BY <1>8 DEF ReadReceiver, Admit, StartSend, WriteFrame
    <2>2. \A d \in Devices : connections'[d] \in {connections[d], None}
      BY <1>0, <1>8 DEF TypeOK, ReadReceiver, Admit, StartSend, WriteFrame
    <2>3. \A j \in Commands : command'[j] \in {"queued", "sending"} => Online(session'[j])
      BY <1>0, <1>8
      DEF TypeOK, Entering, CommandTo, ReadReceiver, Admit, StartSend, WriteFrame
    <2> QED
      BY <1>0, <2>1, <2>2, <2>3 DEF TypeOK, Entering, Online
  <1>9. CASE Crash
    BY <1>0, <1>9 DEF TypeOK, Entering, Arriving, Crash
  <1>10. CASE UNCHANGED vars
    BY <1>0, <1>10 DEF Entering, Online, vars
  <1> QED
    BY <1>2, <1>3, <1>4, <1>5, <1>6, <1>7, <1>8, <1>9, <1>10
    DEF Next, SessionRuns, RevocationRuns, CommandRuns

-----------------------------------------------------------------------------
LEMMA InvStep == LifecycleInv /\ [Next]_vars => LifecycleInv'
  BY TypeStep, LockingStep, RowsStep, ProgressStep, KnownStep, SendingStep, EnteringStep
  DEF LifecycleInv

\* The inductive invariant of service.py:110-204 over the manager and the rows.
THEOREM DeviceInvariant == Spec => []LifecycleInv
  BY InitInv, InvStep, PTL DEF Spec

\* Every variable keeps its type, for any devices, sockets, calls and crashes.
THEOREM DeviceTypeCorrect == Spec => []TypeOK
  <1>1. LifecycleInv => TypeOK
    BY DEF LifecycleInv
  <1> QED
    BY <1>1, DeviceInvariant, PTL

\* A device that is marked revoked has no credential, however its revocation was
\* cut short (service.py:116-123).
THEOREM RevokedIsLockedOut == Spec => []RevokedHasNoCredential
  <1>1. LifecycleInv => RevokedHasNoCredential
    BY DEF LifecycleInv
  <1> QED
    BY <1>1, DeviceInvariant, PTL

\* Once revoke_device has returned its device has no credential and no session, and
\* none of its handlers an open transport but one that a failed send had dropped
\* (service.py:110-129).
THEOREM RevocationHolds == Spec => []CompletedRevocationHolds
  <1>1. LifecycleInv => CompletedRevocationHolds
    <2> SUFFICES ASSUME LifecycleInv,
                        NEW r \in Revocations, revocation[r] = "done"
                 PROVE  LET d == TargetOf[r] IN
                        /\ d \in revoked \ credentials
                        /\ connections[d] = None
                        /\ \A s \in Sessions :
                              DeviceOf[s] = d /\ phase[s] \in Registered
                                  => transport[s] # "open" \/ s \in orphaned
      BY DEF CompletedRevocationHolds
    <2>1. TargetOf[r] \in revoked /\ connections[TargetOf[r]] = None
      BY DEF LifecycleInv, Progress
    <2>2. TargetOf[r] \notin credentials
      BY <2>1 DEF LifecycleInv, RevokedHasNoCredential
    <2>3. \A s \in Sessions :
             DeviceOf[s] = TargetOf[r] /\ phase[s] \in Registered
                 => transport[s] # "open" \/ s \in orphaned
      BY <2>1, LifecycleAssumption DEF LifecycleInv, Known
    <2> QED
      BY <2>1, <2>2, <2>3
  <1> QED
    BY <1>1, DeviceInvariant, PTL

\* No session is registered for a revoked device (service.py:136-142).
THEOREM RevokedNeverRegistered == Spec => NoSessionForRevoked
  <1> USE LifecycleAssumption
  <1>1. LifecycleInv /\ [Next]_vars =>
           [\A d \in Devices :
               connections'[d] \notin {None, connections[d]} => d \notin revoked]_vars
    <2> SUFFICES ASSUME LifecycleInv, [Next]_vars, NEW d \in Devices,
                        connections'[d] # None, connections'[d] # connections[d]
                 PROVE  d \notin revoked
      BY DEF vars
    <2>0. TypeOK /\ StillPaired
      BY DEF LifecycleInv
    <2>1. ASSUME NEW s \in Sessions, Register(s)
          PROVE  d \notin revoked
      BY <2>0, <2>1 DEF TypeOK, StillPaired, Register
    <2>2. ASSUME NEW s \in Sessions, Leave(s)
          PROVE  FALSE
      BY <2>0, <2>2 DEF TypeOK, Leave
    <2>3. ASSUME NEW s \in Sessions,
                 Authenticate(s) \/ Accept(s) \/ EnterConnect(s) \/ CheckDevice(s)
                    \/ ConnectReturns(s) \/ ReadGrants(s) \/ Activate(s)
                    \/ PeerLeaves(s) \/ SocketEnds(s) \/ CloseEnds(s)
          PROVE  FALSE
      BY <2>2, <2>3
      DEF Authenticate, Accept, EnterConnect, CheckDevice, ConnectReturns, ReadGrants,
          Activate, PeerLeaves, SocketEnds, CloseEnds
    <2>4. ASSUME NEW r \in Revocations,
                 Revoke(r) \/ ReadDevice(r) \/ DeleteCredential(r) \/ SaveStatus(r)
                    \/ DisconnectDevice(r) \/ RevokeReturns(r)
          PROVE  FALSE
      BY <2>0, <2>4
      DEF TypeOK, Revoke, ReadDevice, DeleteCredential, SaveStatus, DisconnectDevice,
          RevokeReturns
    <2>5. ASSUME NEW k \in Commands,
                 ReadReceiver(k) \/ Admit(k) \/ StartSend(k) \/ WriteFrame(k)
          PROVE  FALSE
      BY <2>0, <2>5 DEF TypeOK, ReadReceiver, Admit, StartSend, WriteFrame
    <2>6. CASE Crash
      BY <2>6 DEF Crash
    <2>7. CASE UNCHANGED vars
      BY <2>7 DEF vars
    <2> QED
      BY <2>1, <2>3, <2>4, <2>5, <2>6, <2>7
      DEF Next, SessionRuns, RevocationRuns, CommandRuns
  <1> QED
    BY <1>1, DeviceInvariant, PTL DEF Spec, NoSessionForRevoked

\* No command is written to a device after revoke_device has returned, whenever it
\* was admitted (service.py:182-204; memory.py:260-269).
THEOREM RevokedIsNotCommanded == Spec => NoCommandAfterRevocation
  <1>1. LifecycleInv /\ [Next]_vars =>
           [\A k \in Commands :
               command[k] # "sent" /\ command'[k] = "sent" =>
                   \A r \in Revocations :
                       TargetOf[r] = ReceiverOf[k] => revocation[r] # "done"]_vars
    <2> SUFFICES ASSUME LifecycleInv, [Next]_vars, NEW k \in Commands,
                        command[k] # "sent", command'[k] = "sent",
                        NEW r \in Revocations, TargetOf[r] = ReceiverOf[k]
                 PROVE  revocation[r] # "done"
      BY DEF vars
    <2>0. TypeOK /\ Sending
      BY DEF LifecycleInv
    <2>1. ASSUME NEW j \in Commands, WriteFrame(j)
          PROVE  revocation[r] # "done"
      <3>1. j = k /\ command[k] = "sending" /\ transport[session[k]] # "closed"
        BY <2>0, <2>1 DEF TypeOK, WriteFrame, CommandTo
      <3> QED
        BY <2>0, <3>1 DEF Sending
    <2>2. ASSUME NEW j \in Commands, ReadReceiver(j) \/ Admit(j) \/ StartSend(j)
          PROVE  FALSE
      BY <2>0, <2>2 DEF TypeOK, ReadReceiver, Admit, StartSend, CommandTo
    <2>3. ASSUME NEW s \in Sessions,
                 Authenticate(s) \/ Accept(s) \/ EnterConnect(s) \/ CheckDevice(s)
                    \/ Register(s) \/ ConnectReturns(s) \/ ReadGrants(s) \/ Activate(s)
                    \/ PeerLeaves(s) \/ SocketEnds(s) \/ CloseEnds(s)
          PROVE  FALSE
      BY <2>3
      DEF commandVars, Leave, Authenticate, Accept, EnterConnect, CheckDevice, Register,
          ConnectReturns, ReadGrants, Activate, PeerLeaves, SocketEnds, CloseEnds
    <2>4. ASSUME NEW q \in Revocations,
                 Revoke(q) \/ ReadDevice(q) \/ DeleteCredential(q) \/ SaveStatus(q)
                    \/ DisconnectDevice(q) \/ RevokeReturns(q)
          PROVE  FALSE
      BY <2>4
      DEF commandVars, Revoke, ReadDevice, DeleteCredential, SaveStatus, DisconnectDevice,
          RevokeReturns
    <2>5. CASE Crash
      BY <2>0, <2>5 DEF TypeOK, Crash
    <2>6. CASE UNCHANGED vars
      BY <2>6 DEF vars
    <2> QED
      BY <2>1, <2>2, <2>3, <2>4, <2>5, <2>6
      DEF Next, SessionRuns, RevocationRuns, CommandRuns
  <1> QED
    BY <1>1, DeviceInvariant, PTL DEF Spec, NoCommandAfterRevocation

-----------------------------------------------------------------------------
(* The lock *)

\* The tasks between their await of the lock and its release.
SessionInLock == {"locking", "checked", "registering"}
RevocationInLock == {"waiting", "active", "deleted", "saved", "closing"}
Queued ==
    {s \in Sessions : phase[s] \in SessionInLock}
        \cup {r \in Revocations : revocation[r] \in RevocationInLock}

\* Exactly the connections and revocations under way are in the queue of
\* _lifecycle_lock, each once: none waits behind a task that has ended
\* (service.py:110-129, 136-142).
LockServesTasks == Queues(lifecycle, Queued)

\* A session, or a revocation, that changes phase changes its own place only.
LEMMA SessionQueued ==
    ASSUME TypeOK, NEW s \in Sessions, NEW p, SessionTo(s, p), UNCHANGED revocation
    PROVE  Queued' = IF p \in SessionInLock THEN Queued \cup {s} ELSE Queued \ {s}
  <1>1. /\ \A t \in Sessions : phase'[t] = IF t = s THEN p ELSE phase[t]
        /\ s \notin Revocations
    BY LifecycleAssumption DEF TypeOK, SessionTo
  <1> QED
    BY <1>1 DEF Queued

LEMMA RevocationQueued ==
    ASSUME TypeOK, NEW r \in Revocations, NEW p, RevocationTo(r, p), UNCHANGED phase
    PROVE  Queued' = IF p \in RevocationInLock THEN Queued \cup {r} ELSE Queued \ {r}
  <1>1. /\ \A t \in Revocations : revocation'[t] = IF t = r THEN p ELSE revocation[t]
        /\ r \notin Sessions
    BY LifecycleAssumption DEF TypeOK, RevocationTo
  <1> QED
    BY <1>1 DEF Queued

\* A task joins the queue, stays where it is, or leaves it.
LEMMA TaskJoins ==
    ASSUME TypeOK, LockServesTasks, NEW t \in Tasks, t \notin Queued, Acquire(t),
           Queued' = Queued \cup {t}
    PROVE  LockServesTasks'
  <1>1. lifecycle \in Seq(Tasks)
    BY DEF TypeOK, Tasks
  <1> QED
    BY <1>1, JoinQueue DEF LockServesTasks, Acquire

LEMMA TaskLeaves ==
    ASSUME TypeOK, LockServesTasks, NEW t \in Tasks, Release(t), Queued' = Queued \ {t}
    PROVE  LockServesTasks'
  <1>1. /\ lifecycle \in Seq(Tasks)
        /\ lifecycle # <<>> /\ Head(lifecycle) = t /\ lifecycle' = Tail(lifecycle)
    BY DEF TypeOK, Tasks, Release, Holds
  <1> QED
    BY <1>1, LeaveQueue DEF LockServesTasks

LEMMA TaskStays ==
    ASSUME LockServesTasks, UNCHANGED lifecycle, Queued' = Queued
    PROVE  LockServesTasks'
  BY DEF LockServesTasks

LEMMA SessionLockStep ==
    ASSUME LifecycleInv, LockServesTasks, NEW s \in Sessions,
           \/ Authenticate(s) \/ SessionRuns(s) \/ ReadGrants(s) \/ PeerLeaves(s)
           \/ CloseEnds(s)
    PROVE  LockServesTasks'
  <1>0. TypeOK /\ s \in Tasks
    BY DEF LifecycleInv, Tasks
  <1>1. CASE EnterConnect(s)
    <2>1. /\ SessionTo(s, "locking") /\ Acquire(s) /\ UNCHANGED revocation
          /\ s \notin Queued
      BY <1>1, LifecycleAssumption DEF EnterConnect, Queued, SessionInLock
    <2>2. Queued' = Queued \cup {s}
      BY <1>0, <2>1, SessionQueued DEF SessionInLock
    <2> QED
      BY <1>0, <2>1, <2>2, TaskJoins
  <1>2. ASSUME NEW p \in {"ended", "greeted"}, SessionTo(s, p), Release(s),
               UNCHANGED revocation
        PROVE  LockServesTasks'
    <2>1. Queued' = Queued \ {s}
      BY <1>0, <1>2, SessionQueued DEF SessionInLock
    <2> QED
      BY <1>0, <1>2, <2>1, TaskLeaves
  <1>3. ASSUME NEW p, SessionTo(s, p), UNCHANGED <<lifecycle, revocation>>,
               p \in SessionInLock <=> phase[s] \in SessionInLock
        PROVE  LockServesTasks'
    <2>1. s \in Queued <=> p \in SessionInLock
      BY <1>3, LifecycleAssumption DEF Queued
    <2>2. Queued' = Queued
      BY <1>0, <1>3, <2>1, SessionQueued
    <2> QED
      BY <1>3, <2>2, TaskStays
  <1>4. CASE CheckDevice(s)
    <2>1. CASE SessionTo(s, "checked") /\ UNCHANGED lifecycle
      BY <1>3, <1>4, <2>1 DEF CheckDevice, SessionInLock
    <2>2. CASE SessionTo(s, "ended") /\ Release(s)
      BY <1>2, <1>4, <2>2 DEF CheckDevice
    <2> QED
      BY <1>4, <2>1, <2>2 DEF CheckDevice
  <1>5. CASE ConnectReturns(s)
    BY <1>2, <1>5 DEF ConnectReturns
  <1>6. CASE Authenticate(s) \/ Accept(s) \/ Register(s)
    BY <1>3, <1>6 DEF Authenticate, Accept, Register, SessionInLock
  <1>7. CASE Activate(s) \/ SocketEnds(s) \/ ReadGrants(s) \/ PeerLeaves(s)
    BY <1>3, <1>7 DEF Activate, SocketEnds, ReadGrants, PeerLeaves, Leave, SessionInLock
  <1>8. CASE CloseEnds(s)
    BY <1>8, TaskStays DEF CloseEnds, Queued
  <1> QED
    BY <1>1, <1>4, <1>5, <1>6, <1>7, <1>8 DEF SessionRuns

LEMMA RevocationLockStep ==
    ASSUME LifecycleInv, LockServesTasks, NEW r \in Revocations,
           Revoke(r) \/ RevocationRuns(r)
    PROVE  LockServesTasks'
  <1>0. TypeOK /\ r \in Tasks
    BY DEF LifecycleInv, Tasks
  <1>1. CASE Revoke(r)
    <2>1. /\ RevocationTo(r, "waiting") /\ Acquire(r) /\ UNCHANGED phase
          /\ r \notin Queued
      BY <1>1, LifecycleAssumption DEF Revoke, Queued, RevocationInLock
    <2>2. Queued' = Queued \cup {r}
      BY <1>0, <2>1, RevocationQueued DEF RevocationInLock
    <2> QED
      BY <1>0, <2>1, <2>2, TaskJoins
  <1>2. ASSUME NEW p \in {"done", "failed"}, RevocationTo(r, p), Release(r),
               UNCHANGED phase
        PROVE  LockServesTasks'
    <2>1. Queued' = Queued \ {r}
      BY <1>0, <1>2, RevocationQueued DEF RevocationInLock
    <2> QED
      BY <1>0, <1>2, <2>1, TaskLeaves
  <1>3. ASSUME NEW p \in RevocationInLock, RevocationTo(r, p),
               UNCHANGED <<lifecycle, phase>>, revocation[r] \in RevocationInLock
        PROVE  LockServesTasks'
    <2>1. r \in Queued
      BY <1>3 DEF Queued
    <2>2. Queued' = Queued
      BY <1>0, <1>3, <2>1, RevocationQueued
    <2> QED
      BY <1>3, <2>2, TaskStays
  <1>4. CASE Fails(r) /\ UNCHANGED phase
    BY <1>2, <1>4 DEF Fails
  <1>5. CASE RevokeReturns(r)
    BY <1>2, <1>5 DEF RevokeReturns
  <1>6. CASE ~Fails(r) /\ (ReadDevice(r) \/ DeleteCredential(r) \/ SaveStatus(r)
                              \/ DisconnectDevice(r))
    BY <1>3, <1>6
    DEF ReadDevice, DeleteCredential, SaveStatus, DisconnectDevice, RevocationInLock
  <1>7. CASE Fails(r) /\ (ReadDevice(r) \/ DeleteCredential(r) \/ SaveStatus(r))
    BY <1>4, <1>7 DEF ReadDevice, DeleteCredential, SaveStatus
  <1>8. DisconnectDevice(r) => ~Fails(r)
    BY <1>0, LifecycleAssumption DEF DisconnectDevice, Fails, RevocationTo, TypeOK
  <1> QED
    BY <1>1, <1>5, <1>6, <1>7, <1>8 DEF RevocationRuns

\* Through errors and crashes the lock is held and awaited by exactly the tasks under
\* way: it is the safety half of RevocationReturns.
THEOREM LifecycleLockIsExact == Spec => []LockServesTasks
  <1>1. Init => LockServesTasks
    BY FreeLock
    DEF Init, LockServesTasks, Queued, SessionInLock, RevocationInLock
  <1>2. ASSUME LifecycleInv, LockServesTasks, [Next]_vars
        PROVE  LockServesTasks'
    <2>1. CASE UNCHANGED vars
      BY <1>2, <2>1, TaskStays DEF vars, Queued
    <2>2. ASSUME NEW k \in Commands, ReadReceiver(k) \/ CommandRuns(k)
          PROVE  LockServesTasks'
      BY <1>2, <2>2, TaskStays
      DEF ReadReceiver, CommandRuns, Admit, StartSend, WriteFrame, Queued
    <2>3. CASE Crash
      <3>1. lifecycle' = <<>> /\ Queued' = {}
        BY <2>3 DEF Crash, Queued, SessionInLock, RevocationInLock
      <3> QED
        BY <3>1, FreeLock DEF LockServesTasks
    <2> QED
      BY <1>2, <2>1, <2>2, <2>3, SessionLockStep, RevocationLockStep DEF Next
  <1> QED
    BY DeviceInvariant, <1>1, <1>2, PTL DEF Spec

-----------------------------------------------------------------------------
(* Refinement of DeviceAccess *)

Stages == [d \in Devices |-> StageOf(d)]
Doors == [s \in Sessions |-> PlaceOf(transport[s], phase[s])]
Delivered == [k \in Commands |-> IF command[k] = "sent" THEN session[k] ELSE None]

\* A step that leaves the mapped state alone is a stutter of the abstract specification.
LEMMA Stutters ==
    ASSUME UNCHANGED <<Stages, connections, Doors, orphaned, Delivered>>
    PROVE  UNCHANGED Access!vars
  BY DEF Access!vars, Stages, Doors, Delivered

LEMMA Places ==
    /\ \A p : PlaceOf("closing", p) = "leaving" /\ PlaceOf("closed", p) = "out"
    /\ PlaceOf("open", "new") = "outside"
    /\ \A p \in Arriving : p # "new" => PlaceOf("open", p) = "inside"
    /\ \A p \in {"registering", "greeted", "granting"} : PlaceOf("open", p) = "entered"
    /\ \A p \in {"serving", "updating"} : PlaceOf("open", p) = "served"
    /\ PlaceOf("open", "ended") = "out"
  BY DEF PlaceOf, PlaceIn, Arriving

\* What a door tells of its session, and the other way round.
LEMMA DoorFacts ==
    ASSUME LifecycleInv, NEW s \in Sessions
    PROVE  /\ Doors[s] = PlaceOf(transport[s], phase[s])
           /\ transport[s] \in {"open", "closing", "closed"}
           /\ phase[s] = "new" <=> Doors[s] = "outside"
           /\ phase[s] \in Arriving \ {"new"} <=> Doors[s] = "inside"
           /\ transport[s] = "closing" <=> Doors[s] = "leaving"
           /\ Doors[s] \in {"entered", "served"} <=>
                 transport[s] = "open" /\ phase[s] \in Registered
           /\ Doors[s] = "served" <=>
                 transport[s] = "open" /\ phase[s] \in {"serving", "updating"}
  <1>1. /\ transport[s] \in {"open", "closing", "closed"}
        /\ phase[s] \in SessionPhases
        /\ phase[s] \in Arriving => transport[s] = "open"
    BY DEF LifecycleInv, TypeOK, Entering
  <1>2. Doors[s] = PlaceOf(transport[s], phase[s])
    BY DEF Doors
  <1>3. CASE transport[s] \in {"closing", "closed"}
    BY <1>1, <1>2, <1>3, Places DEF Arriving
  <1>4. CASE transport[s] = "open"
    BY <1>1, <1>2, <1>4, Places DEF Arriving, SessionPhases, Registered
  <1> QED
    BY <1>1, <1>2, <1>3, <1>4

\* What the stage of a device tells of the rows.
LEMMA StageFacts ==
    ASSUME LifecycleInv, NEW d \in Devices
    PROVE  /\ Stages[d] = StageOf(d)
           /\ Barred(d) => d \in revoked
           /\ Stages[d] = "barred" <=> Barred(d)
           /\ Stages[d] \in {"withdrawn", "barred"} <=> d \in revoked
           /\ Stages[d] = "granted" <=> d \in credentials
           /\ Stages[d] \in {"granted", "locked_out", "withdrawn", "barred"}
  BY DEF LifecycleInv, Progress, RevokedHasNoCredential, Stages, StageOf, Barred

\* Closing the connection of a device shows its current session out.
LEMMA ClosedIsShownOut ==
    ASSUME LifecycleInv, NEW d \in Devices, NEW s \in Sessions
    PROVE  PlaceOf(ClosedOf(d)[s], phase[s]) =
              IF connections[d] = s /\ Doors[s] \in {"entered", "served"}
              THEN "leaving" ELSE Doors[s]
  <1>1. connections[d] = s /\ transport[s] = "open" => phase[s] \in Registered
    BY DEF LifecycleInv, Entering, Known
  <1>2. CASE connections[d] = s /\ transport[s] = "open"
    BY <1>1, <1>2, DoorFacts, Places DEF ClosedOf
  <1>3. CASE ~(connections[d] = s /\ transport[s] = "open")
    BY <1>3, DoorFacts DEF ClosedOf
  <1> QED
    BY <1>2, <1>3

\* A handler that moves on changes its own door only.
LEMMA OneDoor ==
    ASSUME TypeOK, NEW s \in Sessions, NEW p, SessionTo(s, p), UNCHANGED transport
    PROVE  Doors' = [Doors EXCEPT ![s] = PlaceOf(transport[s], p)]
  BY DEF TypeOK, SessionTo, Doors

LEMMA SameRows ==
    ASSUME UNCHANGED <<credentials, revoked>>,
           \A r \in Revocations : revocation'[r] = "done" <=> revocation[r] = "done"
    PROVE  Stages' = Stages
  BY DEF Stages, StageOf, Barred

\* While it arrives a socket is identified, denied, or seen to do nothing.
LEMMA ArrivalRefines ==
    ASSUME LifecycleInv, NEW s \in Sessions,
           Authenticate(s) \/ Accept(s) \/ EnterConnect(s) \/ CheckDevice(s)
    PROVE  [Access!Identify(s) \/ Access!Deny(s)]_(Access!vars)
  <1> USE LifecycleAssumption
  <1>1. /\ UNCHANGED <<connections, transport, orphaned, command, session, credentials,
                       revoked, revocation>>
        /\ phase[s] \in Arriving
    BY DEF Authenticate, Accept, EnterConnect, CheckDevice, Arriving, commandVars, durable
  <1>2. Stages' = Stages /\ Delivered' = Delivered
    BY <1>1, SameRows DEF Delivered
  <1>3. transport[s] = "open" /\ Doors[s] \in {"outside", "inside"}
    BY <1>1, DoorFacts DEF LifecycleInv, Entering
  <1>4. CASE SessionTo(s, "ended")
    <2>1. Doors' = [Doors EXCEPT ![s] = "out"]
      BY <1>1, <1>3, <1>4, OneDoor, Places DEF LifecycleInv
    <2>2. Access!Deny(s)
      BY <1>1, <1>2, <1>3, <2>1
      DEF Access!Deny, Access!Moves, Stages, Doors, Delivered
    <2> QED
      BY <2>2
  <1>5. CASE Authenticate(s) /\ ~SessionTo(s, "ended")
    <2>1. /\ phase[s] = "new" /\ DeviceOf[s] \in credentials
          /\ SessionTo(s, "authenticating")
      BY <1>5 DEF Authenticate
    <2>2. Doors[s] = "outside" /\ Doors' = [Doors EXCEPT ![s] = "inside"]
      BY <1>1, <1>3, <2>1, OneDoor, DoorFacts, Places DEF LifecycleInv, Arriving
    <2>3. Stages[DeviceOf[s]] = "granted"
      BY <2>1, StageFacts
    <2>4. Access!Identify(s)
      BY <1>1, <1>2, <2>2, <2>3
      DEF Access!Identify, Access!Moves, Stages, Doors, Delivered
    <2> QED
      BY <2>4
  <1>6. CASE ~Authenticate(s) /\ ~SessionTo(s, "ended")
    <2>1. PICK p \in Arriving \ {"new"} : SessionTo(s, p) /\ phase[s] # "new"
      BY <1>6 DEF Accept, EnterConnect, CheckDevice, Arriving
    <2>2. Doors[s] = "inside" /\ Doors' = [Doors EXCEPT ![s] = "inside"]
      BY <1>1, <1>3, <2>1, OneDoor, DoorFacts, Places DEF LifecycleInv
    <2>3. Doors' = Doors
      BY <2>2 DEF Doors
    <2> QED
      BY <1>1, <1>2, <2>3, Stutters
  <1> QED
    BY <1>4, <1>5, <1>6

\* manager.connect lets the session in and shows the one before it out.
LEMMA RegisterRefines ==
    ASSUME LifecycleInv, NEW s \in Sessions, Register(s)
    PROVE  Access!Enter(s)
  <1> USE LifecycleAssumption
  <1> DEFINE d == DeviceOf[s]
  <1>1. /\ UNCHANGED <<orphaned, command, session, credentials, revoked, revocation>>
        /\ phase[s] = "checked" /\ phase' = [phase EXCEPT ![s] = "registering"]
        /\ transport' = ClosedOf(d)
        /\ connections' = [connections EXCEPT ![d] = s]
    BY DEF Register, SessionTo, commandVars, durable
  <1>2. Stages' = Stages /\ Delivered' = Delivered
    BY <1>1, SameRows DEF Delivered
  <1>3. Doors[s] = "inside"
    BY <1>1, DoorFacts DEF Arriving
  <1>4. Stages[d] \in {"granted", "locked_out"}
    <2>1. d \notin revoked
      BY <1>1 DEF LifecycleInv, StillPaired
    <2> QED
      BY <2>1, StageFacts
  <1>5. Doors' = [[t \in Sessions |->
                      IF connections[d] = t /\ Doors[t] \in {"entered", "served"}
                      THEN "leaving" ELSE Doors[t]] EXCEPT ![s] = "entered"]
    <2>1. PlaceOf(transport'[s], phase'[s]) = "entered"
      <3>1. transport[s] = "open" /\ connections[d] # s
        BY <1>1 DEF LifecycleInv, Entering, Arriving, Registered
      <3>2. transport'[s] = "open" /\ phase'[s] = "registering"
        BY <1>1, <3>1 DEF ClosedOf, LifecycleInv, TypeOK
      <3> QED
        BY <3>2, Places
    <2>2. ASSUME NEW t \in Sessions, t # s
          PROVE  PlaceOf(transport'[t], phase'[t]) =
                    IF connections[d] = t /\ Doors[t] \in {"entered", "served"}
                    THEN "leaving" ELSE Doors[t]
      <3>1. transport'[t] = ClosedOf(d)[t] /\ phase'[t] = phase[t]
        BY <1>1, <2>2 DEF LifecycleInv, TypeOK
      <3> QED
        BY <3>1, ClosedIsShownOut
    <2>3. Doors' = [t \in Sessions |-> PlaceOf(transport'[t], phase'[t])]
      BY DEF Doors
    <2> QED
      BY <2>1, <2>2, <2>3
  <1> QED
    BY <1>1, <1>2, <1>3, <1>4, <1>5
    DEF Access!Enter, Access!ShownOut, Stages, Doors, Delivered

\* A handler that leaves departs, whatever its transport was.
LEMMA LeaveRefines ==
    ASSUME LifecycleInv, NEW s \in Sessions, phase[s] \in Registered, Leave(s)
    PROVE  Access!Depart(s)
  <1>1. /\ UNCHANGED <<orphaned, command, session, credentials, revoked, revocation>>
        /\ phase' = [phase EXCEPT ![s] = "ended"]
        /\ transport' = [transport EXCEPT ![s] = "closed"]
        /\ connections' \in
              {connections, [d \in Devices |-> IF connections[d] = s THEN None ELSE connections[d]]}
    BY DEF Leave, SessionTo, commandVars, durable
  <1>2. Stages' = Stages /\ Delivered' = Delivered
    BY <1>1, SameRows DEF Delivered
  <1>3. Doors[s] \notin {"outside", "inside"}
    BY DoorFacts DEF Registered, Arriving
  <1>4. Doors' = [Doors EXCEPT ![s] = "out"]
    BY <1>1, Places DEF Doors, LifecycleInv, TypeOK
  <1> QED
    BY <1>1, <1>2, <1>3, <1>4
    DEF Access!Depart, Access!Moves, Stages, Doors, Delivered

\* The end of a close handshake is a departure too.
LEMMA CloseEndsRefines ==
    ASSUME LifecycleInv, NEW s \in Sessions, CloseEnds(s)
    PROVE  Access!Depart(s)
  <1>1. /\ UNCHANGED <<orphaned, command, session, credentials, revoked, revocation, phase,
                       connections>>
        /\ transport[s] = "closing"
        /\ transport' = [transport EXCEPT ![s] = "closed"]
    BY DEF CloseEnds, commandVars, durable
  <1>2. Stages' = Stages /\ Delivered' = Delivered
    BY <1>1, SameRows DEF Delivered
  <1>3. Doors[s] = "leaving"
    BY <1>1, DoorFacts
  <1>4. Doors' = [Doors EXCEPT ![s] = "out"]
    BY <1>1, Places DEF Doors, LifecycleInv, TypeOK
  <1> QED
    BY <1>1, <1>2, <1>3, <1>4
    DEF Access!Depart, Access!Moves, Stages, Doors, Delivered

\* A handler that stays is activated, or seen to do nothing.
LEMMA HandlerRefines ==
    ASSUME LifecycleInv, NEW s \in Sessions,
           ConnectReturns(s) \/ ReadGrants(s) \/ Activate(s) \/ PeerLeaves(s) \/ SocketEnds(s)
    PROVE  [Access!Depart(s) \/ Access!Activate(s)]_(Access!vars)
  <1> USE LifecycleAssumption
  <1>0. phase[s] \in Registered
    BY DEF ConnectReturns, ReadGrants, Activate, PeerLeaves, SocketEnds, Registered
  <1>1. CASE Leave(s)
    BY <1>0, <1>1, LeaveRefines
  <1>2. CASE ~Leave(s)
    <2>1. UNCHANGED <<connections, transport, orphaned, command, session, credentials,
                      revoked, revocation>>
      BY <1>2
      DEF ConnectReturns, ReadGrants, Activate, PeerLeaves, SocketEnds, commandVars, durable
    <2>2. Stages' = Stages /\ Delivered' = Delivered
      BY <2>1, SameRows DEF Delivered
    <2>3. PICK p \in Registered :
             /\ SessionTo(s, p)
             /\ \/ {phase[s], p} \subseteq {"registering", "greeted", "granting"}
                \/ {phase[s], p} \subseteq {"serving", "updating"}
                \/ phase[s] = "granting" /\ p = "serving" /\ connections[DeviceOf[s]] = s
      BY <1>2 DEF ConnectReturns, ReadGrants, Activate, PeerLeaves, SocketEnds, Registered
    <2>4. Doors' = [Doors EXCEPT ![s] = PlaceOf(transport[s], p)]
      BY <2>1, <2>3, OneDoor DEF LifecycleInv
    <2>5. CASE PlaceOf(transport[s], p) = Doors[s]
      <3>1. Doors' = Doors
        BY <2>4, <2>5 DEF Doors
      <3> QED
        BY <2>1, <2>2, <3>1, Stutters
    <2>6. CASE PlaceOf(transport[s], p) # Doors[s]
      <3>1. /\ transport[s] = "open" /\ phase[s] = "granting" /\ p = "serving"
            /\ connections[DeviceOf[s]] = s
        BY <2>3, <2>6, DoorFacts, Places
      <3>2. Doors[s] = "entered" /\ PlaceOf(transport[s], p) = "served"
        BY <3>1, DoorFacts, Places
      <3>3. Access!Activate(s)
        BY <2>1, <2>2, <2>4, <3>1, <3>2
        DEF Access!Activate, Access!Moves, Stages, Doors, Delivered
      <3> QED
        BY <3>3
    <2> QED
      BY <2>5, <2>6
  <1> QED
    BY <1>1, <1>2

\* Of a revocation the effects are seen: on the credential, on the row, on the
\* session, and that it has returned.
LEMMA RevocationRefines ==
    ASSUME LifecycleInv, NEW r \in Revocations, Revoke(r) \/ RevocationRuns(r)
    PROVE  [Access!Next]_(Access!vars)
  <1> USE LifecycleAssumption
  <1> DEFINE d == TargetOf[r]
  <1>0. TypeOK
    BY DEF LifecycleInv
  <1>1. ASSUME UNCHANGED <<credentials, revoked, connections, transport>>,
               revocation[r] # "done", revocation'[r] # "done"
        PROVE  UNCHANGED Access!vars
    <2>1. UNCHANGED <<phase, orphaned, command, session>>
      BY DEF Revoke, RevocationRuns, ReadDevice, DeleteCredential, SaveStatus,
             DisconnectDevice, RevokeReturns, commandVars
    <2>2. \A q \in Revocations : q # r => revocation'[q] = revocation[q]
      BY <1>0
      DEF TypeOK, Revoke, RevocationRuns, ReadDevice, DeleteCredential, SaveStatus,
          DisconnectDevice, RevokeReturns, RevocationTo, Fails
    <2>3. Stages' = Stages
      BY <1>1, <2>2, SameRows
    <2> QED
      BY <1>1, <2>1, <2>3, Stutters DEF Doors, Delivered
  <1>2. CASE Revoke(r) \/ ReadDevice(r)
    BY <1>0, <1>1, <1>2 DEF TypeOK, Revoke, ReadDevice, RevocationTo, Fails, durable
  <1>3. CASE DeleteCredential(r)
    <2>1. /\ UNCHANGED <<revoked, connections, transport, phase, orphaned, command, session>>
          /\ \A q \in Revocations : revocation'[q] = "done" <=> revocation[q] = "done"
      BY <1>0, <1>3 DEF TypeOK, DeleteCredential, RevocationTo, Fails, commandVars
    <2>2. CASE credentials' = credentials
      BY <1>0, <1>1, <1>3, <2>1, <2>2 DEF TypeOK, DeleteCredential, RevocationTo, Fails
    <2>3. CASE credentials' # credentials
      <3>1. credentials' = credentials \ {d} /\ d \in credentials
        BY <1>3, <2>3 DEF DeleteCredential
      <3>2. Stages[d] = "granted"
        BY <3>1, StageFacts
      <3>3. \A e \in Devices : Barred(e)' <=> Barred(e)
        BY <2>1 DEF Barred
      <3>4. d \notin revoked /\ ~Barred(d)
        BY <3>1, StageFacts DEF LifecycleInv, RevokedHasNoCredential
      <3>5. Stages' = [Stages EXCEPT ![d] = "locked_out"]
        BY <2>1, <3>1, <3>3, <3>4 DEF Stages, StageOf
      <3>6. UNCHANGED <<connections, Doors, orphaned, Delivered>>
        BY <2>1 DEF Doors, Delivered
      <3>7. Access!LockOut(d)
        BY <3>2, <3>5, <3>6 DEF Access!LockOut, Access!AccessTo, Stages, Doors, Delivered
      <3> QED
        BY <3>7 DEF Access!Next
    <2> QED
      BY <2>2, <2>3
  <1>4. CASE SaveStatus(r)
    <2>1. /\ UNCHANGED <<credentials, connections, transport, phase, orphaned, command, session>>
          /\ \A q \in Revocations : revocation'[q] = "done" <=> revocation[q] = "done"
      BY <1>0, <1>4 DEF TypeOK, SaveStatus, RevocationTo, Fails, commandVars
    <2>2. CASE revoked' = revoked
      BY <1>0, <1>1, <1>4, <2>1, <2>2 DEF TypeOK, SaveStatus, RevocationTo, Fails
    <2>3. CASE revoked' # revoked
      <3>1. revoked' = revoked \cup {d} /\ d \notin revoked
        BY <1>4, <2>3 DEF SaveStatus
      <3>2. d \notin credentials
        BY <1>4 DEF LifecycleInv, Progress, SaveStatus
      <3>3. Stages[d] = "locked_out"
        BY <3>1, <3>2, StageFacts
      <3>4. \A e \in Devices : Barred(e)' <=> Barred(e)
        BY <2>1 DEF Barred
      <3>5. ~Barred(d)
        BY <3>1, StageFacts
      <3>6. Stages' = [Stages EXCEPT ![d] = "withdrawn"]
        BY <2>1, <3>1, <3>4, <3>5 DEF Stages, StageOf
      <3>7. UNCHANGED <<connections, Doors, orphaned, Delivered>>
        BY <2>1 DEF Doors, Delivered
      <3>8. Access!Withdraw(d)
        BY <3>3, <3>6, <3>7 DEF Access!Withdraw, Access!AccessTo, Stages, Doors, Delivered
      <3> QED
        BY <3>8 DEF Access!Next
    <2> QED
      BY <2>2, <2>3
  <1>5. CASE DisconnectDevice(r)
    <2>1. /\ UNCHANGED <<credentials, revoked, phase, orphaned, command, session>>
          /\ connections' = [connections EXCEPT ![d] = None]
          /\ transport' = ClosedOf(d)
          /\ \A q \in Revocations : revocation'[q] = "done" <=> revocation[q] = "done"
      BY <1>0, <1>5 DEF TypeOK, DisconnectDevice, RevocationTo, commandVars, durable
    <2>2. Stages' = Stages /\ Delivered' = Delivered
      BY <2>1, SameRows DEF Delivered
    <2>3. Stages[d] \in {"withdrawn", "barred"}
      BY <1>5, StageFacts DEF LifecycleInv, Progress, DisconnectDevice
    <2>4. Doors' = [s \in Sessions |->
                       IF connections[d] = s /\ Doors[s] \in {"entered", "served"}
                       THEN "leaving" ELSE Doors[s]]
      <3>1. Doors' = [s \in Sessions |-> PlaceOf(ClosedOf(d)[s], phase[s])]
        BY <2>1 DEF Doors
      <3> QED
        BY <3>1, ClosedIsShownOut
    <2>5. Access!Expel(d)
      BY <2>1, <2>2, <2>3, <2>4
      DEF Access!Expel, Access!ShownOut, Stages, Doors, Delivered
    <2> QED
      BY <2>5 DEF Access!Next
  <1>6. CASE RevokeReturns(r)
    <2>1. /\ UNCHANGED <<credentials, revoked, connections, transport, phase, orphaned,
                         command, session>>
          /\ revocation[r] = "closing"
          /\ revocation' = [revocation EXCEPT ![r] = "done"]
      BY <1>6 DEF RevokeReturns, RevocationTo, commandVars, durable
    <2>2. UNCHANGED <<connections, Doors, orphaned, Delivered>>
      BY <2>1 DEF Doors, Delivered
    <2>3. d \in revoked /\ connections[d] = None
      BY <2>1 DEF LifecycleInv, Progress
    <2>4. \A e \in Devices : Barred(e)' <=> Barred(e) \/ e = d
      BY <1>0, <2>1 DEF TypeOK, Barred
    <2>5. CASE Barred(d)
      <3>1. Stages' = Stages
        BY <2>1, <2>4, <2>5 DEF Stages, StageOf
      <3> QED
        BY <2>2, <3>1, Stutters
    <2>6. CASE ~Barred(d)
      <3>1. Stages[d] = "withdrawn"
        BY <2>3, <2>6, StageFacts
      <3>2. Stages' = [Stages EXCEPT ![d] = "barred"]
        BY <2>1, <2>4 DEF Stages, StageOf
      <3>3. ASSUME NEW s \in Sessions, DeviceOf[s] = d
            PROVE  /\ Doors[s] # "leaving"
                   /\ Doors[s] \in {"entered", "served"} => s \in orphaned
        <4>1. transport[s] # "closing"
          BY <1>6, <3>3 DEF RevokeReturns, CloseAwaited
        <4>2. transport[s] = "open" /\ phase[s] \in Registered => s \in orphaned
          BY <2>3, <3>3 DEF LifecycleInv, Known
        <4> QED
          BY <4>1, <4>2, DoorFacts
      <3>4. Access!Bar(d)
        BY <2>2, <2>3, <3>1, <3>2, <3>3
        DEF Access!Bar, Access!AccessTo, Stages, Doors, Delivered
      <3> QED
        BY <3>4 DEF Access!Next
    <2> QED
      BY <2>5, <2>6
  <1> QED
    BY <1>2, <1>3, <1>4, <1>5, <1>6 DEF RevocationRuns

\* Of a command the write is seen, or the session it loses.
LEMMA CommandRefines ==
    ASSUME LifecycleInv, NEW k \in Commands, ReadReceiver(k) \/ CommandRuns(k)
    PROVE  [Access!Next]_(Access!vars)
  <1> USE LifecycleAssumption
  <1> DEFINE d == ReceiverOf[k]
  <1>0. TypeOK
    BY DEF LifecycleInv
  <1>1. /\ UNCHANGED <<credentials, revoked, revocation, transport, phase>>
        /\ Stages' = Stages /\ Doors' = Doors
    <2>1. UNCHANGED <<credentials, revoked, revocation, transport, phase>>
      BY DEF ReadReceiver, CommandRuns, Admit, StartSend, WriteFrame, durable
    <2> QED
      BY <2>1, SameRows DEF Doors
  <1>2. CASE ReadReceiver(k) \/ Admit(k) \/ StartSend(k)
    <2>1. UNCHANGED <<connections, orphaned>>
      BY <1>2 DEF ReadReceiver, Admit, StartSend
    <2>2. \A j \in Commands : command'[j] = "sent" <=> command[j] = "sent"
      BY <1>0, <1>2 DEF TypeOK, ReadReceiver, Admit, StartSend, CommandTo
    <2>3. \A j \in Commands : command[j] = "sent" => session'[j] = session[j]
      BY <1>0, <1>2 DEF TypeOK, ReadReceiver, Admit, StartSend
    <2>4. Delivered' = Delivered
      BY <2>2, <2>3 DEF Delivered
    <2> QED
      BY <1>1, <2>1, <2>4, Stutters
  <1>3. CASE WriteFrame(k)
    <2>1. PICK s \in Sessions :
             /\ session[k] = s
             /\ command[k] = "sending" /\ session' = session
             /\ DeviceOf[s] = d /\ Online(s)
      BY <1>3 DEF LifecycleInv, Sending, Entering, WriteFrame
    <2>2. connections[d] = s /\ transport[s] = "open" => Doors[s] = "served"
      <3>1. connections[d] = s /\ transport[s] = "open" => phase[s] \in {"serving", "updating"}
        BY <2>1 DEF LifecycleInv, Entering, Online, Registered
      <3> QED
        BY <2>1, <3>1, DoorFacts
    <2>3. Delivered[k] = None
      BY <2>1 DEF Delivered
    <2>4. CASE CommandTo(k, "sent") /\ transport[s] # "closed" /\ UNCHANGED <<connections, orphaned>>
      <3>1. Delivered' = [Delivered EXCEPT ![k] = s]
        BY <1>0, <2>1, <2>4 DEF TypeOK, CommandTo, Delivered
      <3>2. Stages[d] # "barred"
        <4>1. ~Barred(d)
          BY <2>1, <2>4 DEF LifecycleInv, Sending, Barred
        <4> QED
          BY <4>1, StageFacts
      <3>3. \/ Doors[s] = "served" /\ connections[d] = s
            \/ Doors[s] = "leaving"
        <4>1. transport[s] = "open" \/ transport[s] = "closing"
          BY <1>0, <2>1, <2>4 DEF TypeOK
        <4>2. connections[d] = s \/ transport[s] # "open"
          BY <2>1 DEF LifecycleInv, Sending
        <4> QED
          BY <2>1, <2>2, <4>1, <4>2, DoorFacts
      <3>4. Access!Deliver(k, s)
        BY <1>1, <2>1, <2>3, <2>4, <3>1, <3>2, <3>3
        DEF Access!Deliver, Stages, Doors, Delivered
      <3> QED
        BY <3>4 DEF Access!Next
    <2>5. CASE /\ CommandTo(k, "failed")
               /\ connections' = [connections EXCEPT ![d] = IF @ = s THEN None ELSE @]
               /\ orphaned' = orphaned \cup
                     {t \in {s} : connections[d] = t /\ transport[t] = "open"}
      <3>1. Delivered' = Delivered
        BY <1>0, <2>1, <2>5 DEF TypeOK, CommandTo, Delivered
      <3>2. CASE connections[d] # s
        <4>1. connections' = connections /\ orphaned' = orphaned
          BY <1>0, <2>5, <3>2 DEF TypeOK
        <4> QED
          BY <1>1, <3>1, <4>1, Stutters
      <3>3. CASE connections[d] = s
        <4>1. connections[d] # None /\ connections' = [connections EXCEPT ![d] = None]
          BY <1>0, <2>1, <2>5, <3>3 DEF TypeOK
        <4>2. orphaned' = orphaned \cup
                 {t \in Sessions : connections[d] = t /\ Doors[t] = "served"}
          BY <2>1, <2>2, <2>5, <3>3, DoorFacts
        <4>3. Access!Lose(d)
          BY <1>1, <3>1, <4>1, <4>2 DEF Access!Lose, Stages, Doors, Delivered
        <4> QED
          BY <4>3 DEF Access!Next
      <3> QED
        BY <3>2, <3>3
    <2> QED
      BY <1>3, <2>1, <2>4, <2>5 DEF WriteFrame
  <1> QED
    BY <1>2, <1>3 DEF CommandRuns

\* A crash loses every session and nothing that was withdrawn.
LEMMA CrashRefines ==
    ASSUME LifecycleInv, Crash
    PROVE  Access!Restart
  <1>0. TypeOK
    BY DEF LifecycleInv
  <1>1. UNCHANGED <<credentials, revoked, session, orphaned>>
    BY DEF Crash, durable
  <1>2. Stages' = Stages
    <2>1. \A r \in Revocations : revocation'[r] = "done" <=> revocation[r] = "done"
      BY <1>0 DEF TypeOK, Crash
    <2> QED
      BY <1>1, <2>1, SameRows
  <1>3. Delivered' = Delivered
    BY <1>0, <1>1 DEF TypeOK, Delivered, Crash
  <1>4. Doors' = [s \in Sessions |-> IF Doors[s] = "outside" THEN "outside" ELSE "out"]
    <2>1. ASSUME NEW s \in Sessions
          PROVE  PlaceOf(transport'[s], phase'[s]) =
                    IF Doors[s] = "outside" THEN "outside" ELSE "out"
      BY DoorFacts, Places DEF Crash
    <2>2. Doors' = [s \in Sessions |-> PlaceOf(transport'[s], phase'[s])]
      BY DEF Doors
    <2> QED
      BY <2>1, <2>2
  <1> QED
    BY <1>1, <1>2, <1>3, <1>4 DEF Crash, Access!Restart, Stages, Doors, Delivered

LEMMA AccessInit == Init => Access!Init
  <1> SUFFICES ASSUME Init PROVE Access!Init
    OBVIOUS
  <1>1. Stages = [d \in Devices |-> "granted"]
    BY DEF Init, Stages, StageOf, Barred
  <1>2. Doors = [s \in Sessions |-> "outside"]
    BY Places DEF Init, Doors
  <1>3. Delivered = [k \in Commands |-> None]
    BY DEF Init, Delivered
  <1> QED
    BY <1>1, <1>2, <1>3 DEF Init, Access!Init, Stages, Doors, Delivered

LEMMA AccessStep ==
    ASSUME LifecycleInv, [Next]_vars
    PROVE  [Access!Next]_(Access!vars)
  <1>1. ASSUME NEW s \in Sessions,
               Authenticate(s) \/ SessionRuns(s) \/ ReadGrants(s) \/ PeerLeaves(s) \/ CloseEnds(s)
        PROVE  [Access!Next]_(Access!vars)
    <2>1. ASSUME Access!Identify(s) \/ Access!Deny(s) \/ Access!Enter(s)
                    \/ Access!Activate(s) \/ Access!Depart(s)
          PROVE  Access!Next
      BY <2>1 DEF Access!Next
    <2>2. CASE Authenticate(s) \/ Accept(s) \/ EnterConnect(s) \/ CheckDevice(s)
      BY <2>1, <2>2, ArrivalRefines
    <2>3. CASE Register(s) \/ CloseEnds(s)
      BY <2>1, <2>3, RegisterRefines, CloseEndsRefines
    <2>4. CASE ConnectReturns(s) \/ ReadGrants(s) \/ Activate(s) \/ PeerLeaves(s) \/ SocketEnds(s)
      BY <2>1, <2>4, HandlerRefines
    <2> QED
      BY <1>1, <2>2, <2>3, <2>4 DEF SessionRuns
  <1>2. CASE Crash
    BY <1>2, CrashRefines DEF Access!Next
  <1>3. CASE UNCHANGED vars
    <2>1. UNCHANGED <<Stages, connections, Doors, orphaned, Delivered>>
      BY <1>3 DEF vars, Stages, StageOf, Barred, Doors, Delivered
    <2> QED
      BY <2>1, Stutters
  <1> QED
    BY <1>1, <1>2, <1>3, RevocationRefines, CommandRefines DEF Next

\* Connection, activation, commands and revocation, with their locks, rows, failures and
\* crashes, implement the abstract access control (service.py:110-163, 182-203).
THEOREM AccessGuarded == Spec => AccessIsGuarded
  <1>1. LifecycleInv /\ [Next]_vars => [Access!Next]_(Access!vars)
    BY AccessStep
  <1> QED
    BY DeviceInvariant, AccessInit, <1>1, PTL DEF Spec, AccessIsGuarded, Access!Spec
=============================================================================
