----------------------- MODULE ConnectionManagerProofs -----------------------
(***************************************************************************)
(* Proofs about ConnectionManager, for every set of devices, sessions,     *)
(* calls and command ids.                                                  *)
(***************************************************************************)
EXTENDS ConnectionManager, LockQueues, TLAPS

\* Whoever writes to a session is at the head of the send lock's queue.
SenderHasLock == \A c \in Calls : Sending(c) => HasSendLock(c)

\* The session of a device was opened for it, and so was that of a call.
SessionsOpened ==
    /\ \A s \in Sessions : handler[s] = "open" => owner[s] \in Devices
    /\ \A d \in Devices : connections[d] # None => handler[connections[d]] # "none"
    /\ \A c \in Calls : InFlight(c) =>
          session[c] \in Sessions /\ handler[session[c]] # "none"

\* What the phase of a call says about its future and its frame.
CallStates ==
    \A c \in Calls :
        /\ phase[c] = "idle" => future[c] = "pending"
        /\ phase[c] \in {"idle", "queued", "barred"} => c \notin wire
        /\ phase[c] \in {"awaiting", "expired"} => c \in wire
        /\ InFlight(c) => future[c] # "cancelled"
        /\ InFlight(c) /\ future[c] = "failed"
              => connections[DeviceOf[c]] # session[c]

\* The inductive invariant.
ManagerInv ==
    /\ TypeOK
    /\ SenderHasLock
    /\ SessionsOpened
    /\ CallStates
    /\ PendingIsRoutable
    /\ WaitingIsReachable

-----------------------------------------------------------------------------
(* Types and the send lock *)

\* The tables after a device or a call was removed are still tables.
LEMMA TablesTyped ==
    ASSUME NEW C, NEW c \in Calls,
           NEW pend \in [CommandIds -> Calls \cup {None}],
           NEW fut \in [Calls -> Futures]
    PROVE  /\ Without(pend, C) \in [CommandIds -> Calls \cup {None}]
           /\ Failed(fut, C) \in [Calls -> Futures]
           /\ [fut EXCEPT ![c] = IF @ = "pending" THEN "cancelled" ELSE @]
                 \in [Calls -> Futures]
  BY DEF Without, Failed, Futures

LEMMA InitTyped == Init => TypeOK /\ SenderHasLock
  BY ManagerAssumption
  DEF Init, TypeOK, Futures, Phases, Outcomes, SenderHasLock, Sending

LEMMA SessionStepTyped ==
    ASSUME TypeOK, SenderHasLock, SessionStep
    PROVE  TypeOK' /\ SenderHasLock'
  <1> USE ManagerAssumption
  <1>1. ASSUME NEW d \in Devices, NEW s \in Sessions, Connect(d, s)
        PROVE  TypeOK' /\ SenderHasLock'
    BY <1>1, TablesTyped
    DEF Connect, FailDevice, Closing, TypeOK, SenderHasLock, Sending, HasSendLock, Without, Failed, Futures
  <1>2. ASSUME NEW s \in Sessions, NEW caps \in SUBSET Capabilities,
               Activate(s, caps)
        PROVE  TypeOK' /\ SenderHasLock'
    BY <1>2 DEF Activate, callVars, TypeOK, SenderHasLock, Sending, HasSendLock
  <1>3. ASSUME NEW s \in Sessions, Teardown(s)
        PROVE  TypeOK' /\ SenderHasLock'
    BY <1>3 DEF Teardown, Disconnected, TypeOK, SenderHasLock, Sending, HasSendLock, Without, Failed, Futures
  <1>4. ASSUME NEW s \in Sessions, TeardownSkipped(s)
        PROVE  TypeOK' /\ SenderHasLock'
    BY <1>4 DEF TeardownSkipped, callVars, TypeOK, SenderHasLock, Sending, HasSendLock
  <1>5. ASSUME NEW s \in Sessions, GatewayCloses(s)
        PROVE  TypeOK' /\ SenderHasLock'
    BY <1>5 DEF GatewayCloses, callVars, TypeOK, SenderHasLock, Sending, HasSendLock
  <1>6. ASSUME NEW s \in Sessions, CloseTransport(s)
        PROVE  TypeOK' /\ SenderHasLock'
    BY <1>6 DEF CloseTransport, callVars, TypeOK, SenderHasLock, Sending, HasSendLock
  <1>7. ASSUME NEW d \in Devices, DisconnectDevice(d)
        PROVE  TypeOK' /\ SenderHasLock'
    BY <1>7
    DEF DisconnectDevice, FailDevice, Closing, TypeOK, SenderHasLock, Sending, HasSendLock, Without, Failed, Futures
  <1>8. ASSUME CloseAll
        PROVE  TypeOK' /\ SenderHasLock'
    BY <1>8 DEF CloseAll, Closing, TypeOK, SenderHasLock, Sending, HasSendLock, Failed, Futures
  <1>9. QED
    BY <1>1, <1>2, <1>3, <1>4, <1>5, <1>6, <1>7, <1>8 DEF SessionStep

\* Releasing the send lock of one's own session leaves every other holder at
\* the head of its queue.
LEMMA ReleaseKeepsOthers ==
    ASSUME TypeOK, SenderHasLock, NEW c \in Calls, session[c] \in Sessions,
           HasSendLock(c), ReleaseSendLock(c), session' = session
    PROVE  /\ sendQueue' \in [Sessions -> Seq(Calls)]
           /\ \A e \in Calls : e # c /\ Sending(e) => HasSendLock(e)'
  <1>1. sendQueue[session[c]] \in Seq(Calls) /\ sendQueue[session[c]] # <<>>
    BY DEF TypeOK, HasSendLock
  <1>2. Tail(sendQueue[session[c]]) \in Seq(Calls)
    BY <1>1
  <1>3. sendQueue' \in [Sessions -> Seq(Calls)]
    BY <1>2 DEF ReleaseSendLock, TypeOK
  <1>4. ASSUME NEW e \in Calls, e # c, Sending(e)
        PROVE  HasSendLock(e)'
    <2>1. HasSendLock(e)
      BY <1>4 DEF SenderHasLock
    <2>2. session[e] # session[c]
      BY <1>4, <2>1 DEF HasSendLock
    <2> QED
      BY <2>1, <2>2 DEF HasSendLock, ReleaseSendLock, TypeOK
  <1> QED
    BY <1>3, <1>4

LEMMA CallStepTyped ==
    ASSUME TypeOK, SenderHasLock, NEW c \in Calls, CallStep(c),
           phase[c] # "idle" => session[c] \in Sessions
    PROVE  TypeOK' /\ SenderHasLock'
  <1> USE ManagerAssumption
  <1>1. CASE Refuse(c)
    BY <1>1 DEF Refuse, connVars, TypeOK, Phases, Outcomes, SenderHasLock, Sending, HasSendLock
  <1>2. CASE Admit(c)
    <2> DEFINE s == connections[DeviceOf[c]]
    <2>1. s \in Sessions /\ IdOf[c] \in CommandIds
      BY <1>2 DEF Admit, Admissible, TypeOK
    <2>2. sendQueue' \in [Sessions -> Seq(Calls)]
      BY <1>2, <2>1 DEF Admit, TypeOK
    <2>3. TypeOK'
      BY <1>2, <2>1, <2>2 DEF Admit, CallTransport, connVars, TypeOK, Phases
    <2>4. ASSUME NEW e \in Calls, Sending(e)'
          PROVE  HasSendLock(e)'
      <3>1. CASE e = c
        <4>1. sendQueue[s] = <<>> /\ session'[c] = s
          BY <3>1, <2>4, <2>1, <1>2 DEF Admit, Sending, TypeOK
        <4>2. sendQueue'[s] = <<c>>
          BY <4>1, <2>1, <1>2 DEF Admit, TypeOK
        <4> QED
          BY <3>1, <4>1, <4>2 DEF HasSendLock
      <3>2. CASE e # c
        <4>1. HasSendLock(e) /\ session'[e] = session[e]
          BY <3>2, <2>4, <1>2
          DEF Admit, CallTransport, Sending, TypeOK, SenderHasLock
        <4>2. sendQueue[s] \in Seq(Calls) /\ sendQueue'[s] = Append(sendQueue[s], c)
          BY <2>1, <1>2 DEF Admit, TypeOK
        <4>3. CASE session[e] = s
          BY <4>1, <4>2, <4>3 DEF HasSendLock
        <4>4. CASE session[e] # s
          BY <4>1, <4>4, <1>2 DEF HasSendLock, Admit, TypeOK
        <4> QED
          BY <4>3, <4>4
      <3> QED
        BY <3>1, <3>2
    <2> QED
      BY <2>3, <2>4 DEF SenderHasLock
  <1>3. CASE StartSend(c)
    BY <1>3
    DEF StartSend, CallTransport, connVars, TypeOK, Phases, SenderHasLock, Sending,
        HasSendLock
  <1>4. CASE SendTooLate(c)
    <2>1. /\ session[c] \in Sessions /\ session' = session
          /\ HasSendLock(c) /\ ReleaseSendLock(c)
      BY <1>4 DEF SendTooLate
    <2>2. /\ phase'[c] \notin {"sending", "barred"}
          /\ \A e \in Calls : e # c => phase'[e] = phase[e]
      BY <1>4 DEF SendTooLate, Return, TypeOK
    <2>3. TypeOK'
      BY <1>4, <2>1, ReleaseKeepsOthers, TablesTyped
      DEF SendTooLate, Return, Finally, connVars, TypeOK, Phases, Outcomes
    <2> QED
      BY <2>1, <2>2, <2>3, ReleaseKeepsOthers DEF SenderHasLock, Sending
  <1>5. CASE Sent(c)
    <2>1. /\ session[c] \in Sessions /\ session' = session
          /\ HasSendLock(c) /\ ReleaseSendLock(c)
      BY <1>5 DEF Sent, SenderHasLock, Sending
    <2>2. /\ phase'[c] \notin {"sending", "barred"}
          /\ \A e \in Calls : e # c => phase'[e] = phase[e]
      BY <1>5 DEF Sent, Return, TypeOK
    <2>3. /\ pending' \in [CommandIds -> Calls \cup {None}]
          /\ future' \in [Calls -> Futures]
          /\ phase' \in [Calls -> Phases]
          /\ outcome' \in [Calls -> Outcomes]
      <3>1. CASE future[c] = "pending"
        <4>1. /\ phase' = [phase EXCEPT ![c] = "awaiting"]
              /\ UNCHANGED <<pending, future, outcome>>
          BY <1>5, <3>1 DEF Sent
        <4> QED
          BY <4>1 DEF TypeOK, Phases
      <3>2. CASE future[c] # "pending"
        <4>1. Return(c, Answer(c)) /\ Finally(c, pending, future)
          BY <1>5, <3>2 DEF Sent
        <4>2. /\ pending' \in [CommandIds -> Calls \cup {None}]
              /\ future' \in [Calls -> Futures]
          BY <4>1, TablesTyped DEF Finally, TypeOK
        <4> QED
          BY <4>1, <4>2 DEF Return, Answer, TypeOK, Phases, Outcomes
      <3> QED
        BY <3>1, <3>2
    <2>4. TypeOK'
      BY <1>5, <2>1, <2>3, ReleaseKeepsOthers DEF Sent, connVars, TypeOK
    <2> QED
      BY <2>1, <2>2, <2>4, ReleaseKeepsOthers DEF SenderHasLock, Sending
  <1>6. CASE SendFails(c)
    <2>1. /\ session[c] \in Sessions /\ session' = session
          /\ HasSendLock(c) /\ ReleaseSendLock(c)
      BY <1>6 DEF SendFails, SenderHasLock, Sending
    <2>2. /\ phase'[c] \notin {"sending", "barred"}
          /\ \A e \in Calls : e # c => phase'[e] = phase[e]
      BY <1>6 DEF SendFails, Return, TypeOK
    <2>3. /\ connections' \in [Devices -> Sessions \cup {None}]
          /\ transport' \in [Sessions -> {"none", "open", "closing", "closed"}]
      BY <1>6 DEF SendFails, Disconnected, TypeOK
    <2>4. /\ pending' \in [CommandIds -> Calls \cup {None}]
          /\ future' \in [Calls -> Futures]
      <3> DEFINE lost == LostWith(DeviceOf[c], session[c])
      <3>1. /\ Without(pending, lost) \in [CommandIds -> Calls \cup {None}]
            /\ Failed(future, lost) \in [Calls -> Futures]
        BY TablesTyped DEF TypeOK
      <3> QED
        BY <1>6, <3>1, TablesTyped DEF SendFails, Finally
    <2>5. TypeOK'
      <3>1. phase' \in [Calls -> Phases] /\ outcome' \in [Calls -> Outcomes]
        BY <1>6 DEF SendFails, Return, TypeOK, Phases, Outcomes
      <3>2. sendQueue' \in [Sessions -> Seq(Calls)]
        BY <2>1, ReleaseKeepsOthers DEF TypeOK
      <3>3. UNCHANGED <<owner, online, effective, handler, session, wire, late, source>>
        BY <1>6 DEF SendFails
      <3> QED
        BY <2>3, <2>4, <3>1, <3>2, <3>3 DEF TypeOK
    <2> QED
      BY <2>1, <2>2, <2>5, ReleaseKeepsOthers DEF SenderHasLock, Sending
  <1>7. CASE ResultReady(c)
    BY <1>7, TablesTyped DEF ResultReady, Return, Finally, Answer, connVars, TypeOK, Phases, Outcomes, SenderHasLock, Sending, HasSendLock
  <1>8. CASE TimerFires(c)
    BY <1>8 DEF TimerFires, connVars, TypeOK, Phases, SenderHasLock, Sending, HasSendLock
  <1>9. CASE TimeoutRaised(c)
    BY <1>9, TablesTyped DEF TimeoutRaised, Return, Finally, connVars, TypeOK, Phases, Outcomes, SenderHasLock, Sending, HasSendLock
  <1>10. CASE WriteFrame(c)
    BY <1>10 DEF WriteFrame, connVars, TypeOK, SenderHasLock, Sending, HasSendLock
  <1>11. QED
    BY <1>1, <1>2, <1>3, <1>4, <1>5, <1>6, <1>7, <1>8, <1>9, <1>10 DEF CallStep

LEMMA ResultStepTyped ==
    ASSUME TypeOK, SenderHasLock, ResultStep
    PROVE  TypeOK' /\ SenderHasLock'
  <1>1. PICK s \in Sessions, i \in CommandIds : Resolve(s, i)
    BY DEF ResultStep
  <1>2. pending[i] \in Calls
    BY <1>1 DEF Resolve, TypeOK
  <1> QED
    BY <1>1, <1>2, ManagerAssumption
    DEF Resolve, connVars, TypeOK, Futures, SenderHasLock, Sending, HasSendLock

-----------------------------------------------------------------------------
(* The pending table *)

RoutingInv == CallStates /\ PendingIsRoutable /\ WaitingIsReachable

\* A device loses its session, or gets a fresh one: its pending calls are
\* exactly those that were admitted on the lost session, and they fail.
LEMMA LossKeepsRouting ==
    ASSUME TypeOK, SessionsOpened, RoutingInv,
           NEW d \in Devices, NEW x \in Sessions \cup {None},
           x = None \/ handler[x] = "none",
           connections' = [connections EXCEPT ![d] = x],
           FailDevice(d),
           UNCHANGED <<phase, session, wire, online>>
    PROVE  RoutingInv'
  <1> USE ManagerAssumption DEF RoutingInv
  <1>1. \A c \in Calls : InFlight(c)' = InFlight(c)
    BY DEF InFlight
  <1>2. \A c \in Calls :
          future'[c] = IF c \in PendingOf(d) /\ future[c] = "pending"
                       THEN "failed" ELSE future[c]
    BY DEF FailDevice, Failed
  <1>3. \A i \in CommandIds :
          pending'[i] = IF pending[i] \in PendingOf(d) THEN None ELSE pending[i]
    BY DEF FailDevice, Without
  <1>4. \A e \in Devices : connections'[e] = IF e = d THEN x ELSE connections[e]
    BY DEF TypeOK
  <1>5. \A c \in Calls : InFlight(c) => session[c] # x
    BY DEF SessionsOpened
  <1>6. CallStates'
    <2> SUFFICES ASSUME NEW c \in Calls
                 PROVE  /\ phase[c] = "idle" => future'[c] = "pending"
                        /\ InFlight(c) => future'[c] # "cancelled"
                        /\ InFlight(c) /\ future'[c] = "failed"
                              => connections'[DeviceOf[c]] # session[c]
      BY <1>1 DEF CallStates
    <2>1. c \in PendingOf(d) => InFlight(c) /\ DeviceOf[c] = d
      BY DEF PendingOf, PendingIsRoutable, TypeOK
    <2>2. phase[c] = "idle" => ~InFlight(c)
      BY DEF InFlight
    <2> QED
      BY <1>2, <1>4, <1>5, <2>1, <2>2 DEF CallStates
  <1>7. PendingIsRoutable'
    <2> SUFFICES ASSUME NEW i \in CommandIds, pending'[i] # None
                 PROVE  LET c == pending'[i] IN
                        /\ IdOf[c] = i
                        /\ InFlight(c)
                        /\ future'[c] = "pending"
                        /\ session[c] \in online
                        /\ connections'[DeviceOf[c]] = session[c]
      BY <1>1 DEF PendingIsRoutable, InFlight
    <2>1. pending'[i] = pending[i] /\ pending[i] \notin PendingOf(d)
      BY <1>3
    <2>2. pending[i] \in Calls /\ IdOf[pending[i]] = i
      BY <2>1 DEF TypeOK, PendingIsRoutable
    <2>3. DeviceOf[pending[i]] # d
      BY <2>1, <2>2 DEF PendingOf
    <2> QED
      BY <1>2, <1>4, <2>1, <2>2, <2>3 DEF PendingIsRoutable
  <1>8. WaitingIsReachable'
    <2> SUFFICES ASSUME NEW c \in Calls, InFlight(c), future'[c] = "pending"
                 PROVE  pending'[IdOf[c]] = c
      BY <1>1 DEF WaitingIsReachable
    <2>1. future[c] = "pending" /\ c \notin PendingOf(d)
      BY <1>2
    <2> QED
      BY <1>3, <2>1 DEF WaitingIsReachable
  <1> QED
    BY <1>6, <1>7, <1>8

\* A step that touches none of what the routing invariant speaks about.
LEMMA NoChangeKeepsRouting ==
    ASSUME RoutingInv,
           UNCHANGED <<connections, pending, future, phase, session, wire>>,
           online \subseteq online'
    PROVE  RoutingInv'
  BY DEF RoutingInv, CallStates, PendingIsRoutable, WaitingIsReachable, InFlight

\* The finally clause of a returning call removes nothing but its own entry.
LEMMA ReturnKeepsRouting ==
    ASSUME TypeOK, RoutingInv, NEW c \in Calls, NEW why,
           InFlight(c), Return(c, why), Finally(c, pending, future),
           UNCHANGED <<connections, session, wire, online>>
    PROVE  RoutingInv'
  <1> USE ManagerAssumption DEF RoutingInv
  <1>1. \A e \in Calls :
          /\ e # c => phase'[e] = phase[e] /\ InFlight(e)' = InFlight(e)
          /\ e # c => future'[e] = future[e]
    BY DEF Return, Finally, InFlight, TypeOK
  <1>2. phase'[c] = "returned" /\ ~InFlight(c)'
    BY DEF Return, InFlight, TypeOK
  <1>3. \A i \in CommandIds :
          pending'[i] = IF pending[i] = c THEN None ELSE pending[i]
    BY DEF Finally, Without
  <1>4. CallStates'
    BY <1>1, <1>2 DEF CallStates
  <1>5. PendingIsRoutable'
    BY <1>1, <1>2, <1>3 DEF PendingIsRoutable, TypeOK
  <1>6. WaitingIsReachable'
    BY <1>1, <1>2, <1>3 DEF WaitingIsReachable
  <1> QED
    BY <1>4, <1>5, <1>6

LEMMA SessionStepOpened ==
    ASSUME TypeOK, SessionsOpened, SessionStep
    PROVE  SessionsOpened'
  <1> USE ManagerAssumption DEF SessionsOpened, InFlight
  <1>1. ASSUME NEW d \in Devices, NEW s \in Sessions, Connect(d, s)
        PROVE  SessionsOpened'
    BY <1>1 DEF Connect, TypeOK
  <1>2. ASSUME NEW s \in Sessions, NEW caps \in SUBSET Capabilities,
               Activate(s, caps)
        PROVE  SessionsOpened'
    BY <1>2 DEF Activate, callVars
  <1>3. ASSUME NEW s \in Sessions, Teardown(s)
        PROVE  SessionsOpened'
    BY <1>3 DEF Teardown, Disconnected, TypeOK
  <1>4. ASSUME NEW s \in Sessions, TeardownSkipped(s)
        PROVE  SessionsOpened'
    BY <1>4 DEF TeardownSkipped, callVars, TypeOK
  <1>5. ASSUME NEW s \in Sessions, GatewayCloses(s) \/ CloseTransport(s)
        PROVE  SessionsOpened'
    BY <1>5 DEF GatewayCloses, CloseTransport, callVars
  <1>6. ASSUME NEW d \in Devices, DisconnectDevice(d)
        PROVE  SessionsOpened'
    BY <1>6 DEF DisconnectDevice, TypeOK
  <1>7. ASSUME CloseAll
        PROVE  SessionsOpened'
    BY <1>7 DEF CloseAll
  <1> QED
    BY <1>1, <1>2, <1>3, <1>4, <1>5, <1>6, <1>7 DEF SessionStep

LEMMA SessionStepRouting ==
    ASSUME TypeOK, SessionsOpened, RoutingInv, SessionStep
    PROVE  RoutingInv'
  <1> USE ManagerAssumption
  <1>1. ASSUME NEW d \in Devices, NEW s \in Sessions, Connect(d, s)
        PROVE  RoutingInv'
    BY <1>1, LossKeepsRouting DEF Connect
  <1>2. ASSUME NEW s \in Sessions, NEW caps \in SUBSET Capabilities,
               Activate(s, caps)
        PROVE  RoutingInv'
    BY <1>2, NoChangeKeepsRouting DEF Activate, callVars
  <1>3. ASSUME NEW s \in Sessions, Teardown(s)
        PROVE  RoutingInv'
    <2>1. owner[s] \in Devices
      BY <1>3 DEF Teardown, SessionsOpened
    <2>2. CASE connections[owner[s]] = s
      <3>1. FailDevice(owner[s])
        BY <1>3, <2>2 DEF Teardown, LostWith, FailDevice
      <3>2. connections' = [connections EXCEPT ![owner[s]] = None]
        BY <1>3, <2>2 DEF Teardown, Disconnected
      <3> QED
        BY <1>3, <2>1, <3>1, <3>2, LossKeepsRouting DEF Teardown
    <2>3. CASE connections[owner[s]] # s
      <3>1. Without(pending, {}) = pending /\ Failed(future, {}) = future
        BY DEF Without, Failed, TypeOK
      <3> QED
        BY <1>3, <2>3, <3>1, NoChangeKeepsRouting
        DEF Teardown, LostWith, Disconnected
    <2> QED
      BY <2>2, <2>3
  <1>4. ASSUME NEW s \in Sessions,
               TeardownSkipped(s) \/ GatewayCloses(s) \/ CloseTransport(s)
        PROVE  RoutingInv'
    BY <1>4, NoChangeKeepsRouting
    DEF TeardownSkipped, GatewayCloses, CloseTransport, callVars
  <1>5. ASSUME NEW d \in Devices, DisconnectDevice(d)
        PROVE  RoutingInv'
    BY <1>5, LossKeepsRouting DEF DisconnectDevice
  <1>6. ASSUME CloseAll
        PROVE  RoutingInv'
    <2>1. \A c \in Calls :
            /\ InFlight(c)' = InFlight(c) /\ phase'[c] = phase[c]
            /\ future'[c] # future[c] =>
                  future'[c] = "failed" /\ pending[IdOf[c]] = c
      BY <1>6 DEF CloseAll, Failed, InFlight, TypeOK
    <2>2. \A c \in Calls : InFlight(c) => future'[c] # "pending"
      <3> SUFFICES ASSUME NEW c \in Calls, InFlight(c), future'[c] = "pending"
                   PROVE  FALSE
        OBVIOUS
      <3>1. future[c] = "pending"
        BY <2>1
      <3>2. pending[IdOf[c]] = c
        BY <3>1 DEF RoutingInv, WaitingIsReachable
      <3>3. connections[DeviceOf[c]] # None
        BY <3>2 DEF RoutingInv, PendingIsRoutable, TypeOK
      <3> QED
        BY <1>6, <3>2, <3>3 DEF CloseAll, Failed
    <2>3. CallStates'
      <3>1. \A c \in Calls : pending[IdOf[c]] = c => InFlight(c) /\ phase[c] # "idle"
        BY DEF RoutingInv, PendingIsRoutable, InFlight
      <3>2. \A c \in Calls : InFlight(c) => session[c] # None
        BY DEF SessionsOpened
      <3>3. wire' = wire /\ session' = session
            /\ \A d \in Devices : connections'[d] = None
        BY <1>6 DEF CloseAll
      <3> QED
        BY <2>1, <3>1, <3>2, <3>3 DEF RoutingInv, CallStates
    <2>4. PendingIsRoutable'
      BY <1>6 DEF CloseAll, PendingIsRoutable
    <2>5. WaitingIsReachable'
      BY <2>1, <2>2 DEF WaitingIsReachable
    <2> QED
      BY <2>3, <2>4, <2>5 DEF RoutingInv
  <1> QED
    BY <1>1, <1>2, <1>3, <1>4, <1>5, <1>6 DEF SessionStep

LEMMA CallStepOpened ==
    ASSUME TypeOK, SessionsOpened, NEW c \in Calls, CallStep(c)
    PROVE  SessionsOpened'
  <1> USE ManagerAssumption DEF SessionsOpened, InFlight
  <1>1. CASE Admit(c)
    BY <1>1 DEF Admit, Admissible, CallTransport, connVars, TypeOK
  <1>2. CASE SendFails(c)
    BY <1>2 DEF SendFails, Return, Disconnected, TypeOK
  <1>3. CASE Refuse(c) \/ StartSend(c) \/ WriteFrame(c) \/ TimerFires(c)
    BY <1>3
    DEF Refuse, StartSend, CallTransport, WriteFrame, TimerFires, connVars, TypeOK
  <1>4. CASE SendTooLate(c) \/ Sent(c) \/ ResultReady(c) \/ TimeoutRaised(c)
    BY <1>4
    DEF SendTooLate, Sent, ResultReady, TimeoutRaised, Return, connVars, TypeOK
  <1> QED
    BY <1>1, <1>2, <1>3, <1>4 DEF CallStep

LEMMA CallStepRouting ==
    ASSUME TypeOK, SessionsOpened, RoutingInv, NEW c \in Calls, CallStep(c)
    PROVE  RoutingInv'
  <1> USE ManagerAssumption
  <1>1. CASE Refuse(c)
    <2>1. pending' = pending /\ future' = future /\ ~InFlight(c) /\ ~InFlight(c)'
      BY <1>1 DEF Refuse, InFlight, TypeOK
    <2>2. \A e \in Calls : e # c =>
            phase'[e] = phase[e] /\ InFlight(e)' = InFlight(e)
      BY <1>1 DEF Refuse, InFlight, TypeOK
    <2>3. UNCHANGED <<connections, online, session, wire>>
          /\ phase[c] = "idle" /\ phase'[c] = "returned"
      BY <1>1 DEF Refuse, connVars, TypeOK
    <2>4. CallStates'
      BY <2>1, <2>2, <2>3 DEF RoutingInv, CallStates
    <2>5. PendingIsRoutable'
      <3> SUFFICES ASSUME NEW i \in CommandIds, pending[i] # None
                   PROVE  /\ IdOf[pending[i]] = i
                          /\ InFlight(pending[i])'
                          /\ future[pending[i]] = "pending"
                          /\ session[pending[i]] \in online
                          /\ connections[DeviceOf[pending[i]]] = session[pending[i]]
        BY <2>1, <2>3 DEF PendingIsRoutable
      <3>1. pending[i] \in Calls
        BY DEF TypeOK
      <3>2. InFlight(pending[i])
        BY DEF RoutingInv, PendingIsRoutable
      <3> QED
        BY <2>1, <2>2, <3>1, <3>2 DEF RoutingInv, PendingIsRoutable
    <2>6. WaitingIsReachable'
      BY <2>1, <2>2, <2>3 DEF RoutingInv, WaitingIsReachable
    <2> QED
      BY <2>4, <2>5, <2>6 DEF RoutingInv
  <1>2. CASE Admit(c)
    <2> DEFINE s == connections[DeviceOf[c]]
    <2>1. /\ s \in online /\ pending[IdOf[c]] = None
          /\ future[c] = "pending" /\ c \notin wire /\ ~InFlight(c)
      BY <1>2 DEF Admit, Admissible, RoutingInv, CallStates, InFlight
    <2>2. /\ session'[c] = s /\ InFlight(c)'
          /\ phase'[c] \in {"queued", "sending", "barred"}
          /\ wire' = wire
      BY <1>2 DEF Admit, CallTransport, InFlight, TypeOK
    <2>3. \A e \in Calls : e # c =>
            /\ phase'[e] = phase[e] /\ session'[e] = session[e]
            /\ InFlight(e)' = InFlight(e)
      BY <1>2 DEF Admit, CallTransport, InFlight, TypeOK
    <2>4. \A i \in CommandIds :
            pending'[i] = IF i = IdOf[c] THEN c ELSE pending[i]
      BY <1>2 DEF Admit, TypeOK
    <2>5. future' = future /\ connections' = connections /\ online' = online
      BY <1>2 DEF Admit, connVars
    <2>6. CallStates'
      BY <2>1, <2>2, <2>3, <2>5 DEF RoutingInv, CallStates
    <2>7. PendingIsRoutable'
      <3> SUFFICES ASSUME NEW i \in CommandIds, pending'[i] # None
                   PROVE  LET e == pending'[i] IN
                          /\ IdOf[e] = i
                          /\ phase'[e] \in {"queued", "sending", "barred", "awaiting", "expired"}
                          /\ future[e] = "pending"
                          /\ session'[e] \in online
                          /\ connections[DeviceOf[e]] = session'[e]
        BY <2>5 DEF PendingIsRoutable, InFlight
      <3>1. CASE i = IdOf[c]
        BY <2>1, <2>2, <2>4, <3>1
      <3>2. CASE i # IdOf[c]
        <4>1. /\ pending'[i] = pending[i] /\ pending[i] \in Calls
              /\ IdOf[pending[i]] = i /\ pending[i] # c
          BY <2>4, <3>2 DEF TypeOK, RoutingInv, PendingIsRoutable
        <4> QED
          BY <2>3, <4>1 DEF RoutingInv, PendingIsRoutable, InFlight
      <3> QED
        BY <3>1, <3>2
    <2>8. WaitingIsReachable'
      BY <2>1, <2>2, <2>3, <2>4, <2>5 DEF RoutingInv, WaitingIsReachable
    <2> QED
      BY <2>6, <2>7, <2>8 DEF RoutingInv
  <1>3. CASE StartSend(c) \/ WriteFrame(c) \/ TimerFires(c)
    <2>1. \A e \in Calls :
            /\ InFlight(e)' = InFlight(e)
            /\ e # c => phase'[e] = phase[e] /\ (e \in wire' <=> e \in wire)
      BY <1>3 DEF StartSend, CallTransport, WriteFrame, TimerFires, InFlight, TypeOK
    <2>2. /\ phase'[c] \in {"sending", "barred", "expired"}
          /\ phase'[c] = "expired" => c \in wire'
          /\ phase'[c] = "barred" => c \notin wire'
      BY <1>3
      DEF StartSend, CallTransport, WriteFrame, TimerFires, RoutingInv, CallStates,
          TypeOK
    <2>3. UNCHANGED <<connections, online, pending, future, session>>
      BY <1>3 DEF StartSend, WriteFrame, TimerFires, connVars
    <2> QED
      BY <2>1, <2>2, <2>3
      DEF RoutingInv, CallStates, PendingIsRoutable, WaitingIsReachable, TypeOK
  <1>4. CASE SendTooLate(c)
    BY <1>4, ReturnKeepsRouting DEF SendTooLate, InFlight, connVars
  <1>5. CASE Sent(c)
    <2>1. CASE future[c] = "pending"
      <3>1. \A e \in Calls :
              /\ InFlight(e)' = InFlight(e)
              /\ e # c => phase'[e] = phase[e]
        BY <1>5, <2>1 DEF Sent, InFlight, TypeOK
      <3>2. /\ phase'[c] = "awaiting" /\ c \in wire'
            /\ UNCHANGED <<connections, online, pending, future, session, wire>>
        BY <1>5, <2>1 DEF Sent, connVars, TypeOK
      <3> QED
        BY <3>1, <3>2
        DEF RoutingInv, CallStates, PendingIsRoutable, WaitingIsReachable, TypeOK
    <2>2. CASE future[c] # "pending"
      BY <1>5, <2>2, ReturnKeepsRouting DEF Sent, InFlight, connVars
    <2> QED
      BY <2>1, <2>2
  <1>6. CASE SendFails(c)
    <2> DEFINE d == DeviceOf[c]
               s == session[c]
               lost == LostWith(d, s)
    <2>1. /\ \A e \in Calls : e # c =>
                phase'[e] = phase[e] /\ InFlight(e)' = InFlight(e)
          /\ phase'[c] = "returned" /\ ~InFlight(c)' /\ InFlight(c)
          /\ session' = session /\ wire' = wire /\ online' = online
      BY <1>6 DEF SendFails, Return, InFlight, TypeOK
    <2>2. \A e \in Calls : e # c =>
            future'[e] = IF e \in lost /\ future[e] = "pending"
                         THEN "failed" ELSE future[e]
      BY <1>6 DEF SendFails, Finally, Failed
    <2>3. \A i \in CommandIds :
            pending'[i] = IF pending[i] \in lost \/ pending[i] = c
                          THEN None ELSE pending[i]
      BY <1>6 DEF SendFails, Finally, Without
    <2>4. \A e \in Devices :
            connections'[e] = IF e = d /\ connections[d] = s
                              THEN None ELSE connections[e]
      BY <1>6 DEF SendFails, Disconnected, TypeOK
    <2>5. lost = IF connections[d] = s THEN PendingOf(d) ELSE {}
      BY DEF LostWith
    <2>6. CallStates'
      <3> SUFFICES ASSUME NEW e \in Calls, e # c
                   PROVE  /\ phase[e] = "idle" => future'[e] = "pending"
                          /\ InFlight(e) => future'[e] # "cancelled"
                          /\ InFlight(e) /\ future'[e] = "failed"
                                => connections'[DeviceOf[e]] # session[e]
        BY <2>1 DEF RoutingInv, CallStates
      <3>1. e \in lost => InFlight(e) /\ DeviceOf[e] = d /\ connections[d] = s
        BY <2>5 DEF PendingOf, RoutingInv, PendingIsRoutable
      <3>2. InFlight(e) => session[e] # None /\ phase[e] # "idle"
        BY DEF SessionsOpened, InFlight
      <3> QED
        BY <2>2, <2>4, <3>1, <3>2 DEF RoutingInv, CallStates
    <2>7. PendingIsRoutable'
      <3> SUFFICES ASSUME NEW i \in CommandIds, pending'[i] # None
                   PROVE  LET e == pending'[i] IN
                          /\ IdOf[e] = i
                          /\ phase'[e] \in {"queued", "sending", "barred", "awaiting", "expired"}
                          /\ future'[e] = "pending"
                          /\ session[e] \in online
                          /\ connections'[DeviceOf[e]] = session[e]
        BY <2>1 DEF PendingIsRoutable, InFlight
      <3>1. pending'[i] = pending[i] /\ pending[i] \notin lost /\ pending[i] # c
        BY <2>3
      <3>2. pending[i] \in Calls /\ IdOf[pending[i]] = i
        BY <3>1 DEF TypeOK, RoutingInv, PendingIsRoutable
      <3>3. connections[d] = s => DeviceOf[pending[i]] # d
        BY <2>5, <3>1, <3>2 DEF PendingOf
      <3> QED
        <4>1. phase'[pending[i]] = phase[pending[i]]
          BY <2>1, <3>1, <3>2
        <4>2. DeviceOf[pending[i]] \in Devices
          BY <3>2
        <4> QED
          BY <2>2, <2>4, <3>1, <3>2, <3>3, <4>1, <4>2
          DEF RoutingInv, PendingIsRoutable, InFlight
    <2>8. WaitingIsReachable'
      <3> SUFFICES ASSUME NEW e \in Calls, e # c, InFlight(e),
                          future'[e] = "pending"
                   PROVE  pending'[IdOf[e]] = e
        BY <2>1 DEF WaitingIsReachable
      <3> QED
        BY <2>2, <2>3 DEF RoutingInv, WaitingIsReachable
    <2> QED
      BY <2>6, <2>7, <2>8 DEF RoutingInv
  <1>7. CASE ResultReady(c)
    BY <1>7, ReturnKeepsRouting DEF ResultReady, InFlight, connVars
  <1>8. CASE TimeoutRaised(c)
    BY <1>8, ReturnKeepsRouting DEF TimeoutRaised, InFlight, connVars
  <1> QED
    BY <1>1, <1>2, <1>3, <1>4, <1>5, <1>6, <1>7, <1>8 DEF CallStep

LEMMA ResultStepRouting ==
    ASSUME TypeOK, SessionsOpened, RoutingInv, ResultStep
    PROVE  SessionsOpened' /\ RoutingInv'
  <1> USE ManagerAssumption
  <1>1. PICK s \in Sessions, i \in CommandIds : Resolve(s, i)
    BY DEF ResultStep
  <1> DEFINE c == pending[i]
  <1>2. c \in Calls /\ IdOf[c] = i /\ InFlight(c) /\ future[c] = "pending"
    BY <1>1 DEF Resolve, TypeOK, RoutingInv, PendingIsRoutable
  <1>3. \A e \in Calls : future'[e] = IF e = c THEN "result" ELSE future[e]
    BY <1>1, <1>2 DEF Resolve, TypeOK
  <1>4. \A j \in CommandIds : pending'[j] = IF j = i THEN None ELSE pending[j]
    BY <1>1 DEF Resolve, TypeOK
  <1>5. UNCHANGED <<connections, owner, handler, online, phase, session, wire>>
        /\ \A e \in Calls : InFlight(e)' = InFlight(e)
    BY <1>1 DEF Resolve, connVars, InFlight
  <1>6. CallStates'
    BY <1>2, <1>3, <1>5 DEF RoutingInv, CallStates, InFlight
  <1>7. PendingIsRoutable'
    BY <1>2, <1>3, <1>4, <1>5 DEF RoutingInv, PendingIsRoutable, TypeOK
  <1>8. WaitingIsReachable'
    BY <1>2, <1>3, <1>4, <1>5 DEF RoutingInv, WaitingIsReachable
  <1> QED
    BY <1>5, <1>6, <1>7, <1>8 DEF RoutingInv, SessionsOpened

-----------------------------------------------------------------------------
(* The invariant and what follows from it *)

LEMMA InitInv == Init => ManagerInv
  <1> SUFFICES ASSUME Init PROVE ManagerInv
    OBVIOUS
  <1>1. TypeOK /\ SenderHasLock
    BY InitTyped
  <1>2. SessionsOpened /\ CallStates /\ PendingIsRoutable /\ WaitingIsReachable
    BY ManagerAssumption
    DEF Init, SessionsOpened, CallStates, PendingIsRoutable,
        WaitingIsReachable, InFlight
  <1> QED
    BY <1>1, <1>2 DEF ManagerInv

LEMMA NextInv == ManagerInv /\ [Next]_vars => ManagerInv'
  <1> SUFFICES ASSUME ManagerInv, [Next]_vars
               PROVE  ManagerInv'
    OBVIOUS
  <1> USE DEF ManagerInv, RoutingInv
  <1>1. CASE SessionStep
    BY <1>1, SessionStepTyped, SessionStepOpened, SessionStepRouting
  <1>2. ASSUME NEW c \in Calls, CallStep(c)
        PROVE  ManagerInv'
    <2>1. phase[c] = "returned" => ~CallStep(c)
      BY DEF CallStep, Refuse, Admit, StartSend, SendTooLate, WriteFrame, Sent,
             SendFails, ResultReady, TimerFires, TimeoutRaised
    <2>2. phase[c] # "idle" => session[c] \in Sessions
      BY <1>2, <2>1 DEF SessionsOpened, InFlight, TypeOK, Phases
    <2> QED
      BY <1>2, <2>2, CallStepTyped, CallStepOpened, CallStepRouting
  <1>3. CASE ResultStep
    BY <1>3, ResultStepTyped, ResultStepRouting
  <1>4. CASE UNCHANGED vars
    BY <1>4
    DEF vars, TypeOK, SenderHasLock, Sending, HasSendLock, SessionsOpened, CallStates,
        PendingIsRoutable, WaitingIsReachable, InFlight
  <1> QED
    BY <1>1, <1>2, <1>3, <1>4 DEF Next

\* The inductive invariant of the connection manager (memory.py): types, the
\* send lock, and the agreement of the session table, the pending table and
\* the execute() calls.
THEOREM ManagerInvariant == Spec => []ManagerInv
  BY InitInv, NextInv, PTL DEF Spec

\* Every reachable state has the declared types.
THEOREM TypeCorrect == Spec => []TypeOK
  <1>1. ManagerInv => TypeOK
    BY DEF ManagerInv
  <1> QED
    BY <1>1, ManagerInvariant, PTL

\* A pending entry always belongs to a waiting call on the device's current,
\* activated session (execute(), connect(), disconnect(), close_all()).
THEOREM PendingRoutable == Spec => []PendingIsRoutable
  <1>1. ManagerInv => PendingIsRoutable
    BY DEF ManagerInv
  <1> QED
    BY <1>1, ManagerInvariant, PTL

\* No call waits for a result without an entry by which it can be resolved or
\* failed (the `is pending` test of execute()'s finally clause).
THEOREM WaitingReachable == Spec => []WaitingIsReachable
  <1>1. ManagerInv => WaitingIsReachable
    BY DEF ManagerInv
  <1> QED
    BY <1>1, ManagerInvariant, PTL

\* connection.send_lock admits one writer per session.
THEOREM MutualExclusion == Spec => []OneWriter
  <1>1. ManagerInv => OneWriter
    BY DEF ManagerInv, SenderHasLock, OneWriter, HasSendLock, Sending
  <1> QED
    BY <1>1, ManagerInvariant, PTL

\* The finally clause of one session's handler removes no other session.
THEOREM TeardownRemovesOwn == Spec => TeardownIsOwn
  <1>1. ASSUME ManagerInv, [Next]_vars, NEW s \in Sessions, NEW t \in Sessions,
               handler[s] = "open", handler'[s] = "ended", t # s, Live(t)
        PROVE  Live(t)'
    <2>1. handler \in [Sessions -> {"none", "open", "ended"}]
      BY <1>1 DEF ManagerInv, TypeOK
    <2>2. Teardown(s) \/ TeardownSkipped(s)
      <3>1. CASE SessionStep
        <4>1. ASSUME NEW u \in Sessions, Teardown(u) \/ TeardownSkipped(u)
              PROVE  u = s
          BY <1>1, <2>1, <4>1 DEF Teardown, TeardownSkipped
        <4> QED
          BY <1>1, <2>1, <3>1, <4>1
          DEF SessionStep, Connect, Activate, GatewayCloses, CloseTransport,
              DisconnectDevice, CloseAll
      <3>2. ASSUME NEW c \in Calls, CallStep(c)
            PROVE  handler' = handler
        BY <3>2
        DEF CallStep, Refuse, Admit, StartSend, SendTooLate, WriteFrame, Sent, SendFails,
            ResultReady, TimerFires, TimeoutRaised, connVars
      <3>3. ResultStep \/ UNCHANGED vars => handler' = handler
        BY DEF ResultStep, Resolve, connVars, vars
      <3> QED
        BY <1>1, <3>1, <3>2, <3>3 DEF Next
    <2>3. connections \in [Devices -> Sessions \cup {None}]
      BY <1>1 DEF ManagerInv, TypeOK
    <2> QED
      BY <1>1, <2>2, <2>3 DEF Teardown, TeardownSkipped, Disconnected, Live
  <1>2. ManagerInv /\ [Next]_vars =>
          [\A s, t \in Sessions :
              /\ handler[s] = "open" /\ handler'[s] = "ended"
              /\ t # s /\ Live(t)
              => Live(t)']_vars
    BY <1>1
  <1> QED
    BY <1>2, ManagerInvariant, PTL DEF Spec, TeardownIsOwn

-----------------------------------------------------------------------------
(* The send locks *)

\* The execute() calls on session s between their await of its send lock and
\* its release.
SendersOf(s) ==
    {c \in Calls : phase[c] \in {"queued", "sending", "barred"} /\ session[c] = s}

\* Exactly the calls that send or wait to send are in the queue of a session's
\* send lock, each once: none waits behind a call that has returned
\* (memory.py:260-289).
SendLocksServe == \A s \in Sessions : Queues(sendQueue[s], SendersOf(s))

LEMMA SendersStay ==
    ASSUME SendLocksServe, UNCHANGED <<sendQueue, session>>,
           \A c \in Calls : phase'[c] \in {"queued", "sending", "barred"}
                               <=> phase[c] \in {"queued", "sending", "barred"}
    PROVE  SendLocksServe'
  <1>1. \A s \in Sessions : SendersOf(s)' = SendersOf(s)
    BY DEF SendersOf
  <1> QED
    BY <1>1 DEF SendLocksServe

\* An admitted call joins the queue of the session it captured.
LEMMA AdmitJoins ==
    ASSUME ManagerInv, SendLocksServe, NEW c \in Calls, Admit(c)
    PROVE  SendLocksServe'
  <1> USE ManagerAssumption
  <1>0. TypeOK
    BY DEF ManagerInv
  <1>1. PICK s \in Sessions : s = connections[DeviceOf[c]]
    BY <1>0 DEF Admit, Admissible, TypeOK
  <1>2. /\ session' = [session EXCEPT ![c] = s]
        /\ sendQueue' = [sendQueue EXCEPT ![s] = Append(@, c)]
        /\ phase[c] = "idle" /\ phase'[c] \in {"queued", "sending", "barred"}
        /\ \A e \in Calls : e # c => phase'[e] = phase[e]
    BY <1>0, <1>1 DEF Admit, CallTransport, TypeOK
  <1>3. ASSUME NEW t \in Sessions
        PROVE  Queues(sendQueue[t], SendersOf(t))'
    <2>1. CASE t = s
      <3>1. c \notin SendersOf(s) /\ SendersOf(s)' = SendersOf(s) \cup {c}
        BY <1>0, <1>2 DEF SendersOf, TypeOK
      <3>2. /\ sendQueue[s] \in Seq(Calls) /\ Queues(sendQueue[s], SendersOf(s))
            /\ sendQueue'[s] = Append(sendQueue[s], c)
        BY <1>0, <1>2 DEF TypeOK, SendLocksServe
      <3> QED
        BY <2>1, <3>1, <3>2, JoinQueue
    <2>2. CASE t # s
      <3>1. SendersOf(t)' = SendersOf(t) /\ sendQueue'[t] = sendQueue[t]
        BY <1>0, <1>2, <2>2 DEF SendersOf, TypeOK
      <3> QED
        BY <3>1 DEF SendLocksServe
    <2> QED
      BY <2>1, <2>2
  <1> QED
    BY <1>3 DEF SendLocksServe

\* A call that is done with its frame, or comes too late for it, leaves it.
LEMMA ReleaseLeaves ==
    ASSUME TypeOK, SendLocksServe, NEW c \in Calls, session[c] \in Sessions,
           HasSendLock(c), ReleaseSendLock(c), session' = session,
           phase'[c] \notin {"queued", "sending", "barred"},
           \A e \in Calls : e # c => phase'[e] = phase[e]
    PROVE  SendLocksServe'
  <1> DEFINE s == session[c]
  <1>1. /\ sendQueue[s] \in Seq(Calls) /\ Queues(sendQueue[s], SendersOf(s))
        /\ sendQueue[s] # <<>> /\ Head(sendQueue[s]) = c
        /\ sendQueue' = [sendQueue EXCEPT ![s] = Tail(@)]
    BY DEF TypeOK, SendLocksServe, HasSendLock, ReleaseSendLock
  <1>2. ASSUME NEW t \in Sessions
        PROVE  Queues(sendQueue[t], SendersOf(t))'
    <2>1. CASE t = s
      <3>1. SendersOf(s)' = SendersOf(s) \ {c}
        BY DEF SendersOf
      <3>2. sendQueue'[s] = Tail(sendQueue[s])
        BY <1>1 DEF TypeOK
      <3> QED
        BY <1>1, <2>1, <3>1, <3>2, LeaveQueue
    <2>2. CASE t # s
      <3>1. SendersOf(t)' = SendersOf(t) /\ sendQueue'[t] = sendQueue[t]
        BY <1>1, <2>2 DEF SendersOf, TypeOK
      <3> QED
        BY <3>1 DEF SendLocksServe
    <2> QED
      BY <2>1, <2>2
  <1> QED
    BY <1>2 DEF SendLocksServe

LEMMA CallKeepsLocks ==
    ASSUME ManagerInv, SendLocksServe, NEW c \in Calls, CallStep(c)
    PROVE  SendLocksServe'
  <1>0. TypeOK
    BY DEF ManagerInv
  <1>1. CASE Admit(c)
    BY <1>1, AdmitJoins
  <1>2. CASE SendTooLate(c) \/ Sent(c) \/ SendFails(c)
    <2>1. phase[c] \in {"queued", "sending", "barred"} /\ HasSendLock(c)
      BY <1>2 DEF SendTooLate, Sent, SendFails, ManagerInv, SenderHasLock, Sending
    <2>2. session[c] \in Sessions
      BY <2>1 DEF ManagerInv, SessionsOpened, InFlight
    <2>3. /\ ReleaseSendLock(c) /\ session' = session
          /\ phase'[c] \in {"awaiting", "returned"}
          /\ \A e \in Calls : e # c => phase'[e] = phase[e]
      BY <1>0, <1>2 DEF SendTooLate, Sent, SendFails, Return, TypeOK
    <2> QED
      BY <1>0, <2>1, <2>2, <2>3, ReleaseLeaves
  <1>3. CASE Refuse(c) \/ StartSend(c) \/ WriteFrame(c) \/ ResultReady(c)
                \/ TimerFires(c) \/ TimeoutRaised(c)
    <2>1. /\ UNCHANGED <<sendQueue, session>>
          /\ \A e \in Calls : phase'[e] \in {"queued", "sending", "barred"}
                                 <=> phase[e] \in {"queued", "sending", "barred"}
      BY <1>0, <1>3
      DEF Refuse, StartSend, CallTransport, WriteFrame, ResultReady, TimerFires,
          TimeoutRaised, Return, TypeOK
    <2> QED
      BY <2>1, SendersStay
  <1> QED
    BY <1>1, <1>2, <1>3 DEF CallStep

\* Whatever replaces, drops or closes a session, or fails a send, its send lock is
\* held and awaited by exactly the calls under way: it is the safety half of
\* EveryCallReturns.
THEOREM SendLocksAreExact == Spec => []SendLocksServe
  <1>1. Init => SendLocksServe
    BY FreeLock DEF Init, SendLocksServe, SendersOf
  <1>2. ASSUME ManagerInv, SendLocksServe, [Next]_vars
        PROVE  SendLocksServe'
    <2>1. CASE SessionStep
      <3>1. UNCHANGED <<sendQueue, session, phase>>
        BY <2>1
        DEF SessionStep, Connect, Activate, Teardown, TeardownSkipped,
            GatewayCloses, CloseTransport, DisconnectDevice, CloseAll, callVars
      <3> QED
        BY <1>2, <3>1, SendersStay
    <2>2. CASE ResultStep \/ UNCHANGED vars
      <3>1. UNCHANGED <<sendQueue, session, phase>>
        BY <2>2 DEF ResultStep, Resolve, vars
      <3> QED
        BY <1>2, <3>1, SendersStay
    <2> QED
      BY <1>2, <2>1, <2>2, CallKeepsLocks DEF Next
  <1> QED
    BY ManagerInvariant, <1>1, <1>2, PTL DEF Spec

-----------------------------------------------------------------------------
(* Refinement of CommandRouting *)

LEMMA InitRefines == Init => Routing!RInit
  <1> SUFFICES ASSUME Init PROVE Routing!RInit
    OBVIOUS
  <1>1. {s \in Sessions : handler[s] # "none"} = {}
    BY DEF Init
  <1>2. [c \in Calls |-> StatusOf(c)] = [c \in Calls |-> "new"]
    BY DEF Init, StatusOf
  <1>3. Senders = {}
    BY DEF Init, Senders, Sending
  <1> QED
    BY <1>1, <1>2, <1>3 DEF Init, Routing!RInit

\* When one call moves, it alone joins or leaves those that await a transport.
LEMMA SendersMove ==
    ASSUME NEW c \in Calls, \A e \in Calls : e # c => phase'[e] = phase[e]
    PROVE  /\ Sending(c)' => Senders' = Senders \cup {c}
           /\ ~Sending(c)' => Senders' = Senders \ {c}
  BY DEF Senders, Sending

\* Devices lose or change their session: in the abstract status exactly their
\* open calls become lost.
LEMMA LossIsLose ==
    ASSUME ManagerInv, NEW D \in SUBSET Devices,
           UNCHANGED phase,
           \A c \in Calls :
              future'[c] = IF /\ DeviceOf[c] \in D /\ pending[IdOf[c]] = c
                              /\ future[c] = "pending"
                           THEN "failed" ELSE future[c]
    PROVE  [c \in Calls |-> StatusOf(c)]' = Routing!Lose(D)
  <1>1. ASSUME NEW c \in Calls
        PROVE  StatusOf(c)' = IF DeviceOf[c] \in D /\ StatusOf(c) = "open"
                              THEN "lost" ELSE StatusOf(c)
    <2>1. pending[IdOf[c]] = c => InFlight(c)
      BY ManagerAssumption DEF ManagerInv, PendingIsRoutable
    <2>2. InFlight(c) /\ future[c] = "pending" => pending[IdOf[c]] = c
      BY DEF ManagerInv, WaitingIsReachable
    <2>3. InFlight(c) => future[c] # "cancelled"
      BY DEF ManagerInv, CallStates
    <2>4. future[c] \in Futures /\ phase[c] \in Phases
      BY DEF ManagerInv, TypeOK
    <2> QED
      BY <2>1, <2>2, <2>3, <2>4 DEF StatusOf, InFlight, Futures, Phases
  <1> QED
    BY <1>1 DEF Routing!Lose, Routing!OpenOn

LEMMA SessionStepRefines ==
    ASSUME ManagerInv, SessionStep
    PROVE  [Routing!RNext]_(Routing!rvars)
  <1> USE ManagerAssumption
  <1>t. TypeOK
    BY DEF ManagerInv
  <1>p. ASSUME phase' = phase
        PROVE  Senders' = Senders
    BY <1>p DEF Senders, Sending
  <1>s. ASSUME phase' = phase, future' = future
        PROVE  [c \in Calls |-> StatusOf(c)]' = [c \in Calls |-> StatusOf(c)]
    BY <1>s DEF StatusOf
  <1>1. ASSUME NEW d \in Devices, NEW s \in Sessions, Connect(d, s)
        PROVE  Routing!Join(d, s)
    <2>1. [c \in Calls |-> StatusOf(c)]' = Routing!Lose({d})
      <3>1. \A c \in Calls :
              future'[c] = IF /\ DeviceOf[c] \in {d} /\ pending[IdOf[c]] = c
                              /\ future[c] = "pending"
                           THEN "failed" ELSE future[c]
        BY <1>1 DEF Connect, FailDevice, Failed, PendingOf
      <3> QED
        BY <1>1, <3>1, LossIsLose DEF Connect
    <2>2. /\ s \notin {u \in Sessions : handler[u] # "none"}
          /\ {u \in Sessions : handler[u] # "none"}'
                = {u \in Sessions : handler[u] # "none"} \cup {s}
      BY <1>1, <1>t DEF Connect, TypeOK
    <2> QED
      BY <1>1, <1>p, <2>1, <2>2 DEF Connect, Routing!Join
  <1>2. ASSUME NEW s \in Sessions, NEW caps \in SUBSET Capabilities,
               Activate(s, caps)
        PROVE  UNCHANGED Routing!rvars
    BY <1>2, <1>p, <1>s DEF Activate, callVars, Routing!rvars
  <1>3. ASSUME NEW s \in Sessions,
               TeardownSkipped(s) \/ GatewayCloses(s) \/ CloseTransport(s)
        PROVE  UNCHANGED Routing!rvars
    <2>1. {u \in Sessions : handler[u] # "none"}'
             = {u \in Sessions : handler[u] # "none"}
      BY <1>3, <1>t DEF TeardownSkipped, GatewayCloses, CloseTransport, TypeOK
    <2> QED
      BY <1>3, <1>p, <1>s, <2>1
      DEF TeardownSkipped, GatewayCloses, CloseTransport, callVars, Routing!rvars
  <1>4. ASSUME NEW s \in Sessions, Teardown(s)
        PROVE  [Routing!RNext]_(Routing!rvars)
    <2>1. owner[s] \in Devices
      BY <1>4 DEF Teardown, ManagerInv, SessionsOpened
    <2>2. {u \in Sessions : handler[u] # "none"}'
             = {u \in Sessions : handler[u] # "none"}
      BY <1>4, <1>t DEF Teardown, TypeOK
    <2>3. CASE connections[owner[s]] = s
      <3>1. \A c \in Calls :
              future'[c] = IF /\ DeviceOf[c] \in {owner[s]}
                              /\ pending[IdOf[c]] = c /\ future[c] = "pending"
                           THEN "failed" ELSE future[c]
        BY <1>4, <2>3 DEF Teardown, LostWith, Failed, PendingOf
      <3>2. [c \in Calls |-> StatusOf(c)]' = Routing!Lose({owner[s]})
        BY <1>4, <2>1, <3>1, LossIsLose DEF Teardown
      <3>3. connections' = [d \in Devices |-> IF d \in {owner[s]} THEN None
                                              ELSE connections[d]]
        BY <1>4, <1>t, <2>1, <2>3 DEF Teardown, Disconnected, TypeOK
      <3>4. Routing!Leave({owner[s]})
        BY <1>4, <1>p, <2>2, <3>2, <3>3 DEF Teardown, Routing!Leave
      <3> QED
        BY <2>1, <3>4 DEF Routing!RNext
    <2>4. CASE connections[owner[s]] # s
      <3>1. future' = future /\ connections' = connections
        BY <1>4, <1>t, <2>4
        DEF Teardown, LostWith, Failed, Disconnected, TypeOK
      <3> QED
        BY <1>4, <1>p, <1>s, <2>2, <3>1 DEF Teardown, Routing!rvars
    <2> QED
      BY <2>3, <2>4
  <1>5. ASSUME NEW d \in Devices, DisconnectDevice(d)
        PROVE  Routing!Leave({d})
    <2>1. \A c \in Calls :
            future'[c] = IF /\ DeviceOf[c] \in {d} /\ pending[IdOf[c]] = c
                            /\ future[c] = "pending"
                         THEN "failed" ELSE future[c]
      BY <1>5 DEF DisconnectDevice, FailDevice, Failed, PendingOf
    <2>2. [c \in Calls |-> StatusOf(c)]' = Routing!Lose({d})
      BY <1>5, <2>1, LossIsLose DEF DisconnectDevice
    <2>3. connections' = [e \in Devices |-> IF e \in {d} THEN None
                                            ELSE connections[e]]
      BY <1>5, <1>t DEF DisconnectDevice, TypeOK
    <2> QED
      BY <1>5, <1>p, <2>2, <2>3 DEF DisconnectDevice, Routing!Leave
  <1>6. ASSUME CloseAll
        PROVE  Routing!Leave(Devices)
    <2>1. \A c \in Calls : pending[IdOf[c]] = c => connections[DeviceOf[c]] # None
      BY <1>t DEF ManagerInv, PendingIsRoutable, TypeOK
    <2>2. \A c \in Calls :
            future'[c] = IF /\ DeviceOf[c] \in Devices /\ pending[IdOf[c]] = c
                            /\ future[c] = "pending"
                         THEN "failed" ELSE future[c]
      BY <1>6, <2>1 DEF CloseAll, Failed
    <2>3. [c \in Calls |-> StatusOf(c)]' = Routing!Lose(Devices)
      BY <1>6, <2>2, LossIsLose DEF CloseAll
    <2>4. connections' = [e \in Devices |-> IF e \in Devices THEN None
                                            ELSE connections[e]]
      BY <1>6 DEF CloseAll
    <2> QED
      BY <1>6, <1>p, <2>3, <2>4 DEF CloseAll, Routing!Leave
  <1> QED
    BY <1>1, <1>2, <1>3, <1>4, <1>5, <1>6 DEF SessionStep, Routing!RNext

LEMMA ResultStepRefines ==
    ASSUME ManagerInv, ResultStep
    PROVE  Routing!RNext
  <1>1. PICK s \in Sessions, i \in CommandIds : Resolve(s, i)
    BY DEF ResultStep
  <1>t. TypeOK
    BY DEF ManagerInv
  <1>c. PICK c \in Calls : c = pending[i]
    BY <1>1, <1>t DEF Resolve, TypeOK
  <1>2. /\ InFlight(c) /\ future[c] = "pending"
        /\ session[c] = s /\ connections[DeviceOf[c]] = s
    BY <1>1, <1>c DEF Resolve, Matches, ManagerInv, PendingIsRoutable
  <1>3. \A e \in Calls : future'[e] = IF e = c THEN "result" ELSE future[e]
    BY <1>1, <1>c, <1>2, <1>t DEF Resolve, TypeOK
  <1>4. UNCHANGED <<connections, handler, phase, session, wire, late, outcome, Senders>>
    BY <1>1 DEF Resolve, connVars, Senders, Sending
  <1>5. StatusOf(c) = "open" /\ StatusOf(c)' = "answered"
    BY <1>2, <1>3, <1>4 DEF StatusOf, InFlight
  <1>6. \A e \in Calls : e # c => StatusOf(e)' = StatusOf(e)
    BY <1>3, <1>4 DEF StatusOf
  <1>7. [e \in Calls |-> StatusOf(e)]'
           = [[e \in Calls |-> StatusOf(e)] EXCEPT ![c] = "answered"]
    BY <1>2, <1>5, <1>6
  <1>8. source' = [source EXCEPT ![c] = session[c]]
    BY <1>1, <1>c, <1>2 DEF Resolve
  <1>9. Routing!Answered(c)
    BY <1>2, <1>4, <1>5, <1>7, <1>8, ManagerAssumption
    DEF Routing!Answered, Routing!Reachable
  <1> QED
    BY <1>2, <1>9 DEF Routing!RNext

\* When one call returns and the other futures stay, only its status changes.
LEMMA ReturnClosesOne ==
    ASSUME ManagerInv, NEW c \in Calls, NEW why, InFlight(c), Return(c, why),
           \A e \in Calls : e # c => future'[e] = future[e]
    PROVE  /\ StatusOf(c) \in {"open", "answered", "lost"}
           /\ [e \in Calls |-> StatusOf(e)]'
                 = [[e \in Calls |-> StatusOf(e)] EXCEPT ![c] = "closed"]
           /\ outcome' = [outcome EXCEPT ![c] = why]
           /\ Senders' = Senders \ {c}
  <1>1. StatusOf(c)' = "closed" /\ StatusOf(c) \in {"open", "answered", "lost"}
    BY DEF Return, StatusOf, InFlight, ManagerInv, TypeOK
  <1>2. \A e \in Calls : e # c => StatusOf(e)' = StatusOf(e)
    BY DEF Return, StatusOf, ManagerInv, TypeOK
  <1>3. /\ ~Sending(c)'
        /\ \A e \in Calls : e # c => phase'[e] = phase[e]
    BY DEF Return, Sending, ManagerInv, TypeOK
  <1> QED
    BY <1>1, <1>2, <1>3, SendersMove DEF Return

LEMMA TellRefines ==
    ASSUME ManagerInv, NEW c \in Calls, NEW why \in {"result", "offline", "timeout"},
           InFlight(c), Return(c, why), Finally(c, pending, future),
           UNCHANGED <<connections, handler, session, wire, late, source>>,
           Sending(c) => c \in wire,
           why = "result" => future[c] = "result" /\ c \in wire,
           why = "offline" => connections[DeviceOf[c]] # session[c]
    PROVE  Routing!RNext
  <1>1. \A e \in Calls : e # c => future'[e] = future[e]
    BY DEF Finally, ManagerInv, TypeOK
  <1>2. why = "result" => StatusOf(c) = "answered"
    BY DEF StatusOf, InFlight
  <1>3. Routing!Tell(c, why)
    BY <1>1, <1>2, ReturnClosesOne DEF Routing!Tell, Routing!Reachable, Senders
  <1> QED
    BY <1>3 DEF Routing!RNext

LEMMA CallStepRefines ==
    ASSUME ManagerInv, NEW c \in Calls, CallStep(c)
    PROVE  [Routing!RNext]_(Routing!rvars)
  <1> USE ManagerAssumption
  <1>t. TypeOK
    BY DEF ManagerInv
  <1>f. future[c] \in Futures
    BY <1>t DEF TypeOK
  <1>1. CASE Refuse(c)
    <2>1. StatusOf(c) = "new" /\ StatusOf(c)' = "closed"
      BY <1>1, <1>t DEF Refuse, StatusOf, TypeOK
    <2>2. \A e \in Calls : e # c => StatusOf(e)' = StatusOf(e)
      BY <1>1, <1>t DEF Refuse, StatusOf, TypeOK
    <2>3. [e \in Calls |-> StatusOf(e)]'
             = [[e \in Calls |-> StatusOf(e)] EXCEPT ![c] = "closed"]
      BY <2>1, <2>2
    <2>4. Senders' = Senders
      <3>1. c \notin Senders /\ ~Sending(c)'
        BY <1>1, <1>t DEF Refuse, Senders, Sending, TypeOK
      <3>2. \A e \in Calls : e # c => phase'[e] = phase[e]
        BY <1>1, <1>t DEF Refuse, TypeOK
      <3>3. Senders' = Senders \ {c}
        BY <3>1, <3>2, SendersMove
      <3> QED
        BY <3>1, <3>3
    <2>5. Routing!Refused(c)
      BY <1>1, <2>1, <2>3, <2>4 DEF Refuse, connVars, Routing!Refused
    <2> QED
      BY <2>5 DEF Routing!RNext
  <1>2. CASE Admit(c)
    <2>1. StatusOf(c) = "new" /\ future[c] = "pending"
      BY <1>2 DEF Admit, StatusOf, ManagerInv, CallStates
    <2>2. StatusOf(c)' = "open"
      BY <1>2, <1>t, <2>1 DEF Admit, CallTransport, StatusOf, TypeOK
    <2>3. \A e \in Calls : e # c => StatusOf(e)' = StatusOf(e)
      BY <1>2, <1>t DEF Admit, CallTransport, StatusOf, TypeOK
    <2>4. [e \in Calls |-> StatusOf(e)]'
             = [[e \in Calls |-> StatusOf(e)] EXCEPT ![c] = "open"]
      BY <2>1, <2>2, <2>3
    <2>5. connections[DeviceOf[c]] # None
      BY <1>2, <1>t DEF Admit, Admissible, TypeOK
    <2>6. \/ Senders' = Senders
          \/ /\ Senders' = Senders \cup {c}
             /\ \A e \in Senders : session[e] # connections[DeviceOf[c]]
      <3>1. c \notin Senders /\ \A e \in Calls : e # c => phase'[e] = phase[e]
        BY <1>2, <1>t DEF Admit, CallTransport, Senders, Sending, TypeOK
      <3>2. Sending(c)' => sendQueue[connections[DeviceOf[c]]] = <<>>
        BY <1>2, <1>t DEF Admit, Sending, TypeOK
      <3>3. \A e \in Senders : sendQueue[session[e]] # <<>>
        BY DEF Senders, ManagerInv, SenderHasLock, HasSendLock
      <3>4. CASE Sending(c)'
        <4>1. Senders' = Senders \cup {c}
          BY <3>1, <3>4, SendersMove
        <4> QED
          BY <3>2, <3>3, <3>4, <4>1
      <3>5. CASE ~Sending(c)'
        <4>1. Senders' = Senders \ {c}
          BY <3>1, <3>5, SendersMove
        <4> QED
          BY <3>1, <4>1
      <3> QED
        BY <3>4, <3>5
    <2>7. Routing!Accept(c)
      BY <1>2, <2>1, <2>4, <2>5, <2>6
      DEF Admit, connVars, Routing!Accept, Routing!Free
    <2> QED
      BY <2>7 DEF Routing!RNext
  <1>3. CASE StartSend(c)
    <2>1. [e \in Calls |-> StatusOf(e)]' = [e \in Calls |-> StatusOf(e)]
      BY <1>3, <1>t DEF StartSend, CallTransport, StatusOf, TypeOK
    <2>2. /\ StatusOf(c) \in {"open", "answered"} /\ c \notin wire
          /\ session[c] # None
      BY <1>3, <1>t
      DEF StartSend, StillRegistered, StatusOf, InFlight, ManagerInv, CallStates,
          SessionsOpened
    <2>3. c \notin Senders /\ Senders' = Senders \cup {c}
      <3>1. /\ ~Sending(c) /\ Sending(c)'
            /\ \A e \in Calls : e # c => phase'[e] = phase[e]
        BY <1>3, <1>t DEF StartSend, CallTransport, Sending, TypeOK
      <3> QED
        BY <3>1, SendersMove DEF Senders
    <2>4. \A e \in Senders : session[e] # session[c]
      <3>1. \A e \in Senders : e # c /\ HasSendLock(e)
        BY <2>3 DEF Senders, ManagerInv, SenderHasLock
      <3> QED
        BY <1>3, <3>1 DEF StartSend, HasSendLock
    <2>5. Routing!Hand(c)
      BY <1>3, <2>1, <2>2, <2>3, <2>4
      DEF StartSend, StillRegistered, connVars, Routing!Hand, Routing!Reachable,
          Routing!Free
    <2> QED
      BY <2>5 DEF Routing!RNext
  <1>w. CASE WriteFrame(c)
    <2>1. /\ [e \in Calls |-> StatusOf(e)]' = [e \in Calls |-> StatusOf(e)]
          /\ Senders' = Senders /\ c \in Senders
      BY <1>w DEF WriteFrame, StatusOf, Senders, Sending
    <2>2. session[c] # None
      BY <1>w DEF WriteFrame, ManagerInv, SessionsOpened, InFlight
    <2>3. Routing!WriteFrame(c)
      BY <1>w, <2>1, <2>2
      DEF WriteFrame, connVars, Routing!WriteFrame, Routing!Reachable
    <2> QED
      BY <2>3 DEF Routing!RNext
  <1>4. CASE SendTooLate(c)
    BY <1>4, TellRefines DEF SendTooLate, StillRegistered, InFlight, Sending, connVars
  <1>5. CASE Sent(c)
    <2>1. CASE future[c] = "pending"
      <3>1. [e \in Calls |-> StatusOf(e)]' = [e \in Calls |-> StatusOf(e)]
        BY <1>5, <1>t, <2>1 DEF Sent, StatusOf, TypeOK
      <3>2. c \in Senders /\ Senders' = Senders \ {c}
        <4>1. Sending(c) /\ ~Sending(c)'
          BY <1>5, <1>t, <2>1 DEF Sent, Sending, TypeOK
        <4>2. \A e \in Calls : e # c => phase'[e] = phase[e]
          BY <1>5, <1>t, <2>1 DEF Sent, TypeOK
        <4>3. Senders' = Senders \ {c}
          BY <4>1, <4>2, SendersMove
        <4> QED
          BY <4>1, <4>3 DEF Senders
      <3>3. Routing!Written(c)
        BY <1>5, <2>1, <3>1, <3>2 DEF Sent, connVars, Routing!Written
      <3> QED
        BY <3>3 DEF Routing!RNext
    <2>2. CASE future[c] # "pending"
      <3>1. InFlight(c) /\ future[c] \in {"result", "failed"}
        BY <1>5, <1>f, <2>2 DEF Sent, InFlight, Futures, ManagerInv, CallStates
      <3>2. future[c] = "failed" => connections[DeviceOf[c]] # session[c]
        BY <3>1 DEF ManagerInv, CallStates
      <3> QED
        BY <1>5, <2>2, <3>1, <3>2, TellRefines DEF Sent, Answer, connVars
    <2> QED
      BY <2>1, <2>2
  <1>6. CASE SendFails(c)
    <2> DEFINE d == DeviceOf[c]
               s == session[c]
               D == IF connections[d] = s THEN {d} ELSE {}
    <2>1. InFlight(c) /\ s # None /\ s \in Sessions
      BY <1>6 DEF SendFails, InFlight, ManagerInv, SessionsOpened
    <2>2. StatusOf(c)' = "closed" /\ c \in Senders /\ Senders' = Senders \ {c}
      <3>1. /\ Sending(c) /\ ~Sending(c)'
            /\ \A e \in Calls : e # c => phase'[e] = phase[e]
        BY <1>6, <1>t DEF SendFails, Return, Sending, TypeOK
      <3> QED
        BY <1>6, <1>t, <3>1, SendersMove
        DEF SendFails, Return, StatusOf, Senders, TypeOK
    <2>3. ASSUME NEW e \in Calls, e # c
          PROVE  StatusOf(e)' = Routing!Lose(D)[e]
      <3>1. future'[e] = IF /\ connections[d] = s /\ DeviceOf[e] = d
                            /\ pending[IdOf[e]] = e /\ future[e] = "pending"
                         THEN "failed" ELSE future[e]
        BY <1>6, <2>3 DEF SendFails, Finally, Failed, LostWith, PendingOf
      <3>2. phase'[e] = phase[e]
        BY <1>6, <1>t, <2>3 DEF SendFails, Return, TypeOK
      <3>3. pending[IdOf[e]] = e => InFlight(e)
        BY DEF ManagerInv, PendingIsRoutable
      <3>4. InFlight(e) /\ future[e] = "pending" => pending[IdOf[e]] = e
        BY DEF ManagerInv, WaitingIsReachable
      <3>5. InFlight(e) => future[e] # "cancelled"
        BY DEF ManagerInv, CallStates
      <3>6. future[e] \in Futures /\ phase[e] \in Phases
        BY <1>t DEF TypeOK
      <3> QED
        BY <2>3, <3>1, <3>2, <3>3, <3>4, <3>5, <3>6
        DEF StatusOf, InFlight, Futures, Phases, Routing!Lose, Routing!OpenOn
    <2>4. [e \in Calls |-> StatusOf(e)]'
             = [Routing!Lose(D) EXCEPT ![c] = "closed"]
      BY <2>2, <2>3 DEF Routing!Lose
    <2>5. connections' = [e \in Devices |-> IF e \in D THEN None
                                            ELSE connections[e]]
      BY <1>6, <1>t DEF SendFails, Disconnected, TypeOK
    <2>6. Routing!Reachable(c) <=> connections[d] = s
      BY <2>1 DEF Routing!Reachable
    <2>7. UNCHANGED <<handler, session, wire, late, source>>
          /\ outcome' = [outcome EXCEPT ![c] = "send_failed"]
      BY <1>6 DEF SendFails, Return
    <2>8. Routing!WriteFails(c)
      BY <2>2, <2>4, <2>5, <2>6, <2>7 DEF Routing!WriteFails
    <2> QED
      BY <2>8 DEF Routing!RNext
  <1>7. CASE ResultReady(c)
    <2>1. InFlight(c) /\ c \in wire /\ future[c] \in {"result", "failed"}
      BY <1>7, <1>f DEF ResultReady, InFlight, Futures, ManagerInv, CallStates
    <2>2. future[c] = "failed" => connections[DeviceOf[c]] # session[c]
      BY <2>1 DEF ManagerInv, CallStates
    <2> QED
      BY <1>7, <2>1, <2>2, TellRefines
      DEF ResultReady, Answer, Sending, connVars
  <1>8. CASE TimerFires(c)
    <2>1. [e \in Calls |-> StatusOf(e)]' = [e \in Calls |-> StatusOf(e)]
      BY <1>8, <1>t DEF TimerFires, StatusOf, TypeOK
    <2>2. Senders' = Senders
      <3>1. ~Sending(c)' /\ c \notin Senders
        BY <1>8, <1>t DEF TimerFires, Sending, Senders, TypeOK
      <3>2. \A e \in Calls : e # c => phase'[e] = phase[e]
        BY <1>8, <1>t DEF TimerFires, TypeOK
      <3>3. Senders' = Senders \ {c}
        BY <3>1, <3>2, SendersMove
      <3> QED
        BY <3>1, <3>3
    <2> QED
      BY <1>8, <2>1, <2>2 DEF TimerFires, connVars, Routing!rvars
  <1>9. CASE TimeoutRaised(c)
    BY <1>9, TellRefines DEF TimeoutRaised, InFlight, Sending, connVars
  <1> QED
    BY <1>1, <1>2, <1>3, <1>w, <1>4, <1>5, <1>6, <1>7, <1>8, <1>9 DEF CallStep

\* The connection manager implements the abstract routing: a command is handed to its
\* session only while that is current and free, a result comes from the session the
\* command was routed to, and a lost session never comes back.
THEOREM Refinement == Spec => RoutesCommands
  <1>1. ManagerInv /\ [Next]_vars => [Routing!RNext]_(Routing!rvars)
    <2> SUFFICES ASSUME ManagerInv, [Next]_vars
                 PROVE  [Routing!RNext]_(Routing!rvars)
      OBVIOUS
    <2>1. CASE UNCHANGED vars
      BY <2>1 DEF vars, Routing!rvars, StatusOf, Senders, Sending
    <2> QED
      BY <2>1, SessionStepRefines, CallStepRefines, ResultStepRefines DEF Next
  <1> QED
    BY <1>1, InitRefines, ManagerInvariant, PTL
    DEF Spec, RoutesCommands, Routing!RSpec
-----------------------------------------------------------------------------
(* What the refinement is good for *)

Promise == INSTANCE CommandRoutingProofs WITH
    current <- connections,
    used    <- {s \in Sessions : handler[s] # "none"},
    route   <- session,
    status  <- [c \in Calls |-> StatusOf(c)],
    handed  <- Senders,
    frames  <- wire,
    reply   <- outcome

\* What execute() returns or raises is true, and stays true: a refused call wrote
\* nothing, a result came over the session the frame went to, and the session of a
\* call that was told offline is not the device's again (memory.py:246-289, 303-317).
OutcomesAreTrue ==
    \A c \in Calls : phase[c] = "returned" =>
        /\ outcome[c] = "refused" => session[c] = None /\ c \notin wire
        /\ outcome[c] = "result" =>
              c \in wire /\ session[c] # None /\ source[c] = session[c]
        /\ outcome[c] = "offline" =>
              session[c] # None /\ connections[DeviceOf[c]] # session[c]

\* A result is accepted over the session of its command only, while that is the
\* device's current one, before the call has returned and at most once
\* (memory.py:303-317).
ResultsAreOwn ==
    [][\A c \in Calls : source'[c] # source[c] =>
          /\ InFlight(c) /\ future[c] = "pending" /\ future'[c] = "result"
          /\ session[c] # None /\ connections[DeviceOf[c]] = session[c]
          /\ source'[c] = session[c]]_vars

\* Of the frames that went out on a session after it was replaced or dropped there is
\* at most one, and no result is accepted for it (memory.py:261-269, 303-317,
\* device_gateway.py:86).
LateFramesAreOne ==
    /\ \A c, e \in late : session[c] = session[e] => c = e
    /\ \A c \in late :
          /\ c \in wire
          /\ connections[DeviceOf[c]] # session[c]
          /\ InFlight(c) => future[c] # "pending"

LEMMA Addressed == Promise!WellAddressed
  BY ManagerAssumption DEF Promise!WellAddressed

\* The manager keeps every promise of the abstract routing.
LEMMA KeepsPromise == Spec => Promise!RSpec
  <1>1. Routing!RInit => Promise!RInit
    BY DEF Routing!RInit, Promise!RInit
  <1>2. [Routing!RNext]_(Routing!rvars) => [Promise!RNext]_(Promise!rvars)
    BY DEF Routing!RNext, Promise!RNext, Routing!rvars, Promise!rvars,
           Routing!Join, Promise!Join, Routing!Leave, Promise!Leave,
           Routing!Refused, Promise!Refused, Routing!Accept, Promise!Accept,
           Routing!Hand, Promise!Hand, Routing!Free, Promise!Free,
           Routing!Written, Promise!Written,
           Routing!WriteFrame, Promise!WriteFrame, Routing!Answered, Promise!Answered,
           Routing!Tell, Promise!Tell, Routing!WriteFails, Promise!WriteFails,
           Routing!Lose, Promise!Lose, Routing!OpenOn, Promise!OpenOn,
           Routing!Reachable, Promise!Reachable
  <1> QED
    BY Refinement, <1>1, <1>2, PTL DEF RoutesCommands, Routing!RSpec, Promise!RSpec

\* Whatever interleaves with it, the owner of a command is told the truth.
THEOREM OwnerIsToldTheTruth == Spec => []OutcomesAreTrue
  <1>1. Promise!RSpec => []Promise!OwnerIsTold
    BY Addressed, Promise!OwnerToldTruth
  <1>2. ASSUME Promise!OwnerIsTold
        PROVE  OutcomesAreTrue
    <2>1. \A c \in Calls : StatusOf(c) = "closed" <=> phase[c] = "returned"
      BY DEF StatusOf
    <2> QED
      BY <1>2, <2>1 DEF OutcomesAreTrue, Promise!OwnerIsTold
  <1> QED
    BY <1>1, <1>2, KeepsPromise, PTL

\* The close of a lost session may wait for one command, never for two.
THEOREM LateFrameGoesAlone == Spec => []LateFramesAreOne
  <1>1. Promise!RSpec => []Promise!LateFrameIsLast
    BY Addressed, Promise!OneLateFrame
  <1>2. ASSUME ManagerInv, Promise!LateFrameIsLast
        PROVE  LateFramesAreOne
    <2>1. late \subseteq Calls
      BY <1>2 DEF ManagerInv, TypeOK
    <2>2. \A c \in Calls : InFlight(c) /\ future[c] = "pending" => StatusOf(c) = "open"
      BY DEF StatusOf, InFlight
    <2> QED
      BY <1>2, <2>1, <2>2 DEF LateFramesAreOne, Promise!LateFrameIsLast
  <1> QED
    BY <1>1, <1>2, KeepsPromise, ManagerInvariant, PTL

\* Delayed, repeated and misdirected results change nothing.
THEOREM ResultsComeFromTheirSession == Spec => ResultsAreOwn
  <1>1. ASSUME ManagerInv, Next, NEW c \in Calls, source'[c] # source[c]
        PROVE  /\ InFlight(c) /\ future[c] = "pending" /\ future'[c] = "result"
               /\ session[c] # None /\ connections[DeviceOf[c]] = session[c]
               /\ source'[c] = session[c]
    <2>1. PICK s \in Sessions, i \in CommandIds : Resolve(s, i)
      BY <1>1
      DEF Next, SessionStep, CallStep, ResultStep, callVars, Connect, Activate, Teardown,
          TeardownSkipped, GatewayCloses, CloseTransport, DisconnectDevice, CloseAll,
          Refuse, Admit, StartSend, SendTooLate, WriteFrame, Sent, SendFails,
          ResultReady, TimerFires, TimeoutRaised
    <2>2. pending[i] = c /\ source'[c] = s
      BY <1>1, <2>1 DEF Resolve, ManagerInv, TypeOK
    <2>3. InFlight(c) /\ future[c] = "pending" /\ session[c] = s
      BY <1>1, <2>1, <2>2, ManagerAssumption
      DEF Resolve, Matches, ManagerInv, PendingIsRoutable
    <2>4. connections[DeviceOf[c]] = s /\ s # None
      BY <2>1, <2>2, ManagerAssumption DEF Resolve, Matches
    <2>5. future'[c] = "result"
      BY <1>1, <2>1, <2>2, <2>3 DEF Resolve, ManagerInv, TypeOK
    <2> QED
      BY <2>2, <2>3, <2>4, <2>5
  <1>2. ManagerInv /\ [Next]_vars =>
          [\A c \in Calls : source'[c] # source[c] =>
              /\ InFlight(c) /\ future[c] = "pending" /\ future'[c] = "result"
              /\ session[c] # None /\ connections[DeviceOf[c]] = session[c]
              /\ source'[c] = session[c]]_vars
    BY <1>1 DEF vars
  <1> QED
    BY <1>2, ManagerInvariant, PTL DEF Spec, ResultsAreOwn
=============================================================================
