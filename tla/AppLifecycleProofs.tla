------------------------- MODULE AppLifecycleProofs -------------------------
(***************************************************************************)
(* The safety properties of AppLifecycle, proved for every set of          *)
(* configurations, secrets, probes and revisions.                          *)
(***************************************************************************)
EXTENDS AppLifecycle, TLAPS

-----------------------------------------------------------------------------
(* The inductive invariant *)

\* What the lifespan holds in each of its phases.
Stack ==
    /\ phase \in {"import", "refused", "created", "failed", "off"} =>
           open = {} /\ state = {}
    /\ phase = "database" => open = {"database"} /\ state = {"database"}
    /\ phase = "provider" =>
           /\ open = {"database", "provider"}
           /\ state = {"database", "ai_provider", "prompt_builder"}
    /\ phase \in {"serving", "draining"} => open = Resources /\ state = Attributes
    /\ phase = "closing_provider" => open = {"database", "provider"}
    /\ phase = "disposing" => open = {"database"}

\* Probes, requests and sessions run while the process serves or drains.
AllServed ==
    /\ \A p \in Probes : InFlight(p) => phase \in {"serving", "draining"}
    /\ busy # {} => phase \in {"serving", "draining"}

\* A probe that saw the head is marked so.
Witnessed ==
    \A p \in Probes :
        /\ InFlight(p) /\ up /\ revision = Head => sawHead[p]
        /\ probe[p] \in {<<"inspected", "current">>, <<"ok", "current">>} => sawHead[p]

\* What validation and the factories have established when a request is let in.
Vetted ==
    /\ phase \notin {"import", "refused"} => Valid(settings)
    /\ phase \in {"provider", "serving"} => settings.provider = "gemini"
    /\ admitted # {} => /\ phase \notin {"import", "refused"}
                        /\ settings.provider = "gemini"
    /\ \A a \in admitted : a[2] = settings[a[1]]

LInv == TypeOK /\ Stack /\ AllServed /\ Witnessed /\ Vetted

-----------------------------------------------------------------------------
LEMMA InitEstablishes == Init => LInv
  <1> SUFFICES ASSUME Init PROVE LInv
    OBVIOUS
  <1>1. \A p \in Probes : probe[p] = <<"idle", "unknown">> /\ ~InFlight(p)
    BY DEF Init, InFlight
  <1>2. TypeOK
    BY LifecycleAssumption DEF Init, TypeOK, Phases, Stages, Reports
  <1>3. Stack /\ Vetted
    BY DEF Init, Stack, Vetted
  <1>4. AllServed /\ Witnessed
    BY <1>1 DEF Init, AllServed, Witnessed
  <1> QED BY <1>2, <1>3, <1>4 DEF LInv

\* Opening and closing: no probe or request changes, and the ones in flight keep
\* the resources open.
LEMMA PhaseStep ==
  ASSUME LInv,
         CreateApp \/ OpenDatabase \/ OpenProvider \/ OpenHive \/ Drain \/ Shutdown
  PROVE  LInv'
  <1> USE DEF LInv
  <1>1. UNCHANGED <<settings, up, revision, probe, sawHead, busy, admitted>>
    BY DEF CreateApp, OpenDatabase, OpenProvider, OpenHive, Drain, Shutdown, CloseHive,
           CloseProvider, Dispose, dbVars, probeVars, requestVars
  <1>2. Drained \/ Drain
    BY DEF AllServed, Drained, CreateApp, OpenDatabase, OpenProvider, OpenHive, Shutdown,
           CloseHive, CloseProvider, Dispose
  <1>3. phase' \in Phases /\ open' \in SUBSET Resources /\ state' \in SUBSET Attributes
    BY DEF CreateApp, OpenDatabase, OpenProvider, OpenHive, Drain, Shutdown, CloseHive,
           CloseProvider, Dispose, TypeOK, Phases, Resources, Attributes
  <1>4. TypeOK'
    BY <1>1, <1>3 DEF TypeOK
  <1>5. Witnessed'
    BY <1>1 DEF Witnessed, InFlight
  <1>6. AllServed'
    BY <1>1, <1>2 DEF AllServed, Drained, InFlight, Drain
  <1>7. Stack'
    <2>1. CASE CreateApp \/ OpenDatabase \/ Drain
      BY <2>1 DEF CreateApp, OpenDatabase, Drain, Stack, Resources, Attributes
    <2>2. CASE OpenProvider \/ OpenHive
      BY <2>2 DEF OpenProvider, OpenHive, Stack, Resources, Attributes
    <2>3. CASE Shutdown
      BY <2>3 DEF Shutdown, CloseHive, CloseProvider, Dispose, Stack, Resources, Attributes
    <2> QED BY <2>1, <2>2, <2>3
  <1>8. Vetted'
    <2>1. phase' \notin {"import", "refused"} => Valid(settings)
      BY DEF CreateApp, OpenDatabase, OpenProvider, OpenHive, Drain, Shutdown, CloseHive,
             CloseProvider, Dispose, Vetted
    <2>2. phase' \in {"provider", "serving"} => settings.provider = "gemini"
      BY DEF CreateApp, OpenDatabase, OpenProvider, OpenHive, Drain, Shutdown, CloseHive,
             CloseProvider, Dispose, Vetted
    <2>3. admitted # {} => phase' \notin {"import", "refused"}
      BY DEF CreateApp, OpenDatabase, OpenProvider, OpenHive, Drain, Shutdown, CloseHive,
             CloseProvider, Dispose, Vetted
    <2>4. Valid(settings)' <=> Valid(settings)
      BY <1>1 DEF Valid, AllDiffer, Credentials
    <2> QED BY <1>1, <2>1, <2>2, <2>3, <2>4 DEF Vetted
  <1> QED BY <1>4, <1>5, <1>6, <1>7, <1>8

\* A request that is let in presented the secret of its API.
LEMMA RequestStep ==
  ASSUME LInv, NEW r \in Requests, NEW api \in {"owner", "admin"}, NEW token \in Values,
         Request(r, api, token)
  PROVE  LInv'
  <1> USE DEF LInv
  <1>1. /\ admitted' = admitted \cup {<<api, token>>} /\ token = settings[api]
        /\ UNCHANGED <<settings, phase, open, state, up, revision, probe, sawHead>>
        /\ phase = "serving" /\ busy' = busy \cup {r}
    BY DEF Request, Authorized, RequireOwner, RequireDeviceAdmin, dbVars, probeVars, TypeOK,
           Settings
  <1>2. TypeOK' /\ Stack' /\ AllServed' /\ Witnessed'
    BY <1>1 DEF TypeOK, Stack, AllServed, Witnessed, InFlight
  <1>3. Vetted'
    BY <1>1 DEF Vetted, Valid, AllDiffer, Credentials
  <1> QED BY <1>2, <1>3

\* Sessions begin, and requests and sessions end, under the resources they found.
LEMMA BusyStep ==
  ASSUME LInv, NEW r \in Requests, OpenSession(r) \/ RequestEnds(r)
  PROVE  LInv'
  <1> USE DEF LInv
  <1>1. /\ UNCHANGED <<settings, phase, open, state, up, revision, probe, sawHead, admitted>>
        /\ busy' \in SUBSET Requests
        /\ busy' # {} => phase = "serving" \/ busy # {}
    BY DEF OpenSession, RequestEnds, dbVars, probeVars, TypeOK
  <1>2. TypeOK' /\ Stack' /\ AllServed' /\ Witnessed'
    BY <1>1 DEF TypeOK, Stack, AllServed, Witnessed, InFlight
  <1>3. Vetted'
    BY <1>1 DEF Vetted, Valid, AllDiffer, Credentials
  <1> QED BY <1>2, <1>3

\* A probe that reports was marked before, by its own start or by the database.
LEMMA ProbeStep ==
  ASSUME LInv, NEW p \in Probes,
         \/ AskReadiness(p) \/ Connect(p) \/ InspectHeads(p) \/ Answer(p)
         \/ ProbeFails(p) \/ ProbeTimesOut(p)
  PROVE  LInv'
  <1> USE DEF LInv
  <1>1. /\ UNCHANGED <<settings, phase, open, state, up, revision, busy, admitted>>
        /\ \/ phase = "serving" \/ InFlight(p)
        /\ \E w \in {"connecting", "connected", "inspected", "ok", "unavailable"},
              m \in {"current", "outdated", "unknown"} :
              /\ ProbeTo(p, w, m)
              /\ w = "unavailable" => m = "unknown"
              /\ w \in {"inspected", "ok"} /\ m = "current" => sawHead'[p]
    <2>1. CASE AskReadiness(p)
      BY <2>1 DEF AskReadiness, dbVars, requestVars
    <2>2. CASE Connect(p)
      BY <2>2 DEF Connect, dbVars, requestVars, InFlight
    <2>3. CASE InspectHeads(p)
      <3>1. up /\ revision = Head => sawHead[p]
        BY <2>3 DEF InspectHeads, InFlight, Witnessed
      <3> QED BY <2>3, <3>1 DEF InspectHeads, dbVars, requestVars, InFlight
    <2>4. CASE Answer(p)
      <3>1. probe[p] = <<"inspected", probe[p][2]>>
            /\ probe[p][2] \in {"current", "outdated", "unknown"}
        BY <2>4 DEF Answer, TypeOK, Stages, Reports
      <3>2. probe[p][2] = "current" => sawHead[p]
        BY <3>1 DEF Witnessed
      <3>3. ProbeTo(p, "ok", probe[p][2]) /\ InFlight(p) /\ sawHead' = sawHead
            /\ UNCHANGED <<settings, phase, open, state, up, revision, busy, admitted>>
        BY <2>4 DEF Answer, Report, dbVars, requestVars, InFlight
      <3> QED BY <3>1, <3>2, <3>3
    <2>5. CASE ProbeFails(p) \/ ProbeTimesOut(p)
      BY <2>5 DEF ProbeFails, ProbeTimesOut, dbVars, requestVars
    <2> QED BY <2>1, <2>2, <2>3, <2>4, <2>5
  <1>2. PICK w \in {"connecting", "connected", "inspected", "ok", "unavailable"},
             m \in {"current", "outdated", "unknown"} :
              /\ ProbeTo(p, w, m)
              /\ w = "unavailable" => m = "unknown"
              /\ w \in {"inspected", "ok"} /\ m = "current" => sawHead'[p]
    BY <1>1
  <1>3. /\ probe' = [probe EXCEPT ![p] = <<w, m>>]
        /\ probe'[p] = <<w, m>>
        /\ \A q \in Probes \ {p} : probe'[q] = probe[q]
    BY <1>2 DEF ProbeTo, TypeOK
  <1>4. /\ sawHead' \in [Probes -> BOOLEAN]
        /\ \A q \in Probes \ {p} : sawHead'[q] = sawHead[q]
        /\ InFlight(p) /\ sawHead[p] => sawHead'[p]
        /\ ~InFlight(p) /\ up /\ revision = Head => sawHead'[p]
    <2>1. CASE AskReadiness(p)
      BY <2>1 DEF AskReadiness, TypeOK, InFlight
    <2>2. CASE ~AskReadiness(p)
      <3>1. sawHead' = sawHead /\ InFlight(p)
        BY <2>2 DEF Connect, InspectHeads, Answer, ProbeFails, ProbeTimesOut, InFlight
      <3> QED BY <3>1 DEF TypeOK
    <2> QED BY <2>1, <2>2
  <1>5. TypeOK'
    <2>1. <<w, m>> \in Stages \cup Reports
      BY <1>2 DEF Stages, Reports
    <2> QED BY <1>1, <1>3, <1>4, <2>1 DEF TypeOK
  <1>6. phase \in {"serving", "draining"}
    BY <1>1 DEF AllServed
  <1>7. Stack' /\ AllServed'
    BY <1>1, <1>6 DEF Stack, AllServed
  <1>8. Witnessed'
    BY <1>1, <1>2, <1>3, <1>4 DEF Witnessed, InFlight
  <1>9. Vetted'
    BY <1>1 DEF Vetted, Valid, AllDiffer, Credentials
  <1> QED BY <1>5, <1>7, <1>8, <1>9

\* A change of the database marks the probes that run.
LEMMA DatabaseStep == LInv /\ DatabaseChanges => LInv'
  <1> SUFFICES ASSUME LInv, DatabaseChanges PROVE LInv'
    OBVIOUS
  <1> USE DEF LInv, DatabaseChanges, requestVars
  <1>1. TypeOK'
    BY DEF TypeOK, dbVars, requestVars
  <1>2. Stack' /\ AllServed'
    BY DEF Stack, AllServed, InFlight
  <1>4. Vetted'
    BY DEF Vetted, Valid, AllDiffer, Credentials
  <1>3. Witnessed'
    BY DEF Witnessed, InFlight, TypeOK
  <1> QED BY <1>1, <1>2, <1>3, <1>4

\* The inductive invariant: what each phase holds, which probes run and what they
\* saw, and what validation has established.
THEOREM LifecycleInvariant == Spec => []LInv
  <1>1. Init => LInv
    BY InitEstablishes
  <1>2. LInv /\ [Next]_vars => LInv'
    <2> SUFFICES ASSUME LInv, [Next]_vars PROVE LInv'
      OBVIOUS
    <2>1. CASE UNCHANGED vars
      <3>1. TypeOK' /\ Stack'
        BY <2>1 DEF vars, LInv, TypeOK, Stack
      <3>2. AllServed' /\ Witnessed'
        BY <2>1 DEF vars, LInv, AllServed, Witnessed, InFlight
      <3>3. Vetted'
        BY <2>1 DEF vars, LInv, Vetted, Valid, AllDiffer, Credentials
      <3> QED BY <3>1, <3>2, <3>3 DEF LInv
    <2>2. CASE CreateApp \/ OpenDatabase \/ OpenProvider \/ OpenHive \/ Drain \/ Shutdown
      BY <2>2, PhaseStep
    <2>3. CASE \E r \in Requests :
                  \/ \E api \in {"owner", "admin"}, token \in Values :
                        Request(r, api, token)
                  \/ OpenSession(r) \/ RequestEnds(r)
      BY <2>3, RequestStep, BusyStep
    <2>4. CASE \E p \in Probes :
                  \/ AskReadiness(p) \/ Connect(p) \/ InspectHeads(p) \/ Answer(p)
                  \/ ProbeFails(p) \/ ProbeTimesOut(p)
      BY <2>4, ProbeStep
    <2>5. CASE DatabaseChanges
      BY <2>5, DatabaseStep
    <2> QED BY <2>1, <2>2, <2>3, <2>4, <2>5 DEF Next
  <1> QED BY <1>1, <1>2, PTL DEF Spec

-----------------------------------------------------------------------------
(* What follows from it *)

\* Every variable of the process keeps its type.
THEOREM LifecycleTypeCorrect == Spec => []TypeOK
  <1>1. LInv => TypeOK
    BY DEF LInv
  <1> QED BY <1>1, LifecycleInvariant, PTL

\* Resources are opened and closed as a stack, whatever raises
\* (main.py:47-77).
THEOREM ResourcesAreNested == Spec => []ResourcesNested
  <1>1. LInv => ResourcesNested
    BY DEF LInv, TypeOK, Phases, Stack, AllServed, Drained, ResourcesNested, Resources,
           Attributes
  <1> QED BY <1>1, LifecycleInvariant, PTL

\* A ready report was true at some moment of its probe (readiness.py:39-86).
THEOREM ReadyReportsAreTrue == Spec => []ReadyWasTrue
  <1>1. LInv => ReadyWasTrue
    BY DEF LInv, Witnessed, ReadyWasTrue
  <1> QED BY <1>1, LifecycleInvariant, PTL

\* In production no token that opens an API is used for anything else
\* (config.py:74-132).
THEOREM SecretsAreApart == Spec => []SecretsStayApart
  <1>1. LInv => SecretsStayApart
    <2> SUFFICES ASSUME LInv, settings.production, NEW a \in admitted,
                        NEW f \in DOMAIN Credentials(settings), f # a[1]
                 PROVE  settings[f] # a[2]
      BY DEF SecretsStayApart
    <2>1. a[1] \in {"owner", "admin"} /\ a[2] = settings[a[1]]
      BY DEF LInv, TypeOK, Vetted
    <2>2. Valid(settings) /\ settings.provider = "gemini"
      BY DEF LInv, Vetted
    <2>3. DOMAIN Credentials(settings) = {"owner", "admin", "digest", "database", "gemini"}
          /\ \A g \in DOMAIN Credentials(settings) : Credentials(settings)[g] = settings[g]
      BY DEF Credentials
    <2>4. \A g \in DOMAIN Credentials(settings) : IsPresent(settings[g])
      BY <2>2, <2>3, LifecycleAssumption
         DEF Valid, IsPresent, IsConfigured, IsStrong, IsStrongBearer
    <2>5. \A g, h \in DOMAIN Credentials(settings) : g # h => settings[g] # settings[h]
      BY <2>2, <2>3, <2>4 DEF Valid, AllDiffer
    <2> QED BY <2>1, <2>3, <2>5
  <1> QED BY <1>1, LifecycleInvariant, PTL
=============================================================================
