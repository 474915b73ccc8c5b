---------------------------- MODULE AppLifecycle ----------------------------
(***************************************************************************)
(* One Core process: the settings it accepts (app/core/config.py), the     *)
(* resources its lifespan opens and closes (app/main.py,                   *)
(* app/infrastructure/hive.py), the bearer secrets its APIs compare        *)
(* (app/api/owner_dependencies.py, device_dependencies.py) and the         *)
(* readiness probe (app/infrastructure/readiness.py,                       *)
(* app/application/readiness_service.py).                                  *)
(*                                                                         *)
(* A secret is a value after strip().  The database is outside: it comes   *)
(* and goes, and its revision changes under a running probe.  A memory,    *)
(* chat or device request awaits it, the AI service or a device without a  *)
(* limit (infrastructure/database.py, ai/gemini.py, devices/memory.py):    *)
(* between its start and its end such a request is in progress, and the    *)
(* server's shutdown waits for it.                                         *)
(***************************************************************************)
CONSTANTS
    Configurations,   \* the settings the process may be started with
    Secrets,          \* values of 32 or more ASCII characters
    Requests,         \* memory, chat and device requests, and device sessions
    Probes,           \* requests of /health/ready
    Revisions,        \* revisions the database may be at
    Head              \* the head of the migration scripts

\* "blank" is white space, "placeholder" one of _PLACEHOLDER_SECRETS, "wide" is
\* long but not ASCII.
Values == Secrets \cup {"none", "blank", "placeholder", "short", "wide"}

Settings ==
    [production : BOOLEAN, provider : {"gemini", "other"},
     owner : Values, admin : Values, digest : Values, database : Values,
     gemini : Values, url : BOOLEAN, hosts : BOOLEAN, origins : BOOLEAN]

ASSUME LifecycleAssumption ==
    /\ Configurations \subseteq Settings
    /\ Secrets \cap {"none", "blank", "placeholder", "short", "wide"} = {}
    /\ Head \in Revisions

VARIABLES
    settings,   \* resolved_settings
    phase,      \* where the process is
    open,       \* resources that were opened and not asked to close
    state,      \* attributes of application.state
    up,         \* the database answers
    revision,   \* the revision it is at
    probe,      \* where each probe is, or its report
    sawHead,    \* history: the database was up and at Head during the probe
    busy,       \* requests and sessions in progress
    admitted    \* history: <<api, bearer token>> of requests that were let in

dbVars == <<up, revision>>
probeVars == <<probe, sawHead>>
requestVars == <<busy, admitted>>
vars == <<settings, phase, open, state, up, revision, probe, sawHead, busy, admitted>>

Phases ==
    {"import", "refused", "created", "database", "provider", "serving",
     "draining", "closing_provider", "disposing", "failed", "off"}

Resources == {"database", "provider", "hive"}
Attributes == {"database", "ai_provider", "prompt_builder", "hive"}

\* Where a probe is, and what it knows of the migrations.
Reports == {"ok", "unavailable"} \X {"current", "outdated", "unknown"}
Stages == {"idle", "connecting", "connected", "inspected"} \X {"current", "outdated", "unknown"}
InFlight(p) == probe[p][1] \in {"connecting", "connected", "inspected"}

TypeOK ==
    /\ settings \in Settings
    /\ phase \in Phases
    /\ open \in SUBSET Resources
    /\ state \in SUBSET Attributes
    /\ up \in BOOLEAN
    /\ revision \in Revisions
    /\ probe \in [Probes -> Stages \cup Reports]
    /\ sawHead \in [Probes -> BOOLEAN]
    /\ busy \in SUBSET Requests
    /\ admitted \in SUBSET ({"owner", "admin"} \X Values)

Init ==
    /\ settings \in Configurations
    /\ phase = "import"
    /\ open = {}
    /\ state = {}
    /\ up \in BOOLEAN
    /\ revision \in Revisions
    /\ probe = [p \in Probes |-> <<"idle", "unknown">>]
    /\ sawHead = [p \in Probes |-> FALSE]
    /\ busy = {}
    /\ admitted = {}

-----------------------------------------------------------------------------
(* validate_runtime_settings *)

IsPresent(v) == v \notin {"none", "blank"}
IsConfigured(v) == IsPresent(v) /\ v # "placeholder"
IsStrong(v) == v \in Secrets \cup {"wide"}
IsStrongBearer(v) == v \in Secrets

Credentials(s) == [f \in {"owner", "admin", "digest", "database", "gemini"} |-> s[f]]

\* Mutant of AllDiffer: the comparison leaves the AI key out.
TokensDiffer(s) ==
    LET c == [f \in {"owner", "admin", "digest", "database"} |-> s[f]] IN
    \A f, g \in DOMAIN c : f # g => c[f] # c[g]

\* The comparison is made only if every credential is set.
AllDiffer(s) ==
    LET c == Credentials(s) IN
    (\A f \in DOMAIN c : IsPresent(c[f]))
        => \A f, g \in DOMAIN c : f # g => c[f] # c[g]

Valid(s) ==
    s.production =>
        /\ IsStrongBearer(s.owner) /\ IsStrongBearer(s.admin)
        /\ IsStrong(s.digest)
        /\ s.provider = "gemini" => IsConfigured(s.gemini)
        /\ s.url /\ IsStrong(s.database)
        /\ AllDiffer(s)
        /\ s.hosts /\ s.origins

CreateApp ==
    /\ phase = "import"
    /\ phase' = IF Valid(settings) THEN "created" ELSE "refused"
    /\ UNCHANGED <<settings, open, state, dbVars, probeVars, requestVars>>

-----------------------------------------------------------------------------
(* The lifespan.  Every factory and every close may raise; a close that does  *)
(* does not keep the next one from being called.                              *)

\* The engine is made outside the try statement.
OpenDatabase ==
    /\ phase = "created"
    /\ \/ /\ phase' = "database"
          /\ open' = open \cup {"database"}
          /\ state' = state \cup {"database"}
       \/ /\ phase' = "failed"
          /\ UNCHANGED <<open, state>>
    /\ UNCHANGED <<settings, dbVars, probeVars, requestVars>>

\* create_ai_provider knows Gemini only, and wants a key that is not empty.
OpenProvider ==
    /\ phase = "database"
    /\ \/ /\ settings.provider = "gemini" /\ settings.gemini # "none"
          /\ phase' = "provider"
          /\ open' = open \cup {"provider"}
          /\ state' = state \cup {"ai_provider", "prompt_builder"}
       \/ /\ phase' = "disposing"
          /\ UNCHANGED <<open, state>>
    /\ UNCHANGED <<settings, dbVars, probeVars, requestVars>>

\* create_hive_resources wants a strong digest key in every environment.
OpenHive ==
    /\ phase = "provider"
    /\ \/ /\ IsStrong(settings.digest)
          /\ phase' = "serving"
          /\ open' = open \cup {"hive"}
          /\ state' = state \cup {"hive"}
       \/ /\ phase' = "closing_provider"
          /\ UNCHANGED <<open, state>>
    /\ UNCHANGED <<settings, dbVars, probeVars, requestVars>>

\* The server stops taking requests, and lets those it has finish.  It is started
\* without a limit for that (Dockerfile:41, compose.prod.yml:144-158).
Drain ==
    /\ phase = "serving"
    /\ phase' = "draining"
    /\ UNCHANGED <<settings, open, state, dbVars, probeVars, requestVars>>

Drained == busy = {} /\ \A p \in Probes : ~InFlight(p)

\* Mutant of CloseHive: nothing is closed after an error of the hive.
CloseHiveRaises ==
    /\ phase = "draining" /\ Drained
    /\ open' = open \ {"hive"}
    /\ phase' = "off"
    /\ UNCHANGED <<settings, state, dbVars, probeVars, requestVars>>

CloseHive ==
    /\ phase = "draining" /\ Drained
    /\ open' = open \ {"hive"}
    /\ phase' = "closing_provider"
    /\ UNCHANGED <<settings, state, dbVars, probeVars, requestVars>>

CloseProvider ==
    /\ phase = "closing_provider"
    /\ open' = open \ {"provider"}
    /\ phase' = "disposing"
    /\ UNCHANGED <<settings, state, dbVars, probeVars, requestVars>>

Dispose ==
    /\ phase = "disposing"
    /\ open' = open \ {"database"}
    /\ state' = {}
    /\ phase' = "off"
    /\ UNCHANGED <<settings, dbVars, probeVars, requestVars>>

-----------------------------------------------------------------------------
(* Requests *)

\* A secret that is too weak closes its API; else the token has to be equal to it.
RequireOwner(token) == IsStrongBearer(settings.owner) /\ token = settings.owner
RequireDeviceAdmin(token) == IsStrongBearer(settings.admin) /\ token = settings.admin

Authorized(api, token) ==
    \/ api = "owner" /\ RequireOwner(token)
    \/ api = "admin" /\ RequireDeviceAdmin(token)

\* Mutant of Request: requests are let in while the server drains.
RequestWhileDraining(r, api, token) ==
    /\ phase \in {"serving", "draining"}
    /\ r \notin busy
    /\ Authorized(api, token)
    /\ busy' = busy \cup {r}
    /\ admitted' = admitted \cup {<<api, token>>}
    /\ UNCHANGED <<settings, phase, open, state, dbVars, probeVars>>

\* A request is let in and runs.
Request(r, api, token) ==
    /\ phase = "serving"
    /\ r \notin busy
    /\ Authorized(api, token)
    /\ busy' = busy \cup {r}
    /\ admitted' = admitted \cup {<<api, token>>}
    /\ UNCHANGED <<settings, phase, open, state, dbVars, probeVars>>

\* A device connects with its own credential, and its session is served.
OpenSession(r) ==
    /\ phase = "serving" /\ "hive" \in state
    /\ r \notin busy
    /\ busy' = busy \cup {r}
    /\ UNCHANGED <<settings, phase, open, state, dbVars, probeVars, admitted>>

\* The request is answered, or fails; the session ends.
RequestEnds(r) ==
    /\ r \in busy
    /\ busy' = busy \ {r}
    /\ UNCHANGED <<settings, phase, open, state, dbVars, probeVars, admitted>>

ProbeTo(p, where, migrations) ==
    probe' = [probe EXCEPT ![p] = <<where, migrations>>]

AskReadiness(p) ==
    /\ phase = "serving" /\ "database" \in state
    /\ probe[p][1] = "idle"
    /\ ProbeTo(p, "connecting", "unknown")
    /\ sawHead' = [sawHead EXCEPT ![p] = up /\ revision = Head]
    /\ UNCHANGED <<settings, phase, open, state, dbVars, requestVars>>

Connect(p) ==
    /\ probe[p][1] = "connecting" /\ up
    /\ ProbeTo(p, "connected", "unknown")
    /\ UNCHANGED <<settings, phase, open, state, dbVars, sawHead, requestVars>>

\* The heads in the database are compared with those of the scripts; an error
\* of either leaves the migrations unknown.
InspectHeads(p) ==
    /\ probe[p][1] = "connected"
    /\ \/ up /\ ProbeTo(p, "inspected", IF revision = Head THEN "current" ELSE "outdated")
       \/ ProbeTo(p, "inspected", "unknown")
    /\ UNCHANGED <<settings, phase, open, state, dbVars, sawHead, requestVars>>

\* Mutant of Report: no word for what is not known.
NullReport(migrations) == IF migrations = "unknown" THEN "null" ELSE migrations

\* Mutant of Report: what is not known to be wrong passes.
HopefulReport(migrations) ==
    IF migrations = "outdated" THEN "outdated" ELSE "current"

Report(migrations) == migrations

\* The connection goes back to its pool and the report is made.
Answer(p) ==
    /\ probe[p][1] = "inspected"
    /\ ProbeTo(p, "ok", Report(probe[p][2]))
    /\ UNCHANGED <<settings, phase, open, state, dbVars, sawHead, requestVars>>

\* A database error outside the inspection, or any other error of the probe.
ProbeFails(p) ==
    /\ InFlight(p)
    /\ ProbeTo(p, "unavailable", "unknown")
    /\ UNCHANGED <<settings, phase, open, state, dbVars, sawHead, requestVars>>

\* Mutant of ProbeTimesOut: only the connection attempt is timed.
ConnectTimesOut(p) ==
    /\ probe[p][1] = "connecting"
    /\ ProbeTo(p, "unavailable", "unknown")
    /\ UNCHANGED <<settings, phase, open, state, dbVars, sawHead, requestVars>>

\* wait_for ends the probe, wherever it is.
ProbeTimesOut(p) ==
    /\ InFlight(p)
    /\ ProbeTo(p, "unavailable", "unknown")
    /\ UNCHANGED <<settings, phase, open, state, dbVars, sawHead, requestVars>>

\* The database fails, recovers, or is migrated or replaced.
DatabaseChanges ==
    /\ up' \in BOOLEAN
    /\ revision' \in Revisions
    /\ dbVars' # dbVars
    /\ sawHead' = [p \in Probes |->
                     sawHead[p] \/ (InFlight(p) /\ up' /\ revision' = Head)]
    /\ UNCHANGED <<settings, phase, open, state, probe, requestVars>>

-----------------------------------------------------------------------------
Shutdown == CloseHive \/ CloseProvider \/ Dispose

Next ==
    \/ CreateApp \/ OpenDatabase \/ OpenProvider \/ OpenHive
    \/ Drain \/ Shutdown
    \/ \E r \in Requests :
          \/ \E api \in {"owner", "admin"}, token \in Values : Request(r, api, token)
          \/ OpenSession(r) \/ RequestEnds(r)
    \/ \E p \in Probes :
          \/ AskReadiness(p) \/ Connect(p) \/ InspectHeads(p) \/ Answer(p)
          \/ ProbeFails(p) \/ ProbeTimesOut(p)
    \/ DatabaseChanges

Spec == Init /\ [][Next]_vars

\* Closes end and timers fire.  Nothing is assumed of the database: a probe or a
\* request may wait for it for ever.
FairSpec ==
    /\ Spec
    /\ WF_vars(Shutdown)
    /\ \A p \in Probes : WF_vars(ProbeTimesOut(p))

-----------------------------------------------------------------------------
(* Properties *)

\* In production a bearer token that opens an API is not the token of the other
\* API, and not the digest key, the database password or the AI key either:
\* validation (config.py:65-146) together with the factories that start the
\* process (ai/factory.py:10-21) and the comparison of each request.
SecretsStayApart ==
    settings.production =>
        \A a \in admitted :
            \A f \in DOMAIN Credentials(settings) :
                f # a[1] => settings[f] # a[2]

\* Resources are open as a stack, whatever raises: requests find all of them,
\* nothing is closed under a request, and once the lifespan has ended nothing is
\* open or reachable (main.py:47-77).
ResourcesNested ==
    /\ "hive" \in open => "provider" \in open
    /\ "provider" \in open => "database" \in open
    /\ phase \in {"serving", "draining"} => open = Resources /\ state = Attributes
    /\ ~Drained => open = Resources /\ state = Attributes
    /\ phase \in {"refused", "failed", "off"} => open = {} /\ state = {}

\* A process that reports ready had, during that very probe, a database that was
\* up and at the head of the migrations (readiness.py:39-86).
ReadyWasTrue ==
    \A p \in Probes : probe[p] = <<"ok", "current">> => sawHead[p]

\* Every readiness request is answered, though the database may hang at any
\* point of it (readiness.py:39-52).
ProbeAnswers == \A p \in Probes : InFlight(p) ~> probe[p] \in Reports

\* A process that is told to stop does so once the requests and sessions it has then
\* have ended, each in its time, although the database may hang under a probe and
\* closes may raise.  Nothing in the code bounds those requests (database.py:13,
\* gemini.py:26, memory.py:261), and without this premise it may never stop
\* (main.py:57-77).
ShutdownEnds ==
    (\A r \in Requests : (phase = "draining" /\ r \in busy) ~> r \notin busy)
        => (phase = "draining" ~> phase = "off")
=============================================================================
