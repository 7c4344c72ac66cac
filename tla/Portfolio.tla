------------------------------ MODULE Portfolio ------------------------------
(***************************************************************************)
(* The portfolio of automations: manifests on disk matched with the        *)
(* automations of the database and with their executions, and the signals  *)
(* that are derived from them (services/portfolio_catalog.py, metrics and  *)
(* snapshots of services/metrics_queries.py, automation_snapshot.py).      *)
(*                                                                         *)
(*   auto[a]      the automation named a, or None                          *)
(*   job[a]       when its job in the scheduler is due, or None            *)
(*   manifest[m]  the manifest of a directory, or None                     *)
(*   runs         the executions, in the order they were created           *)
(*   now          the clock of the host                                    *)
(*                                                                         *)
(* Automations are numbered in the order of their (unique) names.          *)
(***************************************************************************)
EXTENDS Integers, Sequences, FiniteSets, FiniteSetsExt

CONSTANTS
  Auto, Manifest,
  Script,      \* entry scripts in the repository
  Critical,    \* manifests of criticality critical or high
  Sla,         \* sla_minutes of all; 0: none
  Day,         \* the 24 hours of the metrics
  Month,       \* inactivity_cutoff_seconds
  Period,      \* of every schedule
  None,
  MaxRuns, MaxTime   \* bounds: executions, the clock

PortfolioAssumption ==
  /\ Auto \subseteq Nat /\ Critical \subseteq Manifest /\ None \notin Nat \cup Script
  /\ {Sla, Day, Month, Period, MaxRuns, MaxTime} \subseteq Nat /\ Period > 0

VARIABLES auto, job, manifest, runs, now

vars == <<auto, job, manifest, runs, now>>

Active == {"PENDING", "RUNNING"}
Delivered == {"SUCCESS", "PARTIAL"}
Failed == {"ERROR"}
Time == 0..MaxTime

TypeOK ==
  /\ auto \in [Auto -> [script : Script, cron : BOOLEAN, enabled : BOOLEAN, drift : BOOLEAN] \cup {None}]
  /\ job \in [Auto -> 0..(MaxTime + Period) \cup {None}]
  /\ manifest \in [Manifest -> [script : Script, name : Auto, docs : BOOLEAN, smoke : BOOLEAN] \cup {None}]
  /\ \A i \in DOMAIN runs :
       /\ runs[i].auto \in Auto /\ runs[i].started \in Time /\ runs[i].finished \in Time \cup {None}
       /\ runs[i].status \in Active \cup Delivered \cup Failed \cup {"EXPIRED"}
  /\ now \in Time

Registered == {a \in Auto : auto[a] # None}
Present == {m \in Manifest : manifest[m] # None}
-----------------------------------------------------------------------------
(* What the queries read. *)

\* The row_number() queries: the last by started_at, then by id.
LastRun(a, S) ==
  LET mine == {i \in DOMAIN runs : runs[i].auto = a /\ runs[i].status \in S}
  IN  IF mine = {} THEN None
      ELSE CHOOSE i \in mine : \A k \in mine :
             \/ runs[k].started < runs[i].started
             \/ runs[k].started = runs[i].started /\ k <= i

EndOf(i) == IF i = None THEN None ELSE IF runs[i].finished # None THEN runs[i].finished ELSE runs[i].started

Latest(a) == LastRun(a, Active \cup Delivered \cup Failed \cup {"EXPIRED"})
LastStatus(a) == IF Latest(a) = None THEN "none" ELSE runs[Latest(a)].status

\* get_automation_metrics_24h
Within24h(a, S) == \E i \in DOMAIN runs : /\ runs[i].auto = a /\ runs[i].status \in S
                                          /\ now - runs[i].started <= Day

OperationalState(a) ==
  IF ~auto[a].enabled THEN "paused"
  ELSE IF LastStatus(a) \in Active THEN "in_progress"
  ELSE IF Within24h(a, Failed) THEN "attention"
  ELSE IF Within24h(a, Delivered) THEN "healthy"
  ELSE "idle"

\* next_run of an automation: its job's, else a preview of its schedule.
NextRun(a) == IF job[a] # None THEN job[a] ELSE IF auto[a].cron THEN now + 1 ELSE None

Lag(a) == IF NextRun(a) = None \/ LastStatus(a) \in Active THEN 0
          ELSE IF now > NextRun(a) THEN now - NextRun(a) ELSE 0

SlaState(a) ==
  LET failed == EndOf(LastRun(a, Failed)) IN
  IF Sla = 0 THEN "unknown"
  ELSE IF Lag(a) > Sla THEN "breached"
  ELSE IF LastStatus(a) \notin Failed THEN "ok"
  ELSE IF now - failed > Sla THEN "breached" ELSE "recovering"
-----------------------------------------------------------------------------
(* Rows. *)

\* _find_matching_automation, over the indexes of _index_automations, where
\* the last of several automations with one script stays.
Match(m) ==
  LET same == {a \in Registered : auto[a].script = manifest[m].script}
  IN  IF same # {} THEN Max(same)
      ELSE IF manifest[m].name \in Registered THEN manifest[m].name ELSE None

\* Mutated form: a manifest that still names an automation owns it.
MatchedByName == {Match(m) : m \in Present} \cup {manifest[m].name : m \in Present}

Matched == {Match(m) : m \in Present} \ {None}

\* _build_manifest_issues: not registered, another script or parameter than
\* the manifest's, a document or a smoke test that is missing.
Issues(m) ==
  LET a == Match(m) IN
  (IF a = None THEN {"not_registered"}
   ELSE (IF auto[a].script # manifest[m].script THEN {"script_path"} ELSE {})
        \cup (IF auto[a].drift THEN {"parameter"} ELSE {}))
  \cup (IF manifest[m].docs THEN {} ELSE {"docs"})
  \cup (IF manifest[m].smoke THEN {} ELSE {"smoke_test"})

HealthStatus(m) ==
  IF Match(m) = None THEN "not_registered"
  ELSE IF SlaState(Match(m)) = "breached" THEN "breached"
  ELSE IF Issues(m) # {} THEN "attention"
  ELSE OperationalState(Match(m))

\* _build_review_status
Activity(a) == {EndOf(LastRun(a, {"SUCCESS"})), EndOf(LastRun(a, Failed))} \ {None}
Dormant(enabled, next) == ~enabled /\ next = None

Reasons(row) ==
  (IF row.governed THEN {} ELSE {"no_manifest"})
  \cup (IF Dormant(row.enabled, row.next) THEN {"disabled"} ELSE {})
  \cup (IF row.activity = {} THEN {"never_ran"}
        ELSE IF now - Max(row.activity) >= Month THEN {"inactive"} ELSE {})
  \cup (IF row.health \in {"not_registered", "not_governed"} THEN {"not_reconciled"}
        ELSE IF row.drift \/ ~row.docs THEN {"drift"} ELSE {})

Review(row) == IF Reasons(row) = {} THEN "active"
               ELSE IF ~row.governed \/ Dormant(row.enabled, row.next) THEN "delete_candidate"
               ELSE "attention"

GovernedRow(m) ==
  LET a == Match(m) IN
  [governed |-> TRUE, of |-> m, auto |-> a, critical |-> m \in Critical, health |-> HealthStatus(m),
   enabled |-> a # None /\ auto[a].enabled, next |-> IF a = None THEN None ELSE NextRun(a),
   activity |-> IF a = None THEN {} ELSE Activity(a),
   sla |-> IF a = None THEN (IF Sla = 0 THEN "unknown" ELSE "ok") ELSE SlaState(a),
   docs |-> manifest[m].docs, drift |-> Issues(m) # {}]

UngovernedRow(a) ==
  [governed |-> FALSE, of |-> None, auto |-> a, critical |-> FALSE, health |-> "not_governed",
   enabled |-> auto[a].enabled, next |-> NextRun(a), activity |-> Activity(a), sla |-> SlaState(a),
   docs |-> FALSE, drift |-> TRUE]

\* _collect_portfolio_rows
Rows == {GovernedRow(m) : m \in Present} \cup {UngovernedRow(a) : a \in Registered \ Matched}

\* _portfolio_operational_status
Signal(row) ==
  IF Review(row) = "delete_candidate" THEN "attention"
  ELSE IF row.health \in {"not_registered", "not_governed", "breached"} THEN "incident"
  ELSE IF row.drift \/ ~row.docs THEN (IF row.critical THEN "incident" ELSE "attention")
  ELSE IF row.sla = "recovering" \/ row.health = "attention" THEN "attention"
  ELSE "healthy"

\* The status of _build_portfolio_summary and the issue of _portfolio_top_issue.
Summary ==
  LET signals == {Signal(r) : r \in Rows} IN
  IF "incident" \in signals THEN "incident" ELSE IF "attention" \in signals THEN "attention" ELSE "healthy"

TopIssue ==
  IF \E r \in Rows : Review(r) = "delete_candidate" THEN "delete_candidate"
  ELSE IF \E r \in Rows : r.health \in {"not_registered", "not_governed"} THEN "not_registered"
  ELSE IF \E r \in Rows : ~r.docs THEN "docs"
  ELSE IF \E r \in Rows : r.drift THEN "drift"
  ELSE IF \E r \in Rows : r.sla = "breached" THEN "sla"
  ELSE "consistent"
-----------------------------------------------------------------------------
Init ==
  /\ auto = [a \in Auto |-> None] /\ job = [a \in Auto |-> None]
  /\ manifest = [m \in Manifest |-> None] /\ runs = <<>> /\ now = 0

\* An automation is registered or edited, and its job with it.
Save(a, r) ==
  /\ auto[a] # r /\ auto' = [auto EXCEPT ![a] = r]
  /\ job' = [job EXCEPT ![a] = IF r.enabled /\ r.cron THEN now + Period ELSE None]
  /\ UNCHANGED <<manifest, runs, now>>

\* Its executions go with it.
Delete(a) ==
  /\ auto[a] # None /\ auto' = [auto EXCEPT ![a] = None] /\ job' = [job EXCEPT ![a] = None]
  /\ runs' = SelectSeq(runs, LAMBDA r : r.auto # a)
  /\ UNCHANGED <<manifest, now>>

\* A manifest or a file it names is written or removed.
Publish(m, r) ==
  /\ manifest[m] # r /\ manifest' = [manifest EXCEPT ![m] = r]
  /\ UNCHANGED <<auto, job, runs, now>>

\* A tick of the schedule, perhaps late, or a manual run.
Enqueue(a) ==
  /\ Len(runs) < MaxRuns /\ auto[a] # None
  /\ runs' = Append(runs, [auto |-> a, status |-> "PENDING", started |-> now, finished |-> None])
  /\ \/ job' = job
     \/ job[a] # None /\ now >= job[a] /\ job' = [job EXCEPT ![a] = now + Period]
  /\ UNCHANGED <<auto, manifest, now>>

\* The worker's claim overwrites started_at.
Claim(i) ==
  /\ runs[i].status = "PENDING"
  /\ runs' = [runs EXCEPT ![i].status = "RUNNING", ![i].started = now]
  /\ UNCHANGED <<auto, job, manifest, now>>

Finish(i, status) ==
  /\ runs[i].status = IF status = "EXPIRED" THEN "PENDING" ELSE "RUNNING"
  /\ runs' = [runs EXCEPT ![i].status = status, ![i].finished = now]
  /\ UNCHANGED <<auto, job, manifest, now>>

Tick == now < MaxTime /\ now' = now + 1 /\ UNCHANGED <<auto, job, manifest, runs>>

Next ==
  \/ \E a \in Auto :
       \/ \E r \in [script : Script, cron : BOOLEAN, enabled : BOOLEAN, drift : BOOLEAN] : Save(a, r)
       \/ Delete(a) \/ Enqueue(a)
  \/ \E m \in Manifest :
       \E r \in [script : Script, name : Auto, docs : BOOLEAN, smoke : BOOLEAN] \cup {None} : Publish(m, r)
  \/ \E i \in DOMAIN runs :
       Claim(i) \/ \E s \in {"SUCCESS", "PARTIAL", "ERROR", "EXPIRED"} : Finish(i, s)
  \/ Tick

Spec == Init /\ [][Next]_vars
-----------------------------------------------------------------------------
\* Nothing escapes the portfolio: every automation has a row, as the match of
\* a manifest or as one without.
EverythingShown == \A a \in Registered : \E r \in Rows : r.auto = a

\* The two answers of the summary agree: "Catálogo governado consistente com
\* o runtime." is the top issue of every portfolio that is healthy.
HealthyIsConsistent == Summary = "healthy" => TopIssue = "consistent"

\* Whose latest run failed in the last 24 hours is never shown as healthy, and
\* whose latest failure is older than its SLA is never without a breach.
FailureShows ==
  \A a \in Registered : \A r \in Rows :
    (r.auto = a /\ auto[a].enabled /\ LastStatus(a) \in Failed) =>
      /\ now - runs[Latest(a)].started <= Day => Signal(r) # "healthy"
      /\ (Sla > 0 /\ now - EndOf(Latest(a)) > Sla) => r.sla = "breached" /\ Signal(r) # "healthy"

\* A breach has a cause that still stands: the schedule waits beyond the SLA,
\* or nothing has been tried since a failure.
BreachStands ==
  \A r \in Rows : r.sla = "breached" =>
    LET a == r.auto IN
    \/ job[a] # None /\ now - job[a] > Sla
    \/ \E i \in DOMAIN runs : /\ runs[i].auto = a /\ runs[i].status \in Failed
                              /\ \A k \in DOMAIN runs : runs[k].auto = a => runs[k].started <= runs[i].started

\* Violated: test_portfolio_operational_status_incidente_por_nao_registrado
\* says that an item without a registered automation is an incident.
UnregisteredIsIncident == \A r \in Rows : r.health = "not_registered" => Signal(r) = "incident"

\* Violated: the review reason says that no execution is in the history.
NeverRanIsTrue ==
  \A r \in Rows : (r.auto # None /\ "never_ran" \in Reasons(r)) => \A i \in DOMAIN runs : runs[i].auto # r.auto

\* Violated: the review lists an automation as without a manifest although
\* one names its script.
OrphansHaveNoManifest ==
  \A r \in Rows : ~r.governed => \A m \in Present : manifest[m].script # auto[r.auto].script
=============================================================================
