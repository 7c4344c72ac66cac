----------------------------- MODULE BenefRefresh -----------------------------
(***************************************************************************)
(* The live refresh of the Beneficiamento: the jobs of the scheduler and   *)
(* POST /refresh run the runner in a process of its own, which queries     *)
(* Oracle, writes the rows into the SQLite history and promotes a snapshot *)
(* (services/beneficiamento_refresh.py; beneficiamento/runner.py,          *)
(* data/writer.py, snapshot_store.py). The attempts of a query are inside  *)
(* one step here: OracleQuery has them.                                    *)
(*                                                                         *)
(*   oracle     the rows Oracle has: row -> version, 0 when it has none    *)
(*   hist       the rows of the history, by version                        *)
(*   file[p]    <period>.analytics.json, old[p]: past its max_age_minutes  *)
(*   run[w]     a refresh: step, period, what it got and the versions it   *)
(*              read, its answer; history: what another put in place, of   *)
(*              the file and the history, since this one's query           *)
(*   junk       temporary files nobody will remove                         *)
(*   view       a reader of one snapshot: what it has looked at so far     *)
(*                                                                         *)
(* The first half is what the health says of the snapshots: the quality    *)
(* gate of the runner (quality.py), the cause found for a period           *)
(* (snapshot_period_health.py) and the state of all periods (health.py,    *)
(* snapshot_aggregator.py, snapshot_dashboard.py).  A file is Absent,      *)
(* Broken (read_json gives {}) or a snapshot: a record                     *)
(*   rows     the rows of the query, missing: a required column is missing *)
(*   limited  oracle_timeout_applied, saved: the history took the rows     *)
(***************************************************************************)
EXTENDS Integers, FiniteSets, Sequences, SequencesExt

CONSTANTS
  Row,
  KeyOf,       \* [Row -> key]: the analytic key of a row
  HasNull,     \* rows with a null in a required column
  Negative,    \* rows with a negative metric
  Absent, Broken,
  Job,         \* refreshes of the scheduler, each of one period: a subset of Period
  Post,        \* refreshes asked for by POST /refresh, of any period
  Today,       \* the rows of the daily window; the monthly one has them all
  NoOb,        \* rows without an OB, which the history skips
  Flaw,        \* records [missing, limited]: the column check, oracle_timeout_applied
  Aging,       \* BOOLEAN: snapshots pass max_age_minutes
  Reading,     \* BOOLEAN: somebody reads the snapshot of the day
  MaxVersion,  \* bound: changes of Oracle's rows
  MaxFaults    \* bound: errors and kills

Period == {"diario", "mensal"}

RowAssumption ==
  /\ IsFiniteSet(Row) /\ DOMAIN KeyOf = Row
  /\ HasNull \subseteq Row /\ Negative \subseteq Row

Snapshot == [rows : SUBSET Row, missing : BOOLEAN, limited : BOOLEAN, saved : BOOLEAN,
             taken : Nat]
IsSnapshot(f) == f \notin {Absent, Broken}
-----------------------------------------------------------------------------
Duplicated(rows) == \E r, q \in rows : r # q /\ KeyOf[r] = KeyOf[q]

Blockers(s) ==
  {c \in {"empty", "columns", "nulls", "duplicates"} :
     \/ c = "empty" /\ s.rows = {}
     \/ c = "columns" /\ s.missing
     \/ c = "nulls" /\ s.rows \cap HasNull # {}
     \/ c = "duplicates" /\ Duplicated(s.rows)}

\* assess_quality
Quality(s) ==
  IF Blockers(s) # {} THEN "blocked"
  ELSE IF s.rows \cap Negative # {} THEN "attention" ELSE "ok"

\* _classify_refresh_status
RefreshStatus(s) ==
  IF ~s.saved THEN "partial_failure"
  ELSE IF Quality(s) # "ok" \/ ~s.limited THEN "attention" ELSE "ok"

\* _quality_blocked_issue: the first of the specific causes, else the general one.
BlockedCode(s) ==
  IF s.missing THEN "quality_missing_required_columns"
  ELSE IF s.rows \cap HasNull # {} THEN "quality_critical_nulls"
  ELSE IF Duplicated(s.rows) THEN "quality_duplicate_keys" ELSE "quality_blocked"

\* The causes that a file gives, and the order in which they are looked for.
Causes(f, stale) ==
  IF ~IsSnapshot(f) THEN {IF f = Absent THEN "snapshot_missing" ELSE "snapshot_invalid"}
  ELSE UNION {IF RefreshStatus(f) = "partial_failure" THEN {"historico_partial_failure"} ELSE {},
              IF Quality(f) = "blocked" THEN {BlockedCode(f)} ELSE {},
              IF f.rows = {} THEN {"snapshot_no_data"} ELSE {},
              IF stale THEN {"snapshot_stale"} ELSE {},
              IF Quality(f) = "attention" THEN {"quality_attention"} ELSE {},
              IF ~f.limited THEN {"oracle_timeout_unapplied"} ELSE {},
              {"healthy"}}

Precedence == <<"snapshot_missing", "snapshot_invalid", "historico_partial_failure",
                "quality_missing_required_columns", "quality_critical_nulls",
                "quality_duplicate_keys", "quality_blocked", "snapshot_no_data",
                "snapshot_stale", "quality_attention", "oracle_timeout_unapplied", "healthy">>

\* _primary_issue_for_period: the first cause of them.
Reason(f, stale) == SelectSeq(Precedence, LAMBDA c : c \in Causes(f, stale))[1]

Status(reason) ==
  IF reason = "snapshot_missing" THEN "missing"
  ELSE IF reason = "snapshot_no_data" THEN "no_data"
  ELSE IF reason = "healthy" THEN "healthy" ELSE "attention"

\* _snapshot_state_for_reason
State(reason) ==
  IF reason = "snapshot_missing" THEN "missing"
  ELSE IF reason \in {"snapshot_invalid", "historico_partial_failure", "quality_blocked"}
       THEN "invalid"
  ELSE IF reason = "snapshot_stale" THEN "stale" ELSE "promoted"

\* _build_secondary_issues: what else is wrong, compared with the primary reason.
Secondary(f, stale) ==
  LET reason == Reason(f, stale)
      Other(c, holds) == IF holds /\ reason # c THEN <<c>> ELSE <<>>
  IN  Other("snapshot_stale", stale)
      \o (IF ~IsSnapshot(f) THEN <<>>
          ELSE Other("historico_partial_failure", RefreshStatus(f) = "partial_failure")
               \o (IF Quality(f) = "blocked" /\ reason # "quality_blocked"
                   THEN <<BlockedCode(f)>> ELSE <<>>)
               \o Other("quality_attention", Quality(f) = "attention")
               \o Other("oracle_timeout_unapplied", ~f.limited))

Issues(f, stale) == <<Reason(f, stale)>> \o Secondary(f, stale)
-----------------------------------------------------------------------------
Severity(c) ==
  IF c \in {"healthy", "snapshot_no_data"} THEN 2
  ELSE IF c \in {"snapshot_stale", "quality_attention", "oracle_timeout_unapplied"} THEN 1 ELSE 0

Alphabetical == <<"healthy", "historico_partial_failure", "oracle_timeout_unapplied",
                  "quality_attention", "quality_blocked", "quality_critical_nulls",
                  "quality_duplicate_keys", "quality_missing_required_columns",
                  "snapshot_invalid", "snapshot_missing", "snapshot_no_data", "snapshot_stale">>

\* The issues of all periods: file and stale are functions of the period.
AllIssues(file, stale) ==
  UNION {{<<p, c>> : c \in ToSet(Issues(file[p], stale[p]))} : p \in Period}

Place == [c \in ToSet(Alphabetical) |-> CHOOSE n \in DOMAIN Alphabetical : Alphabetical[n] = c]

\* The sort key of _build_issues: severity, period, code.
Rank(i) == 100 * Severity(i[2]) + (IF i[1] = "diario" THEN 0 ELSE 20) + Place[i[2]]

\* _primary_health_issue: the first of the sorted issues.
Primary(file, stale) ==
  LET all == AllIssues(file, stale) IN CHOOSE i \in all : \A j \in all : Rank(i) <= Rank(j)

Statuses(file, stale) == {Status(Reason(file[p], stale[p])) : p \in Period}

\* compute_health_status
Health(file, stale) ==
  LET statuses == Statuses(file, stale)
      All(s, code) == [status |-> s, reason |-> code]
  IN  IF statuses = {"missing"} THEN All("missing", "snapshot_missing")
      ELSE IF statuses \cap {"attention", "missing"} # {}
           THEN All("attention", Primary(file, stale)[2])
      ELSE IF statuses = {"no_data"} THEN All("no_data", "snapshot_no_data")
      ELSE All("healthy", "healthy")
-----------------------------------------------------------------------------
Runner == Job \cup Post
RowsOf(p) == IF p = "diario" THEN Today ELSE Row

RefreshAssumption ==
  /\ Job \subseteq Period /\ Job \cap Post = {} /\ Today \subseteq Row /\ NoOb \subseteq Row
  /\ Flaw \subseteq [missing : BOOLEAN, limited : BOOLEAN] /\ Aging \in BOOLEAN /\ Reading \in BOOLEAN
  /\ MaxVersion \in Nat /\ MaxFaults \in Nat

VARIABLES oracle, hist, file, old, run, junk, view, version, faults

vars == <<oracle, hist, file, old, run, junk, view, version, faults>>

Version == 0..MaxVersion
NoVersions == [r \in Row |-> 0]
Idle == [pc |-> "idle", period |-> "diario", got |-> Absent, at |-> NoVersions,
         answer |-> "none", past |-> {}]
NoView == [pc |-> "idle", seen |-> Absent, stale |-> FALSE, reason |-> "none"]

TypeOK ==
  /\ oracle \in [Row -> Version] /\ hist \in [Row -> Version]
  /\ \A p \in Period : file[p] \in {Absent, Broken} \/ file[p].rows \subseteq Row
  /\ old \in [Period -> BOOLEAN]
  /\ \A w \in Runner :
       /\ run[w].pc \in {"idle", "query", "history", "write", "replace", "answer"}
       /\ run[w].period \in Period
       /\ run[w].answer \in {"none", "ok", "attention", "partial_failure", "error"}
       /\ run[w].past \subseteq {"file", "hist"}
  /\ junk \subseteq Runner
  /\ view.pc \in {"idle", "read", "aged"}
  /\ version \in Version /\ faults \in 0..MaxFaults

Init ==
  /\ oracle = NoVersions /\ hist = NoVersions
  /\ file = [p \in Period |-> Absent]
  /\ old = [p \in Period |-> FALSE]
  /\ run = [w \in Runner |-> Idle]
  /\ junk = {} /\ view = NoView /\ version = 0 /\ faults = 0
-----------------------------------------------------------------------------
\* A phase is confirmed, corrected or withdrawn in Oracle.
OracleChanges(r) ==
  /\ version < MaxVersion
  /\ version' = version + 1
  /\ \E v \in {0, version + 1} : oracle' = [oracle EXCEPT ![r] = v]
  /\ UNCHANGED <<hist, file, old, run, junk, view, faults>>

\* A job of the scheduler (max_instances = 1) or a request starts the runner.
Start(w, p) ==
  /\ run[w].pc = "idle"
  /\ w \in Job => p = w
  /\ run' = [run EXCEPT ![w].pc = "query", ![w].period = p]
  /\ UNCHANGED <<oracle, hist, file, old, junk, view, version, faults>>

\* execute_query answers with the rows of the window; the gate looks at them.
QueryAnswers(w) ==
  /\ run[w].pc = "query"
  /\ \E flaw \in Flaw :
       run' = [run EXCEPT ![w] =
         [@ EXCEPT !.pc = "history", !.at = oracle,
                   !.got = [rows |-> {r \in RowsOf(run[w].period) : oracle[r] # 0},
                            missing |-> flaw.missing, limited |-> flaw.limited, saved |-> TRUE,
                            taken |-> version]]]
  /\ UNCHANGED <<oracle, hist, file, old, junk, view, version, faults>>

Fail(w) == [Idle EXCEPT !.pc = "answer", !.period = run[w].period, !.answer = "error"]

\* An error of the statement or of the credentials, the deadline, the last attempt.
QueryFails(w) ==
  /\ run[w].pc = "query" /\ faults < MaxFaults
  /\ faults' = faults + 1
  /\ run' = [run EXCEPT ![w] = Fail(w)]
  /\ UNCHANGED <<oracle, hist, file, old, junk, view, version>>

\* salvar_historico: INSERT OR REPLACE of the rows that have an OB, in one transaction.
Saved(w) == [r \in Row |-> IF r \in run[w].got.rows \ NoOb THEN run[w].at[r] ELSE hist[r]]

\* History: w passes the others that have the rows of their query and not yet done as much.
Passes(w, what, who) ==
  [v \in Runner |-> IF v # w /\ v \in who THEN [run[v] EXCEPT !.past = @ \cup {what}] ELSE run[v]]

SaveHistory(w) ==
  /\ run[w].pc = "history"
  /\ hist' = Saved(w)
  /\ run' = [Passes(w, "hist", {v \in Runner : run[v].pc = "history"})
               EXCEPT ![w].pc = "write", ![w].at = NoVersions]
  /\ UNCHANGED <<oracle, file, old, junk, view, version, faults>>

\* The history is locked or full: the refresh goes on without it.
SaveHistoryFails(w) ==
  /\ run[w].pc = "history" /\ faults < MaxFaults
  /\ faults' = faults + 1
  /\ run' = [run EXCEPT ![w].pc = "write", ![w].at = NoVersions, ![w].got.saved = FALSE]
  /\ UNCHANGED <<oracle, hist, file, old, junk, view, version>>

\* Mutated form: the snapshot is opened for writing where it is.
WriteInPlace(w) ==
  /\ run[w].pc = "write"
  /\ run' = [run EXCEPT ![w].pc = "replace"]
  /\ file' = [file EXCEPT ![run[w].period] = Broken]
  /\ UNCHANGED <<oracle, hist, old, junk, view, version, faults>>

\* write_json_atomic: the payload goes to a temporary file of this process first.
Write(w) ==
  /\ run[w].pc = "write"
  /\ run' = [run EXCEPT ![w].pc = "replace"]
  /\ UNCHANGED <<oracle, hist, file, old, junk, view, version, faults>>

\* ... which replaces the snapshot; the runner prints its status.
Replace(w) ==
  /\ run[w].pc = "replace"
  /\ file' = [file EXCEPT ![run[w].period] = run[w].got]
  /\ old' = [old EXCEPT ![run[w].period] = FALSE]
  /\ run' = [Passes(w, "file", {v \in Runner : /\ run[v].pc \in {"history", "write", "replace"}
                                            /\ run[v].period = run[w].period})
               EXCEPT ![w].pc = "answer", ![w].answer = RefreshStatus(run[w].got)]
  /\ UNCHANGED <<oracle, hist, junk, view, version, faults>>

\* The disk is full, or the snapshot is open elsewhere: the temporary file is removed.
WriteFails(w) ==
  /\ run[w].pc \in {"write", "replace"} /\ faults < MaxFaults
  /\ faults' = faults + 1
  /\ run' = [run EXCEPT ![w] = Fail(w)]
  /\ UNCHANGED <<oracle, hist, file, old, junk, view, version>>

\* The 45 s of subprocess.run are over: the process is killed where it stands.
Kill(w) ==
  /\ run[w].pc \notin {"idle", "answer"} /\ faults < MaxFaults
  /\ faults' = faults + 1
  /\ junk' = IF run[w].pc = "replace" THEN junk \cup {w} ELSE junk
  /\ run' = [run EXCEPT ![w] = Fail(w)]
  /\ UNCHANGED <<oracle, hist, file, old, view, version>>

\* run_beneficiamento_refresh returns; the job is idle again.
Answer(w) ==
  /\ run[w].pc = "answer"
  /\ run' = [run EXCEPT ![w] = Idle]
  /\ UNCHANGED <<oracle, hist, file, old, junk, view, version, faults>>

\* The snapshot passes max_age_minutes.
Ages(p) ==
  /\ Aging /\ file[p] # Absent /\ ~old[p]
  /\ old' = [old EXCEPT ![p] = TRUE]
  /\ UNCHANGED <<oracle, hist, file, run, junk, view, version, faults>>

\* load_period_payload: the content, the age and the existence are looked at one by one.
ReadFile ==
  /\ Reading /\ view.pc = "idle"
  /\ view' = [NoView EXCEPT !.pc = "read", !.seen = file["diario"]]
  /\ UNCHANGED <<oracle, hist, file, old, run, junk, version, faults>>

ReadAge ==
  /\ view.pc = "read"
  /\ view' = [view EXCEPT !.pc = "aged", !.stale = old["diario"]]
  /\ UNCHANGED <<oracle, hist, file, old, run, junk, version, faults>>

ReadExists ==
  /\ view.pc = "aged"
  /\ LET seen == IF view.seen = Absent /\ file["diario"] # Absent THEN Broken ELSE view.seen
     IN  view' = [view EXCEPT !.pc = "idle", !.seen = seen, !.reason = Reason(seen, view.stale)]
  /\ UNCHANGED <<oracle, hist, file, old, run, junk, version, faults>>

Runs(w) ==
  \/ QueryAnswers(w) \/ SaveHistory(w) \/ Write(w) \/ Replace(w) \/ Answer(w)
Fault(w) ==
  \/ QueryFails(w) \/ SaveHistoryFails(w) \/ WriteFails(w) \/ Kill(w)

Next ==
  \/ \E r \in Row : OracleChanges(r)
  \/ \E w \in Runner : (\E p \in Period : Start(w, p)) \/ Runs(w) \/ Fault(w)
  \/ \E p \in Period : Ages(p)
  \/ ReadFile \/ ReadAge \/ ReadExists

Spec == Init /\ [][Next]_vars

\* The scheduler starts its jobs again and again; a process runs until it ends.
Fairness == \A w \in Job : WF_vars(Start(w, w)) /\ WF_vars(Runs(w))
LiveSpec == Spec /\ Fairness
-----------------------------------------------------------------------------
\* A snapshot is whole whenever somebody looks, whoever writes at the same time,
\* fails or is killed (write_json_atomic).
NeverTorn == \A p \in Period : file[p] # Broken

\* What a snapshot says was saved is in the history: every row of it that has an OB.
SnapshotInHistory ==
  \A p \in Period : IsSnapshot(file[p]) /\ file[p].saved =>
    \A r \in file[p].rows \ NoOb : hist[r] # 0

\* A failed write of the history is what the health of the period tells, however old
\* the snapshot and whatever else is wrong with it.
FailureShown ==
  \A p \in Period : IsSnapshot(file[p]) /\ ~file[p].saved =>
    \A stale \in BOOLEAN : Reason(file[p], stale) = "historico_partial_failure"

\* The runner's own status and the health's reading of the new snapshot agree.
StatusAgrees ==
  \A p \in Period : IsSnapshot(file[p]) =>
    (RefreshStatus(file[p]) = "ok" <=> Status(Reason(file[p], FALSE)) = "healthy")

\* A health that asks for attention names a cause that does.
NeverOpaque ==
  LET health == Health(file, old)
  IN  health.status = "attention" => health.reason \notin {"healthy", "snapshot_no_data"}

\* A row of the history goes back to what it was before only by a refresh that another
\* passed between its query and its write, not by one that runs again.
HistoryForward ==
  [][\A r \in Row : hist'[r] < hist[r] =>
       \E w \in Runner : /\ "hist" \in run[w].past
                         /\ run[w].pc = "history" /\ run'[w].pc = "write"]_hist

\* A snapshot is replaced by what Oracle had earlier only by a refresh of its period that
\* another one of that period passed since its query: a POST beside the job, or two POSTs.
SnapshotForward ==
  [][\A p \in Period : IsSnapshot(file[p]) /\ file'[p].taken < file[p].taken =>
       \E w \in Runner : /\ run[w].period = p /\ "file" \in run[w].past
                         /\ run[w].pc = "replace" /\ run'[w].pc = "answer"]_file

\* A period whose snapshot is missing or too old gets a new one, once the faults end.
Refreshed ==
  \A p \in Job : (file[p] = Absent \/ old[p]) ~> (file[p] # Absent /\ ~old[p])

\* A snapshot that the quality gate blocks is not "promoted".
BlockedIsInvalid ==
  \A p \in Period : IsSnapshot(file[p]) /\ Quality(file[p]) = "blocked" =>
    State(Reason(file[p], FALSE)) = "invalid"

\* The issues of a period name each cause once.
CauseNamedOnce ==
  \A p \in Period : LET i == Issues(file[p], old[p]) IN \A m, n \in DOMAIN i : i[m] = i[n] => m = n

\* A window without production is reported as one.
EmptyIsNoData ==
  \A p \in Period : IsSnapshot(file[p]) /\ file[p].rows = {} /\ file[p].saved /\ ~file[p].missing =>
    Status(Reason(file[p], FALSE)) = "no_data"

\* No temporary file outlives the process that wrote it.
NoJunk == junk = {}

\* A snapshot is called invalid only while it is.
InvalidIsInvalid == view.reason = "snapshot_invalid" => file["diario"] = Broken

\* What the history has of a window is what Oracle had when it was last refreshed.
HistoryIsLive ==
  \A w \in Runner : run[w].pc = "answer" /\ run[w].answer \in {"ok", "attention"} =>
    \A r \in RowsOf(run[w].period) : hist[r] # 0 => r \in run[w].got.rows
=============================================================================
