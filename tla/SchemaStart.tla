------------------------------ MODULE SchemaStart ------------------------------
(***************************************************************************)
(* The start of the API and the schema of its SQLite file: the checkpoint, *)
(* Alembic's upgrade or the stamp of a legacy file, the validation against *)
(* the ORM and the clean-up of the executions a reboot cut (app/main.py    *)
(* lifespan, app/database.py, migrations/versions/).                       *)
(*                                                                         *)
(*   objs      what the file holds: <<m, i>> is what statement i of        *)
(*             migration m creates                                         *)
(*   version   the row of alembic_version, NoRow, or NoTable               *)
(*   pc, at    where the start is, and the next statement of a migration   *)
(*   cause     why the start raised                                        *)
(*   running[a]  RUNNING executions of an automation with an owner         *)
(*                                                                         *)
(* pysqlite opens a transaction for the version's row but not for DDL:     *)
(* every statement of a migration is on disk before the version says so.   *)
(***************************************************************************)
EXTENDS Integers, FiniteSets

CONSTANTS
  Head,       \* migrations, in order
  Steps,      \* Steps[m]: the statements of migration m
  UniqueAt,   \* the migration of ix_execucao_running_unica_por_automacao
  Origins,    \* files the start may find
  Automation,
  NoTable, NoRow,
  CutUpgrade, \* may the process be killed inside a migration
  MaxCrashes  \* bound: kills

SchemaAssumption ==
  /\ Head \in Nat \ {0} /\ Steps \in [1..Head -> Nat \ {0}]
  /\ UniqueAt \in 1..Head /\ Steps[UniqueAt] = 1
  /\ Origins \subseteq {"fresh", "upgraded", "legacy", "bare", "stamped"}
  /\ {NoTable, NoRow} \cap Nat = {} /\ CutUpgrade \in BOOLEAN /\ MaxCrashes \in Nat

VARIABLES objs, version, pc, at, cause, running, crashes

vars == <<objs, version, pc, at, cause, running, crashes>>

Unique == <<UniqueAt, 1>>
Of(m) == {m} \X (1..Steps[m])
UpTo(v) == UNION {Of(m) : m \in 1..v}
Columns == UpTo(Head) \ {Unique}

TypeOK ==
  /\ objs \subseteq UpTo(Head) /\ version \in 1..Head \cup {NoTable, NoRow}
  /\ pc \in {"down", "start", "migrate", "index", "stamp", "stamped", "upgrade", "validate", "clean", "serving", "raised"}
  /\ at \in Nat \ {0} /\ cause \in {"none", "no table", "exists", "duplicates", "incomplete"}
  /\ running \in [Automation -> 0..2] /\ crashes \in 0..MaxCrashes
-----------------------------------------------------------------------------
\* validate_database_schema: tables and columns, and the indexes apart.
Valid == Columns \subseteq objs
MissingIndex == Unique \notin objs
Duplicated == \E a \in Automation : running[a] > 1

\* A file of this code or of an earlier release: new, migrated to some
\* revision, made by create_all with or without the table of revisions, or
\* stamped as head before the stamp created the missing indexes.
Init ==
  /\ \/ "fresh" \in Origins /\ objs = {} /\ version = NoTable
     \/ "upgraded" \in Origins /\ version \in 1..Head /\ objs = UpTo(version)
     \/ "legacy" \in Origins /\ objs \in {Columns, UpTo(Head)} /\ version = NoRow
     \/ "bare" \in Origins /\ objs \in {Columns, UpTo(Head)} /\ version = NoTable
     \/ "stamped" \in Origins /\ version \in UniqueAt..Head /\ objs = UpTo(version) \ {Unique}
  /\ running \in [Automation -> IF Unique \in objs THEN 0..1 ELSE IF objs = {} THEN {0} ELSE 0..2]
  /\ pc = "down" /\ at = 1 /\ cause = "none" /\ crashes = 0

Step(next) == pc' = next /\ UNCHANGED <<objs, version, at, cause, running, crashes>>
Raise(why) == pc' = "raised" /\ cause' = why /\ UNCHANGED <<objs, version, at, running, crashes>>

\* Start-Orchestrator launches the API; a checkpoint that fails is logged.
Launch == pc \in {"down", "raised"} /\ pc' = "start" /\ cause' = "none" /\ at' = 1 /\ UNCHANGED <<objs, version, running, crashes>>
Checkpoint == pc = "start" /\ Step("migrate")

\* Mutated form: a legacy file is stamped as it is.
MigrateBlind ==
  /\ pc = "migrate"
  /\ IF version = Head THEN Step("validate")
     ELSE IF Valid /\ version \in {NoTable, NoRow} THEN Step("stamp")
     ELSE Step("upgrade")

\* run_alembic_migrations: at the head, a valid file without a revision, or an
\* upgrade.
Migrate ==
  /\ pc = "migrate"
  /\ IF version = Head THEN Step("validate")
     ELSE IF Valid /\ version \in {NoTable, NoRow} THEN Step(IF MissingIndex THEN "index" ELSE "stamp")
     ELSE Step("upgrade")

\* _create_missing_indexes_before_stamp
CreateIndex ==
  /\ pc = "index"
  /\ IF Duplicated THEN Raise("duplicates")
     ELSE objs' = objs \cup {Unique} /\ pc' = "stamp" /\ UNCHANGED <<version, at, cause, running, crashes>>

\* DELETE and INSERT into alembic_version in one transaction.
Stamp ==
  /\ pc = "stamp"
  /\ IF version = NoTable THEN Raise("no table")
     ELSE version' = Head /\ pc' = "stamped" /\ UNCHANGED <<objs, at, cause, running, crashes>>

CheckStamp == pc = "stamped" /\ version = Head /\ Step("validate")

Revision == IF version \in Nat THEN version ELSE 0

\* Alembic makes its table before the first migration.
EnsureTable ==
  /\ pc = "upgrade" /\ version = NoTable /\ version' = NoRow
  /\ UNCHANGED <<objs, pc, at, cause, running, crashes>>

\* A statement of the next migration. Only the unique index may be there
\* already, and only it can meet rows it refuses.
Statement ==
  /\ pc = "upgrade" /\ version # NoTable /\ Revision < Head /\ at <= Steps[Revision + 1]
  /\ LET new == <<Revision + 1, at>> IN
     IF new = Unique /\ Duplicated /\ new \notin objs THEN Raise("duplicates")
     ELSE IF new \in objs /\ new # Unique THEN Raise("exists")
     ELSE objs' = objs \cup {new} /\ at' = at + 1 /\ UNCHANGED <<version, pc, cause, running, crashes>>

\* The version, after the statements of its migration.
Bump ==
  /\ pc = "upgrade" /\ version # NoTable /\ Revision < Head /\ at > Steps[Revision + 1]
  /\ version' = Revision + 1 /\ at' = 1
  /\ UNCHANGED <<objs, pc, cause, running, crashes>>

Upgraded == pc = "upgrade" /\ version = Head /\ Step("validate")

Validate == pc = "validate" /\ (IF Valid THEN Step("clean") ELSE Raise("incomplete"))

\* _cleanup_zombie_tasks
Clean ==
  /\ pc = "clean" /\ pc' = "serving" /\ running' = [a \in Automation |-> 0]
  /\ UNCHANGED <<objs, version, at, cause, crashes>>

\* The worker, alive before the API is: the index refuses a second RUNNING.
\* Without it a claim and a telemetry start of the API may cross.
StartRun(a) ==
  /\ pc \in {"start", "serving"} /\ Of(1) \subseteq objs
  /\ running[a] < (IF Unique \in objs \/ pc # "serving" THEN 1 ELSE 2)
  /\ running' = [running EXCEPT ![a] = @ + 1]
  /\ UNCHANGED <<objs, version, pc, at, cause, crashes>>

EndRun(a) ==
  /\ running[a] > 0 /\ running' = [running EXCEPT ![a] = @ - 1]
  /\ UNCHANGED <<objs, version, pc, at, cause, crashes>>

\* The rows named by the error are closed by hand.
Operator ==
  /\ pc = "raised" /\ cause = "duplicates"
  /\ running' = [a \in Automation |-> IF running[a] > 1 THEN 1 ELSE running[a]]
  /\ UNCHANGED <<objs, version, pc, at, cause, crashes>>

\* The process is killed; in a migration, if the instance says so.
Crash ==
  /\ pc \notin {"down", "raised"} /\ crashes < MaxCrashes
  /\ CutUpgrade \/ pc # "upgrade" \/ (at = 1 /\ version \in Nat)
  /\ pc' = "down" /\ crashes' = crashes + 1
  /\ UNCHANGED <<objs, version, at, cause, running>>

Boot == \/ Checkpoint \/ Migrate \/ CreateIndex \/ Stamp \/ CheckStamp \/ EnsureTable \/ Statement \/ Bump
        \/ Upgraded \/ Validate \/ Clean

Next == Boot \/ Launch \/ Operator \/ Crash \/ \E a \in Automation : StartRun(a) \/ EndRun(a)

\* A start runs to its end, Start-Orchestrator is launched again, and somebody
\* reads the error of the index.
Fairness == WF_vars(Boot) /\ WF_vars(Launch) /\ SF_vars(Operator)

Spec == Init /\ [][Next]_vars
LiveSpec == Spec /\ Fairness
-----------------------------------------------------------------------------
\* Wherever the process is killed, the file holds what its revision says: no
\* later start skips a migration that was never applied.
RevisionIsTrue == version \in Nat => UpTo(version) \subseteq objs

\* An API that serves has every column, and the index that keeps two
\* executions of an automation from running at once.
ServedIsWhole == pc = "serving" => Valid /\ ~MissingIndex

\* No executions of an earlier run count as running twice once it serves.
OneRunning == pc = "serving" => ~Duplicated

\* Unless it is killed inside a migration, the API comes back.
Starts == []<>(pc = "serving")

\* Violated: "Schema legado valido sem revisao Alembic. Aplicando stamp", where
\* the revision is missing because its table is.
StampWorks == cause # "no table"
=============================================================================
