--------------------------- MODULE ExecutionStore ---------------------------
(***************************************************************************)
(* The executions table and everyone who writes it except the worker: the  *)
(* HTTP routers and the scheduler's jobs                                   *)
(* (Orchestrator/app/routers, app/services/scheduler_runtime.py,           *)
(* app/services/execution_runtime.py).                                     *)
(*                                                                         *)
(*   row[e]   the row of execution e; status "ABSENT" until it is inserted *)
(*            owner is worker_instance_id, 0 for NULL, else the number of  *)
(*            the worker process (its boot) that claimed the row           *)
(*   txn[t]   what the request or job on session t has validated and not   *)
(*            yet committed                                                *)
(*                                                                         *)
(* Every writer is an ORM read-modify-write: it reads, validates in Python *)
(* and commits later.  pysqlite opens its transaction at the first write,  *)
(* so the reads protect nothing, and the UPDATE of the commit is keyed by  *)
(* the id alone.  A read and its commit are therefore two actions.         *)
(***************************************************************************)
EXTENDS Integers, FiniteSets

\* The status vocabulary of a row (src/Orchestrator/app/constants.py), shared by
\* the API, the scheduler and the worker.
ActiveStatuses == {"PENDING", "RUNNING"}

DeliveredStatuses == {"SUCCESS", "PARTIAL"}

TerminalStatuses ==
  DeliveredStatuses
    \cup {"ERROR", "TIMEOUT", "TERMINATED", "FAILED_BY_REBOOT", "EXPIRED"}

\* What POST /executions/{id}/requeue accepts as a source.
QueueableSources == TerminalStatuses \cup {"REQUEUED"}

AllowedStatuses == ActiveStatuses \cup TerminalStatuses \cup {"REQUEUED"}

\* Statuses the worker's finalisers never overwrite: the early return that
\* complete_process_execution, apply_timeout_result,
\* finalize_reboot_interrupted_task and apply_internal_worker_error share.
ProtectedStatuses == {"TERMINATED", "TIMEOUT"}

\* Failures the scheduler's auto-retry job looks for.
TransientFailures == {"ERROR", "TIMEOUT"}
-----------------------------------------------------------------------------
CONSTANTS
  Automation,      \* the registered automations
  NoAuto,          \* the automation of an absent row
  Group,           \* queue_group names
  NoGroup,         \* queue_group is NULL
  GroupOf,         \* Automation.queue_group
  MaxRetries,      \* Automation.max_retries, copied to every row
  Priorities,      \* ranks a requeue may ask for: 0 HIGH, 1 NORMAL, 2 LOW
  Sessions,        \* request threads and scheduler jobs that may overlap
  MaxExec,         \* bound: rows ever inserted
  TelemetryAutos,  \* automations some terminal reports by telemetry
  EndStatuses,     \* statuses POST /telemetry/end is called with
  Faults           \* BOOLEAN: database errors and failing launches happen

Exec == 1..MaxExec

ASSUME AutoAssumption ==
  /\ NoAuto \notin Automation
  /\ NoGroup \notin Group
  /\ GroupOf \in [Automation -> Group \cup {NoGroup}]
  /\ MaxRetries \in [Automation -> Nat]
  /\ TelemetryAutos \subseteq Automation

ASSUME RequestAssumption ==
  /\ MaxExec \in Nat \ {0}
  /\ Priorities \subseteq 0..2
  /\ EndStatuses \subseteq TerminalStatuses
  /\ Faults \in BOOLEAN

VARIABLES row, txn

storeVars == <<row, txn>>

Normal == 1

\* A row as it is inserted: nobody owns it.
NewRow(s, a, n, p) ==
  [status |-> s, auto |-> a, owner |-> 0, retry |-> n, prio |-> p]

NoRow == NewRow("ABSENT", NoAuto, 0, Normal)

Row ==
  [status : AllowedStatuses \cup {"ABSENT"}, auto : Automation \cup {NoAuto},
   owner : Nat, retry : Nat, prio : 0..2]

\* exec is the row the transaction updates (0: none).  status is, for a close,
\* the status it will write and, for a requeue, the one it read.
Work(op, e, a, n, p, s) ==
  [op |-> op, exec |-> e, auto |-> a, retry |-> n, prio |-> p, status |-> s]

NoTxn == Work("idle", 0, NoAuto, 0, Normal, "ABSENT")

Txn ==
  [op : {"idle", "insert", "requeue", "close"}, exec : Exec \cup {0},
   auto : Automation \cup {NoAuto}, retry : Nat, prio : 0..2,
   status : AllowedStatuses \cup {"ABSENT"}]

StoreTypeOK ==
  /\ row \in [Exec -> Row]
  /\ txn \in [Sessions -> Txn]

StoreInit ==
  /\ row = [e \in Exec |-> NoRow]
  /\ txn = [t \in Sessions |-> NoTxn]
-----------------------------------------------------------------------------
Status(e) == row[e].status
Active(e) == Status(e) \in ActiveStatuses
Owned(e) == row[e].owner # 0

ActiveOf(a) == {e \in Exec : Active(e) /\ row[e].auto = a}

InGroup(e, g) == row[e].auto \in Automation /\ GroupOf[row[e].auto] = g

\* get_group_active_execution: NULL groups never conflict.
GroupActive(g) ==
  IF g = NoGroup THEN {} ELSE {e \in Exec : Active(e) /\ InGroup(e, g)}

\* _has_running_execution_for_group.
GroupRunning(g) ==
  IF g = NoGroup THEN {} ELSE {e \in Exec : Status(e) = "RUNNING" /\ InGroup(e, g)}

\* Mutated form: the unique partial index is missing.
MayRunNoIndex(a) == TRUE

\* The unique partial index on automation_id WHERE status = 'RUNNING'.
MayRun(a) == \A e \in Exec : ~(Status(e) = "RUNNING" /\ row[e].auto = a)

\* Ids are handed out in insertion order, which is also the order of
\* started_at among waiting rows.
IsNextId(e) ==
  /\ Status(e) = "ABSENT"
  /\ \A f \in Exec : f < e => Status(f) # "ABSENT"

\* Bound: a request that would insert is only made while a row is left for it.
RoomToInsert ==
  Cardinality({t \in Sessions : txn[t].op \in {"insert", "requeue"}})
    < Cardinality({e \in Exec : Status(e) = "ABSENT"})

Begin(t, work) ==
  /\ txn[t].op = "idle"
  /\ txn' = [txn EXCEPT ![t] = work]
  /\ UNCHANGED row

InsertOf(a) == Work("insert", 0, a, 0, Normal, "ABSENT")

CloseOf(e, s) == Work("close", e, NoAuto, 0, Normal, s)
-----------------------------------------------------------------------------
\* POST /automations/{id}/start.  The cooldown only makes it refuse more often.
ManualStart(t, a) ==
  /\ RoomToInsert
  /\ ActiveOf(a) = {}
  /\ {e \in GroupActive(GroupOf[a]) : row[e].auto # a} = {}
  /\ Begin(t, InsertOf(a))

\* A cron or interval tick.  It does not look at the group.
ScheduledTask(t, a) ==
  /\ RoomToInsert
  /\ ActiveOf(a) = {}
  /\ Begin(t, InsertOf(a))

NextRetry(e) == IF Status(e) = "EXPIRED" THEN row[e].retry ELSE row[e].retry + 1

\* prepare_requeue: the checks and the new row, not committed.
PrepareRequeue(t, e, p) ==
  /\ RoomToInsert
  /\ Status(e) \in QueueableSources
  /\ ActiveOf(row[e].auto) = {}
  /\ GroupActive(GroupOf[row[e].auto]) = {}
  /\ \/ NextRetry(e) <= MaxRetries[row[e].auto]
     \/ Status(e) \in {"SUCCESS", "EXPIRED"}
  /\ Begin(t, Work("requeue", e, row[e].auto, NextRetry(e), p, Status(e)))

\* POST /executions/{id}/requeue: the payload may override the priority.
Requeue(t, e) == \E p \in Priorities \cup {row[e].prio} : PrepareRequeue(t, e, p)

\* The auto-retry job, one candidate at a time.
AutoRetry(t, e) ==
  /\ Status(e) \in TransientFailures
  /\ row[e].retry < MaxRetries[row[e].auto]
  /\ PrepareRequeue(t, e, row[e].prio)

\* POST /executions/{id}/stop.
Stop(t, e) ==
  /\ Active(e)
  /\ Begin(t, CloseOf(e, "TERMINATED"))

\* Mutated form: the historical defect the docstring of
\* finish_telemetry_execution records, an end status that is not terminal.
TelemetryEndAnyStatus(t, e) ==
  /\ TelemetryAutos # {}
  /\ Active(e)
  /\ \E s \in EndStatuses \cup {"PENDING"} : Begin(t, CloseOf(e, s))

\* POST /executions/telemetry/end/{id}: any active row, not only telemetry's.
TelemetryEnd(t, e) ==
  /\ TelemetryAutos # {}
  /\ Active(e)
  /\ \E s \in EndStatuses : Begin(t, CloseOf(e, s))

\* Mutated form: the reaper looks for rows that have an owner.
ReapOwned(t, e) ==
  /\ Status(e) = "RUNNING" /\ Owned(e)
  /\ Begin(t, CloseOf(e, "ERROR"))

\* reap_orphaned_telemetry: RUNNING without an owner for too long.
ReapOrphanedTelemetry(t, e) ==
  /\ Status(e) = "RUNNING" /\ ~Owned(e)
  /\ Begin(t, CloseOf(e, "ERROR"))

\* POST /executions/telemetry/start: one INSERT, only the index checks it.
TelemetryStart(a) ==
  /\ RoomToInsert
  /\ MayRun(a)
  /\ \E e \in Exec :
       /\ IsNextId(e)
       /\ row' = [row EXCEPT ![e] = NewRow("RUNNING", a, 0, Normal)]
  /\ UNCHANGED txn

NewPending(w) == NewRow("PENDING", w.auto, w.retry, w.prio)

\* Mutated form: a source marked with a status constants.py does not know.
SupersededUnknown(w, r) == [r EXCEPT !.status = "REPLACED"]

\* The ORM emits an UPDATE only for an attribute that changed since its read:
\* a source read as REQUEUED is not written again.
Superseded(w, r) ==
  IF w.status = "REQUEUED" THEN r ELSE [r EXCEPT !.status = "REQUEUED"]

CommitInsert(t) ==
  /\ txn[t].op = "insert"
  /\ \E e \in Exec :
       /\ IsNextId(e)
       /\ row' = [row EXCEPT ![e] = NewPending(txn[t])]

CommitRequeue(t) ==
  /\ txn[t].op = "requeue"
  /\ \E e \in Exec :
       /\ IsNextId(e)
       /\ row' = [row EXCEPT ![e] = NewPending(txn[t]),
                             ![txn[t].exec] = Superseded(txn[t], row[txn[t].exec])]

\* Writes over whatever the row has become since it was read.
CommitClose(t) ==
  /\ txn[t].op = "close"
  /\ row' = [row EXCEPT ![txn[t].exec].status = txn[t].status]

Commit(t) ==
  /\ CommitInsert(t) \/ CommitRequeue(t) \/ CommitClose(t)
  /\ txn' = [txn EXCEPT ![t] = NoTxn]

\* The commit fails: session_scope rolls back and nothing was written.
Rollback(t) ==
  /\ Faults
  /\ txn[t].op # "idle"
  /\ txn' = [txn EXCEPT ![t] = NoTxn]
  /\ UNCHANGED row

Request(t) ==
  \/ \E a \in Automation : ManualStart(t, a) \/ ScheduledTask(t, a)
  \/ \E e \in Exec :
       \/ Requeue(t, e) \/ AutoRetry(t, e) \/ Stop(t, e)
       \/ TelemetryEnd(t, e) \/ ReapOrphanedTelemetry(t, e)

StoreNext ==
  \/ \E t \in Sessions : Request(t) \/ Commit(t) \/ Rollback(t)
  \/ \E a \in TelemetryAutos : TelemetryStart(a)
=============================================================================
