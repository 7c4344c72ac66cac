---------------------------- MODULE Orchestrator ----------------------------
(***************************************************************************)
(* The API, the scheduler and the worker over one executions table, the    *)
(* properties of the whole, and its refinement of ExecutionLifecycle.      *)
(***************************************************************************)
EXTENDS Worker

Init == StoreInit /\ WorkerInit

Next ==
  \/ StoreNext /\ UNCHANGED workerVars
  \/ WorkerNext

Spec == Init /\ [][Next]_vars

(***************************************************************************)
(* Fairness.  A session commits what it validated; the reaper's job runs   *)
(* every 15 minutes; the main loop and each pool thread take their next    *)
(* step (max_runtime_minutes bounds the monitor, so some step of TaskThread*)
(* is always enabled while it watches a process); the scripts finish a     *)
(* restart they began.  Nothing obliges a user, a crash, a fault or a      *)
(* process to do anything.                                                 *)
(***************************************************************************)
Fairness ==
  /\ \A t \in Sessions : WF_vars(Commit(t) /\ UNCHANGED workerVars)
  /\ WF_vars(\E t \in Sessions, e \in Exec :
                ReapOrphanedTelemetry(t, e) /\ UNCHANGED workerVars)
  /\ WF_vars(ClaimLoop)
  /\ \A e \in Exec : WF_vars(TaskThread(e))
  /\ WF_vars(WorkerExit) /\ WF_vars(ApiStart) /\ WF_vars(BootWorker)

FairSpec == Spec /\ Fairness
-----------------------------------------------------------------------------
(* Invariants.                                                             *)

\* Every variable keeps its type (store and worker).
TypeOK == StoreTypeOK /\ WorkerTypeOK

\* Two executions of one automation are never RUNNING together: five
\* producers check before they insert, and only the index sees them all.
OneRunningPerAutomation ==
  \A e, f \in Exec :
    Status(e) = "RUNNING" /\ Status(f) = "RUNNING" /\ row[e].auto = row[f].auto
      => e = f

\* The worker never runs two executions of one queue_group, although the
\* check and the compare-and-set of claim_next_task are separate and no
\* index backs the group.
GroupExclusion ==
  \A e, f \in Exec :
    (/\ Status(e) = "RUNNING" /\ Owned(e)
     /\ Status(f) = "RUNNING" /\ Owned(f)
     /\ GroupOf[row[e].auto] = GroupOf[row[f].auto]
     /\ GroupOf[row[e].auto] # NoGroup)
    => e = f

\* A live process has a living supervisor: whatever exception ends run_task,
\* the finally block has not left a PowerShell nobody watches.
Supervised ==
  \A e \in Exec : proc[e] = "alive" =>
    wk # "down" /\ task[e].stage \in {"monitor", "close", "commit", "cleanup"}

\* A running worker never shares the table with RUNNING rows of a dead one: the sweep of
\* the API's start comes between any two workers, because Start-Orchestrator.ps1:81-118
\* waits for the API before it starts the worker.  It rests on that order alone: the
\* docstring of the sweep (execution_runtime.py:561-564) tells the opposite one ("sobe o
\* worker ANTES da API"), under which a new worker would claim before the sweep, beside
\* the rows of the dead one, and the sweep would end its executions too.
NoStaleOwner ==
  wk # "down" =>
    \A e \in Exec : Status(e) = "RUNNING" /\ Owned(e) => row[e].owner = boot

InDispatch(e) == claim.pc = "dispatch" /\ claim.exec = e

\* Without faults a RUNNING row the worker claimed always has a thread, or
\* the dispatch about to make one: nothing claimed is forgotten, whatever
\* stops, late telemetry ends and shutdowns cross it.
NoLostClaim ==
  wk # "down" /\ ~Faults =>
    \A e \in Exec : Status(e) = "RUNNING" /\ Owned(e) =>
      \/ task[e].stage # "none"
      \/ InDispatch(e)

\* Where every automation has a group and none is reported by telemetry, the
\* group check spares claim_next_task the IntegrityError that abandons a
\* whole pass.
ClaimNeverConflicts ==
  (TelemetryAutos = {} /\ \A a \in Automation : GroupOf[a] # NoGroup) =>
    \A e \in Exec :
      claim.pc = "cas" /\ claim.exec = e /\ Status(e) = "PENDING"
        => MayRun(row[e].auto)
\* The worker acts on a row only after claiming it, starts nothing for a row
\* that already had a process, and a pending commit of the API concerns a row
\* that is still what the request read it to be in kind: inserted for a stop
\* or an end, over for a requeue.  With TypeOK it is inductive.
ClaimDiscipline ==
  /\ \A e \in Exec :
       /\ Status(e) \in {"ABSENT", "PENDING"} => ~Owned(e)
       /\ ~Owned(e) => task[e].stage = "none" /\ proc[e] = "none" /\ ~InDispatch(e)
       /\ task[e].stage \in {"submitted", "starting"} => proc[e] = "none"
       /\ InDispatch(e) => task[e].stage = "none" /\ proc[e] = "none"
  /\ \A t \in Sessions :
       LET e == txn[t].exec
       IN  /\ txn[t].op = "close" =>
                /\ e \in Exec /\ Status(e) # "ABSENT"
                /\ txn[t].status \in TerminalStatuses
           /\ txn[t].op = "requeue" => e \in Exec /\ Status(e) \in QueueableSources
-----------------------------------------------------------------------------
(* Action properties.                                                      *)

\* No execution's process is started twice, however often the row is
\* stopped, requeued, swept or claimed after a restart.
LaunchedOnce ==
  [][\A e \in Exec : proc'[e] = "alive" /\ proc[e] # "alive" => proc[e] = "none"]_vars

\* An execution that ended never becomes active again, so a late writer
\* (finaliser, stop, telemetry end, sweep) never hands it back to the queue.
OverIsOver ==
  [][\A e \in Exec : Status(e) \in QueueableSources => ~Active(e)']_vars
-----------------------------------------------------------------------------
(* Refinement of the abstract life of an execution.                        *)

phaseOf(e) ==
  CASE Status(e) = "ABSENT" -> "absent"
    [] Status(e) = "PENDING" -> "waiting"
    [] Status(e) = "RUNNING" -> IF Owned(e) THEN "running" ELSE "external"
    [] OTHER -> "over"

Lifecycle == INSTANCE ExecutionLifecycle WITH
  phase <- [e \in Exec |-> phaseOf(e)],
  claimed <- {e \in Exec : Owned(e)},
  launched <- {e \in Exec : proc[e] # "none"}

\* The whole orchestrator implements ExecutionLifecycle.
LifecycleSpec == Lifecycle!Spec
-----------------------------------------------------------------------------
(* Liveness, under FairSpec.                                               *)

\* Whatever is waiting leaves the queue: it runs, expires or is stopped,
\* through blocked groups, conflicts of the index, shutdowns and crashes.
QueueDrains ==
  \A e \in Exec : Status(e) = "PENDING" ~> Status(e) # "PENDING"

\* No row stays RUNNING: the timeout ends a hung process, the reaper an
\* abandoned telemetry, the sweep what a dead worker left.
RunningEnds ==
  \A e \in Exec : Status(e) = "RUNNING" ~> Status(e) # "RUNNING"

\* A supervised process does not run forever, also when its row was stopped
\* and requeued, or closed by a telemetry end, behind the monitor's back.
ProcessEnds ==
  \A e \in Exec : proc[e] = "alive" ~> proc[e] # "alive"
-----------------------------------------------------------------------------
(* What the repository says and the program does not do.                   *)

\* execution_runtime.py:708 says of a requeued source that it "terminou, foi
\* substituída pela nova": a REQUEUED execution has no process left.
RequeuedHasEnded ==
  \A e \in Exec : Status(e) = "REQUEUED" => proc[e] # "alive"

\* worker.py:648 says of the exit path in a shutdown that the process ended
\* by itself and that "o resultado real" is preserved: a result is only taken
\* from a process that exited, never from one the shutdown killed.
ResultIsReal ==
  \A e \in Exec :
    task[e].stage = "close" /\ ~task[e].failed /\ task[e].out \in Results
      => proc[e] = "exited"

\* execution_runtime.py:452 says that a stop recorded between the tick's read
\* and the UPDATE is not overwritten with TIMEOUT.
StopSurvivesTimeout ==
  [][\A e \in Exec : Status(e) = "TERMINATED" => Status(e)' # "TIMEOUT"]_vars
=============================================================================
