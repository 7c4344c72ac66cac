------------------------------- MODULE Worker -------------------------------
(***************************************************************************)
(* The worker process (Orchestrator/worker.py) and its restarts.           *)
(*                                                                         *)
(*   wk       "up" polling; "draining" once shutdown_event is set; "down"  *)
(*   boot     which worker process this is: it stands for                  *)
(*            WORKER_INSTANCE_ID, which no two processes share             *)
(*   swept    the API has started, and swept, since the worker went down   *)
(*   claim    the main loop's thread: where it stands in claim_next_task   *)
(*   task     the pool's threads: how far run_task(e) has come             *)
(*   proc     the PowerShell process of e                                  *)
(*                                                                         *)
(* Threads interleave at every database session and at every taskkill.     *)
(***************************************************************************)
EXTENDS ExecutionStore

CONSTANTS
  MaxWorkers,   \* size of the thread pool
  ClaimLimit,   \* LIMIT of the candidates' query
  Results,      \* statuses an exit code is classified into
  MaxBoots      \* bound: worker processes ever started

ASSUME WorkerAssumption ==
  /\ MaxWorkers \in Nat \ {0}
  /\ ClaimLimit \in Nat \ {0}
  /\ MaxBoots \in Nat \ {0}
  /\ Results \subseteq {"SUCCESS", "PARTIAL", "ERROR"}

VARIABLES wk, boot, swept, claim, task, proc

workerVars == <<wk, boot, swept, claim, task, proc>>
vars == <<row, txn, wk, boot, swept, claim, task, proc>>

At(pc, S, e) == [pc |-> pc, todo |-> S, exec |-> e]

Idle == At("idle", {}, 0)

Claim ==
  [pc : {"idle", "scan", "cas", "dispatch", "stopped"}, todo : SUBSET Exec,
   exec : Exec \cup {0}]

\* stage  submitted  in the pool       starting  status read, Popen next
\*        monitor    _monitor_process  close     a finaliser is to read the row
\*        commit     read, to write    cleanup   process alive in the finally block
\* out    what the finaliser writes
\* failed run_task is in its except block
Thread(stage, out, failed) == [stage |-> stage, out |-> out, failed |-> failed]

NoTask == Thread("none", "ERROR", FALSE)

Task ==
  [stage : {"none", "submitted", "starting", "monitor", "close", "commit", "cleanup"},
   out : Results \cup {"ERROR", "TERMINATED", "TIMEOUT", "FAILED_BY_REBOOT"},
   failed : BOOLEAN]

WorkerTypeOK ==
  /\ wk \in {"up", "draining", "down"}
  /\ boot \in 1..MaxBoots
  /\ swept \in BOOLEAN
  /\ claim \in Claim
  /\ task \in [Exec -> Task]
  /\ proc \in [Exec -> {"none", "alive", "exited", "killed", "orphan"}]

WorkerInit ==
  /\ wk = "up"
  /\ boot = 1
  /\ swept = TRUE
  /\ claim = Idle
  /\ task = [e \in Exec |-> NoTask]
  /\ proc = [e \in Exec |-> "none"]
-----------------------------------------------------------------------------
(* claim_next_task and the main loop around it.                            *)

Pending == {e \in Exec : Status(e) = "PENDING"}

Before(e, f) ==
  row[e].prio < row[f].prio \/ (row[e].prio = row[f].prio /\ e < f)

Candidates ==
  {e \in Pending : Cardinality({f \in Pending : Before(f, e)}) < ClaimLimit}

IsFirst(e, S) == e \in S /\ \A f \in S \ {e} : Before(e, f)

Busy == {e \in Exec : task[e].stage # "none"}

ClaimScan ==
  /\ wk = "up" /\ claim.pc = "idle"
  /\ Cardinality(Busy) < MaxWorkers
  /\ Pending # {}
  /\ claim' = At("scan", Candidates, 0)
  /\ UNCHANGED <<row, txn, wk, boot, swept, task, proc>>

Considering(e) == claim.pc = "scan" /\ IsFirst(e, claim.todo)

Rest(e) ==
  IF claim.todo = {e} THEN Idle ELSE At("scan", claim.todo \ {e}, 0)

\* Mutated form: the group is not consulted before the claim.
BlockedNever(e) == FALSE

\* Mutated form: as in the manual start, executions of the candidate's own
\* automation do not count.
BlockedByOthers(e) ==
  {f \in GroupRunning(GroupOf[row[e].auto]) : row[f].auto # row[e].auto} # {}

Blocked(e) == GroupRunning(GroupOf[row[e].auto]) # {}

ClaimPick(e) ==
  /\ Considering(e) /\ ~Blocked(e)
  /\ claim' = At("cas", claim.todo, e)
  /\ UNCHANGED <<row, txn, wk, boot, swept, task, proc>>

\* A blocked candidate stays in the queue ...
ClaimSkip(e) ==
  /\ Considering(e) /\ Blocked(e)
  /\ claim' = Rest(e)
  /\ UNCHANGED <<row, txn, wk, boot, swept, task, proc>>

\* ... unless it has waited past the window: compare-and-set to EXPIRED.
ClaimExpire(e) ==
  /\ Considering(e) /\ Blocked(e)
  /\ Status(e) = "PENDING"
  /\ row' = [row EXCEPT ![e].status = "EXPIRED"]
  /\ claim' = Rest(e)
  /\ UNCHANGED <<txn, wk, boot, swept, task, proc>>

\* Mutated form: UPDATE ... WHERE id = :id, without the status.
ClaimWinsBlindly(e) ==
  /\ claim.pc = "cas" /\ claim.exec = e
  /\ MayRun(row[e].auto)
  /\ row' = [row EXCEPT ![e].status = "RUNNING", ![e].owner = boot]
  /\ claim' = At("dispatch", {}, e)
  /\ UNCHANGED <<txn, wk, boot, swept, task, proc>>

ClaimWins(e) ==
  /\ claim.pc = "cas" /\ claim.exec = e
  /\ Status(e) = "PENDING" /\ MayRun(row[e].auto)
  /\ row' = [row EXCEPT ![e].status = "RUNNING", ![e].owner = boot]
  /\ claim' = At("dispatch", {}, e)
  /\ UNCHANGED <<txn, wk, boot, swept, task, proc>>

ClaimLost(e) ==
  /\ claim.pc = "cas" /\ claim.exec = e
  /\ Status(e) # "PENDING"
  /\ claim' = Rest(e)
  /\ UNCHANGED <<row, txn, wk, boot, swept, task, proc>>

\* The index refuses the UPDATE: the whole pass is abandoned.
ClaimConflict(e) ==
  /\ claim.pc = "cas" /\ claim.exec = e
  /\ Status(e) = "PENDING" /\ ~MayRun(row[e].auto)
  /\ claim' = Idle
  /\ UNCHANGED <<row, txn, wk, boot, swept, task, proc>>

\* Automations are not deleted here (AutomationRegistry has that): the branches for a row or
\* an automation that is gone by now are left out.
Dispatch(e) ==
  /\ claim.pc = "dispatch" /\ claim.exec = e
  /\ task' = [task EXCEPT ![e] = Thread("submitted", "ERROR", FALSE)]
  /\ claim' = Idle
  /\ UNCHANGED <<row, txn, wk, boot, swept, proc>>

\* A database error anywhere in the pass: the loop logs it and goes on, also
\* when the claim is already committed.
LoopFault ==
  /\ Faults
  /\ claim.pc \in {"scan", "cas", "dispatch"}
  /\ claim' = Idle
  /\ UNCHANGED <<row, txn, wk, boot, swept, task, proc>>
-----------------------------------------------------------------------------
(* run_task: one pool thread per dispatched execution.                     *)

SetStage(e, s) == task' = [task EXCEPT ![e].stage = s]

\* Where the thread goes when its work on the row is over.
Leave(e) ==
  task' = [task EXCEPT ![e] = IF proc[e] = "alive"
                                THEN [@ EXCEPT !.stage = "cleanup"]
                                ELSE NoTask]

\* Mutated form: the status is not looked at before the launch.
LaunchCheckBlind(e) ==
  /\ task[e].stage = "submitted"
  /\ row' = [row EXCEPT ![e].status = "RUNNING", ![e].owner = boot]
  /\ SetStage(e, "starting")
  /\ UNCHANGED <<txn, wk, boot, swept, claim, proc>>

\* Phase 1.  The read that admits the launch; Popen comes after it.
LaunchCheck(e) ==
  /\ task[e].stage = "submitted"
  /\ Active(e)
  /\ row' = [row EXCEPT ![e].status = "RUNNING", ![e].owner = boot]
  /\ SetStage(e, "starting")
  /\ UNCHANGED <<txn, wk, boot, swept, claim, proc>>

\* Mutated form: only a PENDING row is launched, as before the claim wrote
\* RUNNING itself.
LaunchIgnoredIfClaimed(e) ==
  /\ task[e].stage = "submitted"
  /\ Status(e) # "PENDING"
  /\ Leave(e)
  /\ UNCHANGED <<row, txn, wk, boot, swept, claim, proc>>

LaunchIgnored(e) ==
  /\ task[e].stage = "submitted"
  /\ ~Active(e)
  /\ Leave(e)
  /\ UNCHANGED <<row, txn, wk, boot, swept, claim, proc>>

Launch(e) ==
  /\ task[e].stage = "starting"
  /\ proc' = [proc EXCEPT ![e] = "alive"]
  /\ SetStage(e, "monitor")
  /\ UNCHANGED <<row, txn, wk, boot, swept, claim>>

\* The automation ends by itself.
ProcessExit(e) ==
  /\ proc[e] \in {"alive", "orphan"}
  /\ proc' = [proc EXCEPT ![e] = "exited"]
  /\ UNCHANGED <<row, txn, wk, boot, swept, claim, task>>

Close(e, s) == task' = [task EXCEPT ![e].stage = "close", ![e].out = s]

Kill(e) == proc' = [proc EXCEPT ![e] = "killed"]

Monitoring(e) == task[e].stage = "monitor"

\* The process is found finished; its exit code decides.  taskkill /F makes
\* the exit code 1, which EXIT_CODE_MAP reads as ERROR.
MonitorExit(e) ==
  /\ Monitoring(e)
  /\ \/ proc[e] = "exited" /\ \E s \in Results : Close(e, s)
     \/ proc[e] = "killed" /\ Close(e, "ERROR")
  /\ UNCHANGED <<row, txn, wk, boot, swept, claim, proc>>

\* The periodic look at the row finds the user's stop.
TickStop(e) ==
  /\ wk = "up" /\ Monitoring(e) /\ proc[e] = "alive"
  /\ Status(e) = "TERMINATED"
  /\ Kill(e)
  /\ Close(e, "TERMINATED")
  /\ UNCHANGED <<row, txn, wk, boot, swept, claim>>

\* Mutated form: the timeout is only applied to a row that is still RUNNING.
TickTimeoutRunning(e) ==
  /\ wk = "up" /\ Monitoring(e) /\ proc[e] = "alive"
  /\ Status(e) = "RUNNING"
  /\ Kill(e)
  /\ Close(e, "TIMEOUT")
  /\ UNCHANGED <<row, txn, wk, boot, swept, claim>>

\* max_runtime_minutes has passed.
TickTimeout(e) ==
  /\ wk = "up" /\ Monitoring(e) /\ proc[e] = "alive"
  /\ Status(e) # "TERMINATED"
  /\ Kill(e)
  /\ Close(e, "TIMEOUT")
  /\ UNCHANGED <<row, txn, wk, boot, swept, claim>>

\* The monitor sees shutdown_event with its process still alive.
ShutdownKill(e) ==
  /\ wk = "draining" /\ Monitoring(e) /\ proc[e] = "alive"
  /\ Kill(e)
  /\ Close(e, "FAILED_BY_REBOOT")
  /\ UNCHANGED <<row, txn, wk, boot, swept, claim>>

\* What a finaliser that is to write s leaves as it is: a protected status,
\* except for finalize_terminated_task, which looks at none, and an equal one,
\* which gives the ORM nothing to UPDATE.
Kept(s) == {s} \cup IF s = "TERMINATED" THEN {} ELSE ProtectedStatuses

CloseRead(e) ==
  /\ task[e].stage = "close"
  /\ IF Status(e) \in Kept(task[e].out)
       THEN Leave(e)
       ELSE SetStage(e, "commit")
  /\ UNCHANGED <<row, txn, wk, boot, swept, claim, proc>>

CloseWrite(e) ==
  /\ task[e].stage = "commit"
  /\ row' = [row EXCEPT ![e].status = task[e].out]
  /\ Leave(e)
  /\ UNCHANGED <<txn, wk, boot, swept, claim, proc>>

\* Any exception in the body: apply_internal_worker_error takes over.
TaskFault(e) ==
  /\ Faults
  /\ task[e].stage \in {"submitted", "starting", "monitor", "close", "commit"}
  /\ ~task[e].failed
  /\ task' = [task EXCEPT ![e] = Thread("close", "ERROR", TRUE)]
  /\ UNCHANGED <<row, txn, wk, boot, swept, claim, proc>>

\* An exception in the except block: the row is never written.
HandlerFault(e) ==
  /\ Faults
  /\ task[e].failed /\ task[e].stage \in {"close", "commit"}
  /\ Leave(e)
  /\ UNCHANGED <<row, txn, wk, boot, swept, claim, proc>>

\* Mutated form: the finally block forgets the process it pops.
CleanupForgets(e) ==
  /\ task[e].stage = "cleanup"
  /\ proc' = proc
  /\ task' = [task EXCEPT ![e] = NoTask]
  /\ UNCHANGED <<row, txn, wk, boot, swept, claim>>

\* The finally block kills a process that outlived its monitor.
Cleanup(e) ==
  /\ task[e].stage = "cleanup"
  /\ proc' = [proc EXCEPT ![e] = IF @ = "alive" THEN "killed" ELSE @]
  /\ task' = [task EXCEPT ![e] = NoTask]
  /\ UNCHANGED <<row, txn, wk, boot, swept, claim>>
-----------------------------------------------------------------------------
(* Shutdown, crash and restart (Infrastructure/Start-Orchestrator.ps1 and  *)
(* Recover-Orchestrator.ps1: ask the worker to stop, kill what is left,    *)
(* start the API, then the worker).                                        *)

\* The stop sentinel, SIGINT or SIGTERM.  Bound: a restart is still possible.
RequestShutdown ==
  /\ wk = "up" /\ boot < MaxBoots
  /\ wk' = "draining"
  /\ UNCHANGED <<row, txn, boot, swept, claim, task, proc>>

Registered == {e \in Exec : task[e].stage \in {"monitor", "close", "commit"}}

\* _terminate_active_processes, once the main loop has left its pass.
TerminateActive ==
  /\ wk = "draining" /\ claim.pc = "idle"
  /\ proc' = [e \in Exec |-> IF e \in Registered /\ proc[e] = "alive"
                               THEN "killed" ELSE proc[e]]
  /\ claim' = At("stopped", {}, 0)
  /\ UNCHANGED <<row, txn, wk, boot, swept, task>>

\* The interpreter ends after joining the pool's threads.
WorkerExit ==
  /\ wk = "draining" /\ claim.pc = "stopped" /\ Busy = {}
  /\ wk' = "down" /\ swept' = FALSE
  /\ claim' = Idle
  /\ UNCHANGED <<row, txn, boot, task, proc>>

\* A crash, or Stop-Process -Force when the grace period is over: no Python
\* runs, and the PowerShell children stay.
WorkerCrash ==
  /\ wk \in {"up", "draining"} /\ boot < MaxBoots
  /\ wk' = "down" /\ swept' = FALSE
  /\ claim' = Idle
  /\ task' = [e \in Exec |-> NoTask]
  /\ proc' = [e \in Exec |-> IF proc[e] = "alive" THEN "orphan" ELSE proc[e]]
  /\ UNCHANGED <<row, txn, boot>>

\* Mutated form: the sweep takes the rows that have no owner.
ZombieUnowned(e) == Status(e) = "RUNNING" /\ ~Owned(e)

\* The rows mark_running_tasks_as_failed_by_reboot closes.
Zombie(e) == Status(e) = "RUNNING" /\ Owned(e)

\* The API process is replaced: its requests and jobs die with it and its
\* startup closes the rows a worker left RUNNING.
ApiStart ==
  /\ wk = "down" /\ ~swept
  /\ swept' = TRUE
  /\ row' = [e \in Exec |-> IF Zombie(e)
                              THEN [row[e] EXCEPT !.status = "FAILED_BY_REBOOT"]
                              ELSE row[e]]
  /\ txn' = [t \in Sessions |-> NoTxn]
  /\ UNCHANGED <<wk, boot, claim, task, proc>>

BootWorker ==
  /\ wk = "down" /\ swept /\ boot < MaxBoots
  /\ wk' = "up" /\ boot' = boot + 1
  /\ UNCHANGED <<row, txn, swept, claim, task, proc>>
-----------------------------------------------------------------------------
ClaimLoop ==
  \/ ClaimScan
  \/ \E e \in Exec :
       \/ ClaimPick(e) \/ ClaimSkip(e) \/ ClaimExpire(e)
       \/ ClaimWins(e) \/ ClaimLost(e) \/ ClaimConflict(e) \/ Dispatch(e)
  \/ TerminateActive

TaskThread(e) ==
  \/ LaunchCheck(e) \/ LaunchIgnored(e) \/ Launch(e)
  \/ MonitorExit(e) \/ TickStop(e) \/ TickTimeout(e) \/ ShutdownKill(e)
  \/ CloseRead(e) \/ CloseWrite(e) \/ Cleanup(e)

Environment ==
  \/ \E e \in Exec : ProcessExit(e) \/ TaskFault(e) \/ HandlerFault(e)
  \/ LoopFault \/ RequestShutdown \/ WorkerCrash

Restart == WorkerExit \/ ApiStart \/ BootWorker

WorkerNext ==
  \/ ClaimLoop
  \/ \E e \in Exec : TaskThread(e)
  \/ Environment
  \/ Restart
=============================================================================
