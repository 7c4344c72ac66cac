------------------------- MODULE Orchestrator_proofs -------------------------
(***************************************************************************)
(* Theorems of Orchestrator, for every value of its constants: first about *)
(* rows and claims, then about supervision, that a process never outlives  *)
(* its thread, that rows of a dead worker never meet a living one, that a  *)
(* queue_group runs one execution, and that no claim is forgotten.         *)
(***************************************************************************)
EXTENDS Orchestrator, TLAPS

(***************************************************************************)
(* Type correctness.                                                       *)
(***************************************************************************)

\* Writing a status, or a status and an owner, leaves a table of rows.
LEMMA StatusUpdate ==
  ASSUME row \in [Exec -> Row], NEW x, NEW s \in AllowedStatuses \cup {"ABSENT"}
  PROVE  [row EXCEPT ![x].status = s] \in [Exec -> Row]
<1>1. \A r \in Row : [r EXCEPT !.status = s] \in Row
  BY DEF Row
<1> QED BY <1>1

LEMMA ClaimUpdate ==
  ASSUME row \in [Exec -> Row], NEW x, NEW n \in Nat
  PROVE  [row EXCEPT ![x].status = "RUNNING", ![x].owner = n] \in [Exec -> Row]
<1>1. \A r \in Row : [r EXCEPT !.status = "RUNNING"] \in Row
  BY DEF Row, AllowedStatuses, ActiveStatuses
<1>2. \A r \in Row : [r EXCEPT !.owner = n] \in Row
  BY DEF Row
<1> QED BY <1>1, <1>2

\* The API and the scheduler keep the types of the table and of their own
\* transactions.
LEMMA StoreTypes == StoreTypeOK /\ StoreNext => StoreTypeOK'
<1> SUFFICES ASSUME StoreTypeOK, StoreNext PROVE StoreTypeOK'
  OBVIOUS
<1> USE DEF StoreTypeOK
<1>1. \A e \in Exec, s \in TerminalStatuses : CloseOf(e, s) \in Txn
  BY DEF CloseOf, Work, Txn, AllowedStatuses, Normal
<1>2. ASSUME NEW t \in Sessions, NEW w \in Txn, Begin(t, w) PROVE StoreTypeOK'
  BY <1>2 DEF Begin
<1>3. ASSUME NEW t \in Sessions, NEW a \in Automation, ManualStart(t, a) \/ ScheduledTask(t, a)
      PROVE  StoreTypeOK'
  <2>1. InsertOf(a) \in Txn
    BY DEF InsertOf, Work, Txn, Normal
  <2> QED BY <1>2, <1>3, <2>1 DEF ManualStart, ScheduledTask
<1>4. ASSUME NEW t \in Sessions, NEW e \in Exec, NEW p \in 0..2, PrepareRequeue(t, e, p)
      PROVE  StoreTypeOK'
  <2>1. NextRetry(e) \in Nat /\ row[e].auto \in Automation \cup {NoAuto} /\ Status(e) \in AllowedStatuses
    BY <1>4 DEF Row, NextRetry, PrepareRequeue, Status, QueueableSources, AllowedStatuses
  <2>2. Work("requeue", e, row[e].auto, NextRetry(e), p, Status(e)) \in Txn
    BY <2>1 DEF Work, Txn
  <2> QED BY <1>2, <1>4, <2>2 DEF PrepareRequeue
<1>5. ASSUME NEW t \in Sessions, Request(t) PROVE StoreTypeOK'
  <2>1. \A e \in Exec : row[e].prio \in 0..2
    BY DEF Row
  <2>2. {"TERMINATED", "ERROR"} \subseteq TerminalStatuses
    BY DEF TerminalStatuses
  <2> QED
    BY RequestAssumption, <1>1, <1>2, <1>3, <1>4, <1>5, <2>1, <2>2
    DEF Request, Requeue, AutoRetry, Stop, TelemetryEnd, ReapOrphanedTelemetry
<1>6. \A w \in Txn : NewPending(w) \in Row
  BY DEF NewPending, NewRow, Txn, Row, AllowedStatuses, ActiveStatuses
<1>7. ASSUME NEW t \in Sessions, Commit(t) PROVE StoreTypeOK'
  <2>1. NoTxn \in Txn
    BY DEF NoTxn, Work, Txn, Normal
  <2>2. txn' \in [Sessions -> Txn]
    BY <1>7, <2>1 DEF Commit
  <2>3. CASE CommitInsert(t)
    BY <1>6, <2>2, <2>3 DEF CommitInsert
  <2>4. CASE CommitRequeue(t)
    <3>1. \A r \in Row : Superseded(txn[t], r) \in Row
      BY DEF Superseded, Row, AllowedStatuses
    <3> DEFINE v == Superseded(txn[t], row[txn[t].exec])
    <3>2. txn[t].exec \in Exec => v \in Row
      BY <3>1
    <3>3. PICK e \in Exec :
            row' = [row EXCEPT ![e] = NewPending(txn[t]), ![txn[t].exec] = v]
      BY <2>4 DEF CommitRequeue
    <3>4. [row EXCEPT ![e] = NewPending(txn[t])] \in [Exec -> Row]
      BY <1>6
    <3> HIDE DEF v
    <3>5. row' \in [Exec -> Row]
      BY <3>2, <3>3, <3>4
    <3> QED BY <2>2, <3>5
  <2>5. CASE CommitClose(t)
    <3>1. txn[t].status \in AllowedStatuses \cup {"ABSENT"} /\ row \in [Exec -> Row]
      BY DEF Txn
    <3>2. row' \in [Exec -> Row]
      BY <2>5, <3>1, StatusUpdate DEF CommitClose
    <3> QED BY <2>2, <3>2
  <2> QED BY <1>7, <2>3, <2>4, <2>5 DEF Commit
<1>8. ASSUME NEW a \in TelemetryAutos, TelemetryStart(a) PROVE StoreTypeOK'
  <2>1. NewRow("RUNNING", a, 0, Normal) \in Row
    BY AutoAssumption DEF NewRow, Row, Normal, AllowedStatuses, ActiveStatuses
  <2> QED BY <1>8, <2>1 DEF TelemetryStart
<1>9. ASSUME NEW t \in Sessions, Rollback(t) PROVE StoreTypeOK'
  <2>1. NoTxn \in Txn
    BY DEF NoTxn, Work, Txn, Normal
  <2> QED BY <1>9, <2>1 DEF Rollback
<1> QED BY <1>5, <1>7, <1>8, <1>9 DEF StoreNext

\* So does every step of the worker.
LEMMA WorkerTypes == TypeOK /\ WorkerNext => TypeOK'
<1> SUFFICES ASSUME TypeOK, WorkerNext PROVE TypeOK'
  OBVIOUS
<1> USE DEF TypeOK, StoreTypeOK, WorkerTypeOK
<1>1. boot \in Nat
  BY WorkerAssumption
<1>2. \A S \in SUBSET Exec, e \in Exec \cup {0},
         pc \in {"idle", "scan", "cas", "dispatch", "stopped"} : At(pc, S, e) \in Claim
  BY DEF At, Claim
<1>3. Idle \in Claim
  BY <1>2 DEF Idle
<1>4. claim.todo \in SUBSET Exec
  BY DEF Claim
<1>5. \A e \in Exec : Rest(e) \in Claim
  BY <1>2, <1>3, <1>4 DEF Rest
<1>6. NoTask \in Task
  BY DEF NoTask, Thread, Task
<1>7. \A x \in Task, s \in {"none", "submitted", "starting", "monitor",
                             "close", "commit", "cleanup"} : [x EXCEPT !.stage = s] \in Task
  BY DEF Task
<1>8. ASSUME NEW e \in Exec, Leave(e) PROVE task' \in [Exec -> Task]
  BY <1>6, <1>7, <1>8 DEF Leave
<1>9. ASSUME NEW e \in Exec,
             NEW s \in {"none", "submitted", "starting", "monitor", "close",
                        "commit", "cleanup"}, SetStage(e, s)
      PROVE  task' \in [Exec -> Task]
  BY <1>7, <1>9 DEF SetStage
<1>10. ASSUME NEW e \in Exec,
              NEW s \in Results \cup {"ERROR", "TERMINATED", "TIMEOUT", "FAILED_BY_REBOOT"},
              Close(e, s)
       PROVE  task' \in [Exec -> Task]
  <2>1. \A x \in Task : [x EXCEPT !.out = s] \in Task
    BY DEF Task
  <2> QED BY <1>7, <1>10, <2>1 DEF Close
<1>11. CASE ClaimLoop
  <2>1. CASE ClaimScan
    BY <2>1, <1>2 DEF ClaimScan, Candidates, Pending
  <2>2. ASSUME NEW e \in Exec, ClaimPick(e) PROVE TypeOK'
    BY <2>2, <1>2, <1>4 DEF ClaimPick
  <2>3. ASSUME NEW e \in Exec, ClaimSkip(e) \/ ClaimLost(e) \/ ClaimConflict(e) PROVE TypeOK'
    BY <2>3, <1>3, <1>5 DEF ClaimSkip, ClaimLost, ClaimConflict
  <2>4. ASSUME NEW e \in Exec, ClaimExpire(e) PROVE TypeOK'
    BY <2>4, <1>5, StatusUpdate DEF ClaimExpire, AllowedStatuses, TerminalStatuses
  <2>5. ASSUME NEW e \in Exec, ClaimWins(e) PROVE TypeOK'
    BY <2>5, <1>1, <1>2, ClaimUpdate DEF ClaimWins
  <2>6. ASSUME NEW e \in Exec, Dispatch(e) PROVE TypeOK'
    <3>1. Thread("submitted", "ERROR", FALSE) \in Task
      BY DEF Thread, Task
    <3> QED BY <2>6, <3>1, <1>3 DEF Dispatch
  <2>7. CASE TerminateActive
    BY <2>7, <1>2 DEF TerminateActive
  <2> QED BY <1>11, <2>1, <2>2, <2>3, <2>4, <2>5, <2>6, <2>7 DEF ClaimLoop
<1>12. ASSUME NEW e \in Exec, TaskThread(e) PROVE TypeOK'
  <2>1. CASE LaunchCheck(e)
    BY <2>1, <1>1, <1>9, ClaimUpdate DEF LaunchCheck
  <2>2. CASE LaunchIgnored(e)
    BY <2>2, <1>8 DEF LaunchIgnored
  <2>3. CASE Launch(e)
    BY <2>3, <1>9 DEF Launch
  <2>4. CASE MonitorExit(e)
    BY <2>4, <1>10 DEF MonitorExit
  <2>5. CASE TickStop(e) \/ TickTimeout(e) \/ ShutdownKill(e)
    BY <2>5, <1>10 DEF TickStop, TickTimeout, ShutdownKill, Kill
  <2>6. CASE CloseRead(e)
    BY <2>6, <1>8, <1>9 DEF CloseRead
  <2>7. CASE CloseWrite(e)
    <3>1. task[e].out \in AllowedStatuses
      BY WorkerAssumption DEF Task, AllowedStatuses, TerminalStatuses, DeliveredStatuses
    <3> QED BY <2>7, <3>1, <1>8, StatusUpdate DEF CloseWrite
  <2>8. CASE Cleanup(e)
    BY <2>8, <1>6 DEF Cleanup
  <2> QED BY <1>12, <2>1, <2>2, <2>3, <2>4, <2>5, <2>6, <2>7, <2>8 DEF TaskThread
<1>13. CASE Environment
  <2>1. ASSUME NEW e \in Exec, ProcessExit(e) PROVE TypeOK'
    BY <2>1 DEF ProcessExit
  <2>2. ASSUME NEW e \in Exec, TaskFault(e) PROVE TypeOK'
    <3>1. Thread("close", "ERROR", TRUE) \in Task
      BY DEF Thread, Task
    <3> QED BY <2>2, <3>1 DEF TaskFault
  <2>3. ASSUME NEW e \in Exec, HandlerFault(e) PROVE TypeOK'
    BY <2>3, <1>8 DEF HandlerFault
  <2>4. CASE LoopFault \/ RequestShutdown
    BY <2>4, <1>3 DEF LoopFault, RequestShutdown
  <2>5. CASE WorkerCrash
    BY <2>5, <1>3, <1>6 DEF WorkerCrash
  <2> QED BY <1>13, <2>1, <2>2, <2>3, <2>4, <2>5 DEF Environment
<1>14. CASE Restart
  <2>1. CASE WorkerExit
    BY <2>1, <1>3 DEF WorkerExit
  <2>2. CASE ApiStart
    <3>1. NoTxn \in Txn
      BY DEF NoTxn, Work, Txn, Normal
    <3>2. \A r \in Row : [r EXCEPT !.status = "FAILED_BY_REBOOT"] \in Row
      BY DEF Row, AllowedStatuses, TerminalStatuses
    <3> QED BY <2>2, <3>1, <3>2 DEF ApiStart
  <2>3. CASE BootWorker
    BY <2>3, WorkerAssumption DEF BootWorker
  <2> QED BY <1>14, <2>1, <2>2, <2>3 DEF Restart
<1> QED BY <1>11, <1>12, <1>13, <1>14 DEF WorkerNext

\* TypeOK is an invariant.
THEOREM TypeCorrect == Spec => []TypeOK
<1>1. Init => TypeOK
  <2> SUFFICES ASSUME Init PROVE TypeOK
    OBVIOUS
  <2>1. NoRow \in Row /\ NoTxn \in Txn
    BY DEF NoRow, NewRow, Row, NoTxn, Work, Txn, Normal
  <2>2. Idle \in Claim /\ NoTask \in Task
    BY DEF Idle, At, Claim, NoTask, Thread, Task
  <2>3. boot \in 1..MaxBoots
    BY WorkerAssumption DEF Init, WorkerInit
  <2> QED BY <2>1, <2>2, <2>3
          DEF Init, StoreInit, WorkerInit, TypeOK, StoreTypeOK, WorkerTypeOK
<1>2. TypeOK /\ [Next]_vars => TypeOK'
  <2> SUFFICES ASSUME TypeOK, [Next]_vars PROVE TypeOK'
    OBVIOUS
  <2>1. CASE StoreNext /\ UNCHANGED workerVars
    BY <2>1, StoreTypes DEF TypeOK, WorkerTypeOK, workerVars
  <2>2. CASE WorkerNext
    BY <2>2, WorkerTypes
  <2>3. CASE UNCHANGED vars
    BY <2>3 DEF vars, TypeOK, StoreTypeOK, WorkerTypeOK
  <2> QED BY <2>1, <2>2, <2>3 DEF Next
<1> QED BY <1>1, <1>2, PTL DEF Spec

(***************************************************************************)
(* What a step may do to a row.  The three lemmas below read every action  *)
(* once; the theorems after them only use their conclusions.               *)
(***************************************************************************)

\* The row stays, or takes a status that is over; it keeps its automation and
\* does not gain or lose an owner.
Quiet(e) ==
  /\ row'[e].auto = row[e].auto
  /\ Owned(e)' = Owned(e)
  /\ \/ Status(e)' = Status(e)
     \/ Status(e) # "ABSENT" /\ Status(e)' \in QueueableSources

\* As Quiet, but what is not over does not change.
Still(e) ==
  /\ Quiet(e)
  /\ Status(e)' = Status(e) \/ Status(e) \in QueueableSources

\* The row appears, unowned; as RUNNING only if the index allows it.
Inserted(e) ==
  /\ Status(e) = "ABSENT"
  /\ ~Owned(e)'
  /\ \/ Status(e)' = "PENDING"
     \/ Status(e)' = "RUNNING" /\ MayRun(row'[e].auto)

RowStep ==
  \/ \A e \in Exec : Quiet(e)
  \/ \E e \in Exec : Inserted(e) /\ \A f \in Exec \ {e} : Still(f)
  \/ \E e \in Exec : ClaimWins(e)

\* The worker's side of e: a thread comes from a dispatch, a dispatch from a
\* successful claim, a process from a launch.
ThreadStep(e) ==
  /\ task'[e].stage # "none" => task[e].stage # "none" \/ (InDispatch(e) /\ ~InDispatch(e)')
  /\ task'[e].stage \in {"submitted", "starting"}
       => task[e].stage \in {"submitted", "starting"} \/ InDispatch(e)
  /\ InDispatch(e)' => InDispatch(e) \/ ClaimWins(e)
  /\ proc[e] # "none" => proc'[e] # "none"
  /\ proc[e] = "none" => proc'[e] = "none" \/ Launch(e)
  /\ proc'[e] = "alive" => proc[e] = "alive" \/ Launch(e)

LEMMA StatusWrite ==
  ASSUME row \in [Exec -> Row], NEW x \in Exec, Status(x) # "ABSENT",
         NEW s \in QueueableSources, row' = [row EXCEPT ![x].status = s]
  PROVE  \A e \in Exec : Quiet(e)
<1>1. \A e \in Exec \ {x} : row'[e] = row[e]
  OBVIOUS
<1>2. row'[x] = [row[x] EXCEPT !.status = s]
  OBVIOUS
<1>3. row'[x].auto = row[x].auto /\ row'[x].owner = row[x].owner /\ row'[x].status = s
  BY <1>2 DEF Row
<1> QED BY <1>1, <1>3 DEF Quiet, Owned, Status

LEMMA SameRows == row' = row => \A e \in Exec : Quiet(e)
  BY DEF Quiet, Owned, Status

LEMMA Insertion ==
  ASSUME row \in [Exec -> Row], NEW x \in Exec, IsNextId(x), NEW r,
         r.owner = 0,
         r.status = "PENDING" \/ (r.status = "RUNNING" /\ MayRun(r.auto)),
         row'[x] = r, \A f \in Exec \ {x} : Still(f)
  PROVE  RowStep
<1>1. Inserted(x)
  BY DEF Inserted, IsNextId, Owned, Status
<1> QED BY <1>1 DEF RowStep

\* Every step of the API and the scheduler is a RowStep.
LEMMA StoreRowStep == TypeOK /\ ClaimDiscipline /\ StoreNext => RowStep
<1> SUFFICES ASSUME TypeOK, ClaimDiscipline, StoreNext PROVE RowStep
  OBVIOUS
<1>1. row \in [Exec -> Row]
  BY DEF TypeOK, StoreTypeOK
<1>2. ASSUME NEW t \in Sessions, Request(t) PROVE RowStep
  <2>1. row' = row
    BY <1>2 DEF Request, ManualStart, ScheduledTask, Requeue, AutoRetry, PrepareRequeue,
                Stop, TelemetryEnd, ReapOrphanedTelemetry, Begin
  <2> QED BY <2>1, SameRows DEF RowStep
<1>3. ASSUME NEW t \in Sessions, CommitInsert(t) PROVE RowStep
  <2>1. PICK e \in Exec :
          IsNextId(e) /\ row' = [row EXCEPT ![e] = NewPending(txn[t])]
    BY <1>3 DEF CommitInsert
  <2>2. \A f \in Exec \ {e} : Still(f)
    BY <1>1, <2>1 DEF Still, Quiet, Owned, Status
  <2>3. row'[e] = NewPending(txn[t])
    BY <1>1, <2>1
  <2> QED BY <1>1, <2>1, <2>2, <2>3, Insertion DEF NewPending, NewRow
<1>4. ASSUME NEW t \in Sessions, CommitRequeue(t) PROVE RowStep
  <2>0. PICK x \in Exec : x = txn[t].exec /\ Status(x) \in QueueableSources
    BY <1>4 DEF CommitRequeue, ClaimDiscipline
  <2>1. PICK e \in Exec :
          /\ IsNextId(e)
          /\ row' = [row EXCEPT ![e] = NewPending(txn[t]), ![x] = Superseded(txn[t], row[x])]
    BY <1>4, <2>0 DEF CommitRequeue
  <2>2. "REQUEUED" \in QueueableSources /\ "ABSENT" \notin QueueableSources
    BY DEF QueueableSources, TerminalStatuses, DeliveredStatuses
  <2>3. x # e
    BY <2>0, <2>1, <2>2 DEF IsNextId
  <2>4. row'[e] = NewPending(txn[t]) /\ row'[x] = Superseded(txn[t], row[x])
    BY <1>1, <2>1, <2>2, <2>3
  <2>5. \A f \in Exec \ {e, x} : row'[f] = row[f]
    BY <1>1, <2>1, <2>2
  <2>6. Quiet(x)
    <3>1. Superseded(txn[t], row[x]).auto = row[x].auto
          /\ Superseded(txn[t], row[x]).owner = row[x].owner
          /\ Superseded(txn[t], row[x]).status \in {row[x].status, "REQUEUED"}
      BY <1>1 DEF Superseded, Row
    <3> QED BY <2>0, <2>2, <2>4, <3>1 DEF Quiet, Owned, Status
  <2>7. \A f \in Exec \ {e} : Still(f)
    BY <2>0, <2>5, <2>6 DEF Still, Quiet, Owned, Status
  <2> QED BY <1>1, <2>1, <2>4, <2>7, Insertion DEF NewPending, NewRow
<1>5. ASSUME NEW t \in Sessions, CommitClose(t) PROVE RowStep
  <2>1. /\ txn[t].exec \in Exec /\ Status(txn[t].exec) # "ABSENT"
        /\ txn[t].status \in QueueableSources
    BY <1>5 DEF CommitClose, ClaimDiscipline, QueueableSources
  <2> QED BY <1>1, <1>5, <2>1, StatusWrite DEF CommitClose, RowStep
<1>6. ASSUME NEW a \in TelemetryAutos, TelemetryStart(a) PROVE RowStep
  <2>1. PICK e \in Exec :
          IsNextId(e) /\ row' = [row EXCEPT ![e] = NewRow("RUNNING", a, 0, Normal)]
    BY <1>6 DEF TelemetryStart
  <2>2. \A f \in Exec \ {e} : Still(f)
    BY <1>1, <2>1 DEF Still, Quiet, Owned, Status
  <2>3. row'[e] = NewRow("RUNNING", a, 0, Normal) /\ MayRun(a)
    BY <1>1, <1>6, <2>1 DEF TelemetryStart
  <2> QED BY <1>1, <2>1, <2>2, <2>3, Insertion DEF NewRow
<1>7. ASSUME NEW t \in Sessions, Rollback(t) PROVE RowStep
  BY <1>7, SameRows DEF Rollback, RowStep
<1> QED BY <1>2, <1>3, <1>4, <1>5, <1>6, <1>7 DEF StoreNext, Commit

\* So is every step of the worker.
LEMMA WorkerRowStep == TypeOK /\ ClaimDiscipline /\ WorkerNext => RowStep
<1> SUFFICES ASSUME TypeOK, ClaimDiscipline, WorkerNext PROVE RowStep
  OBVIOUS
<1>1. row \in [Exec -> Row]
  BY DEF TypeOK, StoreTypeOK
<1>2. ASSUME NEW e \in Exec, task[e].stage # "none"
      PROVE  Owned(e) /\ Status(e) \notin {"ABSENT", "PENDING"}
  BY <1>2 DEF ClaimDiscipline
<1>3. {"EXPIRED", "TERMINATED", "FAILED_BY_REBOOT"} \subseteq QueueableSources
  BY DEF QueueableSources, TerminalStatuses
<1>4. CASE row' = row
  BY <1>4, SameRows DEF RowStep
<1>5. ASSUME NEW e \in Exec, ClaimExpire(e) PROVE RowStep
  BY <1>1, <1>3, <1>5, StatusWrite DEF ClaimExpire, RowStep
<1>6. ASSUME NEW e \in Exec, LaunchCheck(e) PROVE RowStep
  <2>1. Owned(e) /\ Status(e) = "RUNNING"
    BY <1>2, <1>6 DEF LaunchCheck, Active, ActiveStatuses
  <2>2. \A f \in Exec \ {e} : row'[f] = row[f]
    BY <1>1, <1>6 DEF LaunchCheck
  <2>3. row'[e] = [row[e] EXCEPT !.status = "RUNNING", !.owner = boot]
    BY <1>1, <1>6 DEF LaunchCheck
  <2>4. boot # 0
    BY WorkerAssumption DEF TypeOK, WorkerTypeOK
  <2>5. row'[e].status = "RUNNING" /\ row'[e].owner = boot /\ row'[e].auto = row[e].auto
    BY <1>1, <2>3 DEF Row
  <2> QED BY <2>1, <2>2, <2>4, <2>5 DEF RowStep, Quiet, Owned, Status
<1>7. ASSUME NEW e \in Exec, CloseWrite(e) PROVE RowStep
  <2>1. task[e].out \in QueueableSources
    BY WorkerAssumption
    DEF TypeOK, WorkerTypeOK, Task, QueueableSources, TerminalStatuses, DeliveredStatuses
  <2> QED BY <1>1, <1>2, <1>7, <2>1, StatusWrite DEF CloseWrite, RowStep
<1>8. CASE ApiStart
  <2>1. ASSUME NEW e \in Exec PROVE Quiet(e)
    <3>1. CASE Zombie(e)
      <4>1. row'[e] = [row[e] EXCEPT !.status = "FAILED_BY_REBOOT"]
        BY <1>8, <3>1 DEF ApiStart
      <4>2. row'[e].status = "FAILED_BY_REBOOT" /\ row'[e].owner = row[e].owner
            /\ row'[e].auto = row[e].auto
        BY <1>1, <4>1 DEF Row
      <4> QED BY <1>3, <3>1, <4>2 DEF Quiet, Owned, Status, Zombie
    <3>2. CASE ~Zombie(e)
      BY <1>8, <3>2 DEF ApiStart, Quiet, Owned, Status
    <3> QED BY <3>1, <3>2
  <2> QED BY <2>1 DEF RowStep
<1>9. CASE \E e \in Exec : ClaimWins(e)
  BY <1>9 DEF RowStep
<1>10. CASE ClaimLoop
  BY <1>4, <1>5, <1>9, <1>10
  DEF ClaimLoop, ClaimScan, ClaimPick, ClaimSkip, ClaimLost, ClaimConflict, Dispatch,
      TerminateActive
<1>11. ASSUME NEW e \in Exec, TaskThread(e) PROVE RowStep
  BY <1>4, <1>6, <1>7, <1>11
  DEF TaskThread, LaunchIgnored, Launch, MonitorExit, TickStop, TickTimeout, ShutdownKill,
      CloseRead, Cleanup
<1>12. CASE Environment
  BY <1>4, <1>12
  DEF Environment, ProcessExit, TaskFault, HandlerFault, LoopFault, RequestShutdown,
      WorkerCrash
<1>13. CASE Restart
  BY <1>4, <1>8, <1>13 DEF Restart, WorkerExit, BootWorker
<1> QED BY <1>10, <1>11, <1>12, <1>13 DEF WorkerNext

\* Every step of the worker is a ThreadStep for every execution.
LEMMA WorkerThreadStep == TypeOK /\ WorkerNext => \A e \in Exec : ThreadStep(e)
<1> SUFFICES ASSUME TypeOK, WorkerNext, NEW e \in Exec PROVE ThreadStep(e)
  OBVIOUS
<1>1. task \in [Exec -> Task] /\ proc \in [Exec -> {"none", "alive", "exited", "killed", "orphan"}]
  BY DEF TypeOK, WorkerTypeOK
<1>2. NoTask.stage = "none" /\ Idle.pc = "idle"
  BY DEF NoTask, Thread, Idle, At
<1>3. \A f \in Exec : Rest(f).pc \in {"idle", "scan"}
  BY <1>2 DEF Rest, At
<1>4. \A f \in Exec : Leave(f) => task'[e].stage \in {"none", "cleanup", task[e].stage}
                                   /\ (task[e].stage = "none" /\ e # f => task'[e].stage = "none")
  BY <1>1, <1>2 DEF Leave, Task
<1>5. \A f \in Exec, s \in {"starting", "monitor", "commit"} :
        SetStage(f, s) => task'[e].stage = IF e = f THEN s ELSE task[e].stage
  BY <1>1 DEF SetStage, Task
<1>6. \A f \in Exec : \A s :
        Close(f, s) => task'[e].stage = IF e = f THEN "close" ELSE task[e].stage
  BY <1>1 DEF Close, Task
<1>7. CASE ClaimLoop
  <2>1. CASE ClaimScan
    BY <2>1 DEF ClaimScan, At, ThreadStep, InDispatch
  <2>2. ASSUME NEW f \in Exec,
               ClaimPick(f) \/ ClaimSkip(f) \/ ClaimExpire(f) \/ ClaimLost(f) \/ ClaimConflict(f)
        PROVE  ThreadStep(e)
    BY <2>2, <1>2, <1>3
    DEF ClaimPick, ClaimSkip, ClaimExpire, ClaimLost, ClaimConflict, At, ThreadStep, InDispatch
  <2>3. ASSUME NEW f \in Exec, ClaimWins(f) PROVE ThreadStep(e)
    <3>1. InDispatch(e)' => e = f
      BY <2>3 DEF ClaimWins, InDispatch, At
    <3> QED BY <2>3, <3>1 DEF ClaimWins, ThreadStep
  <2>4. ASSUME NEW f \in Exec, Dispatch(f) PROVE ThreadStep(e)
    <3>1. \A g \in Exec \ {f} : task'[g] = task[g]
      BY <1>1, <2>4 DEF Dispatch
    <3> QED BY <2>4, <3>1, <1>2 DEF Dispatch, ThreadStep, InDispatch
  <2>5. CASE TerminateActive
    BY <2>5, <1>1 DEF TerminateActive, At, ThreadStep, InDispatch
  <2> QED BY <1>7, <2>1, <2>2, <2>3, <2>4, <2>5 DEF ClaimLoop
<1>8. ASSUME NEW f \in Exec, TaskThread(f) PROVE ThreadStep(e)
  <2>1. CASE LaunchCheck(f)
    BY <2>1, <1>5 DEF LaunchCheck, ThreadStep, InDispatch
  <2>2. CASE LaunchIgnored(f) \/ CloseWrite(f)
    BY <2>2, <1>4 DEF LaunchIgnored, CloseWrite, ThreadStep, InDispatch
  <2>3. CASE Launch(f)
    <3>1. e # f => proc'[e] = proc[e]
      BY <2>3, <1>1 DEF Launch
    <3>2. e = f => proc'[e] = "alive"
      BY <2>3, <1>1 DEF Launch
    <3>3. task'[e].stage = IF e = f THEN "monitor" ELSE task[e].stage
      BY <2>3, <1>5 DEF Launch
    <3>4. task[f].stage = "starting" /\ claim' = claim
      BY <2>3 DEF Launch
    <3> QED BY <2>3, <3>1, <3>2, <3>3, <3>4 DEF ThreadStep, InDispatch
  <2>4. CASE MonitorExit(f)
    BY <2>4, <1>6 DEF MonitorExit, Monitoring, ThreadStep, InDispatch
  <2>5. CASE TickStop(f) \/ TickTimeout(f) \/ ShutdownKill(f)
    BY <2>5, <1>1, <1>6
    DEF TickStop, TickTimeout, ShutdownKill, Monitoring, Kill, ThreadStep, InDispatch
  <2>6. CASE CloseRead(f)
    BY <2>6, <1>4, <1>5 DEF CloseRead, ThreadStep, InDispatch
  <2>7. CASE Cleanup(f)
    BY <2>7, <1>1, <1>2 DEF Cleanup, ThreadStep, InDispatch
  <2> QED BY <1>8, <2>1, <2>2, <2>3, <2>4, <2>5, <2>6, <2>7 DEF TaskThread
<1>9. CASE Environment
  <2>1. ASSUME NEW f \in Exec, ProcessExit(f) PROVE ThreadStep(e)
    BY <2>1, <1>1 DEF ProcessExit, ThreadStep, InDispatch
  <2>2. ASSUME NEW f \in Exec, TaskFault(f) PROVE ThreadStep(e)
    BY <2>2, <1>1 DEF TaskFault, Thread, ThreadStep, InDispatch
  <2>3. ASSUME NEW f \in Exec, HandlerFault(f) PROVE ThreadStep(e)
    BY <2>3, <1>4 DEF HandlerFault, ThreadStep, InDispatch
  <2>4. CASE LoopFault \/ RequestShutdown
    BY <2>4, <1>2 DEF LoopFault, RequestShutdown, ThreadStep, InDispatch
  <2>5. CASE WorkerCrash
    BY <2>5, <1>1, <1>2 DEF WorkerCrash, ThreadStep, InDispatch
  <2> QED BY <1>9, <2>1, <2>2, <2>3, <2>4, <2>5 DEF Environment
<1>10. CASE Restart
  BY <1>10, <1>2 DEF Restart, WorkerExit, ApiStart, BootWorker, ThreadStep, InDispatch
<1> QED BY <1>7, <1>8, <1>9, <1>10 DEF WorkerNext

(***************************************************************************)
(* The inductive invariant and what follows from it.                       *)
(***************************************************************************)

\* A successful claim makes the row RUNNING and owned and touches no other.
LEMMA ClaimWinsRow ==
  ASSUME TypeOK, NEW e \in Exec, ClaimWins(e)
  PROVE  /\ Status(e)' = "RUNNING" /\ Owned(e)' /\ row'[e].auto = row[e].auto
         /\ \A f \in Exec \ {e} : row'[f] = row[f]
<1>1. row \in [Exec -> Row] /\ boot # 0
  BY WorkerAssumption DEF TypeOK, StoreTypeOK, WorkerTypeOK
<1>2. row'[e] = [row[e] EXCEPT !.status = "RUNNING", !.owner = boot]
  BY <1>1 DEF ClaimWins
<1>3. row'[e].status = "RUNNING" /\ row'[e].owner = boot /\ row'[e].auto = row[e].auto
  BY <1>1, <1>2 DEF Row
<1>4. \A f \in Exec \ {e} : row'[f] = row[f]
  BY <1>1 DEF ClaimWins
<1> QED BY <1>1, <1>3, <1>4 DEF Status, Owned

\* No RowStep takes an execution back from over, or removes a row.
LEMMA RowStepKeeps ==
  ASSUME TypeOK, RowStep, NEW e \in Exec
  PROVE  /\ Status(e) \in QueueableSources => Status(e)' \in QueueableSources
         /\ Status(e) # "ABSENT" => Status(e)' # "ABSENT"
<1>1. QueueableSources \cap {"ABSENT", "PENDING", "RUNNING"} = {}
  BY DEF QueueableSources, TerminalStatuses, DeliveredStatuses
<1>2. Quiet(e) => /\ Status(e) \in QueueableSources => Status(e)' \in QueueableSources
                  /\ Status(e) # "ABSENT" => Status(e)' # "ABSENT"
  BY <1>1 DEF Quiet
<1>3. CASE \E f \in Exec : Inserted(f) /\ \A g \in Exec \ {f} : Still(g)
  BY <1>1, <1>2, <1>3 DEF Inserted, Still
<1>4. ASSUME NEW f \in Exec, ClaimWins(f)
      PROVE  /\ Status(e) \in QueueableSources => Status(e)' \in QueueableSources
             /\ Status(e) # "ABSENT" => Status(e)' # "ABSENT"
  <2>1. CASE e = f
    BY <1>1, <1>4, <2>1, ClaimWinsRow DEF ClaimWins
  <2>2. CASE e # f
    BY <1>4, <2>2, ClaimWinsRow DEF Status
  <2> QED BY <2>1, <2>2
<1> QED BY <1>2, <1>3, <1>4 DEF RowStep

\* The pending transactions stay what ClaimDiscipline says of them.
LEMMA TxnStep ==
  ASSUME TypeOK, ClaimDiscipline, RowStep, NEW t \in Sessions,
         \/ StoreNext
         \/ txn' = txn
         \/ txn' = [u \in Sessions |-> NoTxn]
  PROVE  /\ txn'[t].op = "close" =>
              /\ txn'[t].exec \in Exec /\ row'[txn'[t].exec].status # "ABSENT"
              /\ txn'[t].status \in TerminalStatuses
         /\ txn'[t].op = "requeue" =>
              txn'[t].exec \in Exec /\ row'[txn'[t].exec].status \in QueueableSources
<1> DEFINE G == /\ txn'[t].op = "close" =>
                     /\ txn'[t].exec \in Exec /\ row'[txn'[t].exec].status # "ABSENT"
                     /\ txn'[t].status \in TerminalStatuses
                /\ txn'[t].op = "requeue" =>
                     txn'[t].exec \in Exec /\ row'[txn'[t].exec].status \in QueueableSources
<1>1. txn \in [Sessions -> Txn]
  BY DEF TypeOK, StoreTypeOK
<1>2. NoTxn.op = "idle"
  BY DEF NoTxn, Work
<1>3. CASE txn'[t] = txn[t]
  <2>1. \A e \in Exec : (Status(e) \in QueueableSources => row'[e].status \in QueueableSources)
                        /\ (Status(e) # "ABSENT" => row'[e].status # "ABSENT")
    BY RowStepKeeps DEF Status
  <2> QED BY <1>3, <2>1 DEF ClaimDiscipline
<1>4. CASE txn'[t] = NoTxn
  BY <1>2, <1>4
<1>5. ASSUME NEW u \in Sessions, Request(u) PROVE G
  <2>1. CASE u # t
    <3>1. txn'[t] = txn[t]
      BY <1>1, <1>5, <2>1 DEF Request, ManualStart, ScheduledTask, Requeue, AutoRetry,
         PrepareRequeue, Stop, TelemetryEnd, ReapOrphanedTelemetry, Begin
    <3> QED BY <1>3, <3>1
  <2>2. CASE u = t
    <3>1. ASSUME NEW a \in Automation, Begin(t, InsertOf(a)) PROVE G
      BY <1>1, <3>1 DEF Begin, InsertOf, Work
    <3>2. ASSUME NEW e \in Exec, NEW s \in TerminalStatuses, Active(e), Begin(t, CloseOf(e, s))
          PROVE  G
      <4>1. Status(e) # "ABSENT"
        BY <3>2 DEF Active, ActiveStatuses
      <4> QED BY <1>1, <3>2, <4>1 DEF Begin, CloseOf, Work, Status
    <3>3. ASSUME NEW e \in Exec, NEW p, PrepareRequeue(t, e, p) PROVE G
      BY <1>1, <3>3 DEF PrepareRequeue, Begin, Work, Status
    <3>4. EndStatuses \subseteq TerminalStatuses /\ {"TERMINATED", "ERROR"} \subseteq TerminalStatuses
      BY RequestAssumption DEF TerminalStatuses
    <3>5. ASSUME NEW a \in Automation, ManualStart(t, a) \/ ScheduledTask(t, a) PROVE G
      BY <3>1, <3>5 DEF ManualStart, ScheduledTask
    <3>6. ASSUME NEW e \in Exec, Requeue(t, e) \/ AutoRetry(t, e) PROVE G
      BY <3>3, <3>6 DEF Requeue, AutoRetry
    <3>7. ASSUME NEW e \in Exec, Stop(t, e) \/ TelemetryEnd(t, e) PROVE G
      BY <3>2, <3>4, <3>7 DEF Stop, TelemetryEnd
    <3>8. ASSUME NEW e \in Exec, ReapOrphanedTelemetry(t, e) PROVE G
      BY <3>2, <3>4, <3>8 DEF ReapOrphanedTelemetry, Active, ActiveStatuses
    <3> QED BY <1>5, <2>2, <3>5, <3>6, <3>7, <3>8 DEF Request
  <2> QED BY <2>1, <2>2
<1>6. ASSUME NEW u \in Sessions, Commit(u) \/ Rollback(u) PROVE G
  <2>1. txn'[t] \in {txn[t], NoTxn}
    BY <1>1, <1>6 DEF Commit, Rollback
  <2> QED BY <1>3, <1>4, <2>1
<1>7. ASSUME NEW a \in TelemetryAutos, TelemetryStart(a) PROVE G
  BY <1>3, <1>7 DEF TelemetryStart
<1> QED BY <1>3, <1>4, <1>5, <1>6, <1>7 DEF StoreNext

\* Ownership, threads and processes stay tied to the row as ClaimDiscipline
\* says.
LEMMA ExecStep ==
  ASSUME TypeOK, ClaimDiscipline, RowStep, NEW e \in Exec, ThreadStep(e)
  PROVE  /\ Owned(e) => Owned(e)'
         /\ Status(e)' \in {"ABSENT", "PENDING"} => ~Owned(e)'
         /\ ~Owned(e)' => task'[e].stage = "none" /\ proc'[e] = "none" /\ ~InDispatch(e)'
         /\ task'[e].stage \in {"submitted", "starting"} => proc'[e] = "none"
         /\ InDispatch(e)' => task'[e].stage = "none" /\ proc'[e] = "none"
<1>1. /\ Status(e) \in {"ABSENT", "PENDING"} => ~Owned(e)
      /\ ~Owned(e) => task[e].stage = "none" /\ proc[e] = "none" /\ ~InDispatch(e)
      /\ task[e].stage \in {"submitted", "starting"} => proc[e] = "none"
      /\ InDispatch(e) => task[e].stage = "none" /\ proc[e] = "none"
  BY DEF ClaimDiscipline
<1>2. QueueableSources \cap {"ABSENT", "PENDING"} = {}
  BY DEF QueueableSources, TerminalStatuses, DeliveredStatuses
<1>3. /\ Owned(e) => Owned(e)'
      /\ Status(e)' \in {"ABSENT", "PENDING"} => ~Owned(e)'
  <2>1. CASE Quiet(e)
    BY <1>1, <1>2, <2>1 DEF Quiet
  <2>2. CASE Inserted(e)
    BY <1>1, <2>2 DEF Inserted
  <2>3. ASSUME NEW f \in Exec, ClaimWins(f)
        PROVE  /\ Owned(e) => Owned(e)'
               /\ Status(e)' \in {"ABSENT", "PENDING"} => ~Owned(e)'
    <3>1. CASE e = f
      BY <2>3, <3>1, ClaimWinsRow
    <3>2. CASE e # f
      BY <1>1, <2>3, <3>2, ClaimWinsRow DEF Owned, Status
    <3> QED BY <3>1, <3>2
  <2> QED BY <2>1, <2>2, <2>3 DEF RowStep, Still
<1>4. Launch(e) => task[e].stage = "starting" /\ ~(task'[e].stage \in {"submitted", "starting"})
  BY DEF Launch, SetStage, TypeOK, WorkerTypeOK, Task
<1>5. ClaimWins(e) => Status(e) = "PENDING" /\ Owned(e)' /\ task' = task /\ proc' = proc
  BY ClaimWinsRow DEF ClaimWins
<1>6. ~Owned(e)' => task'[e].stage = "none" /\ proc'[e] = "none" /\ ~InDispatch(e)'
  BY <1>1, <1>3, <1>4, <1>5 DEF ThreadStep
<1>7. task'[e].stage \in {"submitted", "starting"} => proc'[e] = "none"
  BY <1>1, <1>4 DEF ThreadStep
<1>8. InDispatch(e)' => task'[e].stage = "none" /\ proc'[e] = "none"
  BY <1>1, <1>4, <1>5 DEF ThreadStep
<1> QED BY <1>3, <1>6, <1>7, <1>8

\* What the theorems use of a step of the orchestrator.
LEMMA AnyStep ==
  ASSUME TypeOK, ClaimDiscipline, Next
  PROVE  /\ RowStep
         /\ \A e \in Exec : ThreadStep(e)
         /\ \/ StoreNext
            \/ txn' = txn
            \/ txn' = [u \in Sessions |-> NoTxn]
<1>1. CASE StoreNext /\ UNCHANGED workerVars
  BY <1>1, StoreRowStep DEF workerVars, ThreadStep, InDispatch
<1>2. CASE WorkerNext
  <2>1. txn' = txn \/ txn' = [u \in Sessions |-> NoTxn]
    BY <1>2 DEF WorkerNext, ClaimLoop, ClaimScan, ClaimPick, ClaimSkip, ClaimExpire,
       ClaimWins, ClaimLost, ClaimConflict, Dispatch, TerminateActive, TaskThread,
       LaunchCheck, LaunchIgnored, Launch, MonitorExit, TickStop, TickTimeout,
       ShutdownKill, CloseRead, CloseWrite, Cleanup, Environment,
       ProcessExit, TaskFault, HandlerFault, LoopFault, RequestShutdown,
       WorkerCrash, Restart, WorkerExit, ApiStart, BootWorker
  <2> QED BY <1>2, <2>1, WorkerRowStep, WorkerThreadStep
<1> QED BY <1>1, <1>2 DEF Next

LEMMA DisciplineStep ==
  ASSUME TypeOK, ClaimDiscipline, [Next]_vars
  PROVE  ClaimDiscipline'
<1>1. CASE Next
  <2>1. /\ RowStep
        /\ \A e \in Exec : ThreadStep(e)
        /\ \/ StoreNext
           \/ txn' = txn
           \/ txn' = [u \in Sessions |-> NoTxn]
    BY <1>1, AnyStep
  <2>2. \A e \in Exec :
          /\ Status(e)' \in {"ABSENT", "PENDING"} => ~Owned(e)'
          /\ ~Owned(e)' => task'[e].stage = "none" /\ proc'[e] = "none" /\ ~InDispatch(e)'
          /\ task'[e].stage \in {"submitted", "starting"} => proc'[e] = "none"
          /\ InDispatch(e)' => task'[e].stage = "none" /\ proc'[e] = "none"
    BY <2>1, ExecStep
  <2>3. \A t \in Sessions :
          /\ txn'[t].op = "close" =>
               /\ txn'[t].exec \in Exec /\ row'[txn'[t].exec].status # "ABSENT"
               /\ txn'[t].status \in TerminalStatuses
          /\ txn'[t].op = "requeue" =>
               txn'[t].exec \in Exec /\ row'[txn'[t].exec].status \in QueueableSources
    BY <2>1, TxnStep
  <2> QED BY <2>2, <2>3 DEF ClaimDiscipline, Status
<1>2. CASE UNCHANGED vars
  BY <1>2 DEF vars, ClaimDiscipline, Status, Owned, InDispatch
<1> QED BY <1>1, <1>2

\* ClaimDiscipline is an invariant: the worker acts on a row only after it
\* claimed it, and a commit of the API still concerns the row it validated.
THEOREM Discipline == Spec => []ClaimDiscipline
<1>1. Init => ClaimDiscipline
  BY DEF Init, StoreInit, WorkerInit, ClaimDiscipline, Status, Owned, InDispatch,
         NoRow, NewRow, NoTask, Thread, NoTxn, Work, Idle, At
<1>2. TypeOK /\ ClaimDiscipline /\ [Next]_vars => ClaimDiscipline'
  BY DisciplineStep
<1> QED BY <1>1, <1>2, TypeCorrect, PTL DEF Spec

\* The index's promise survives every producer: no two executions of one
\* automation are RUNNING together.
THEOREM OneRunning == Spec => []OneRunningPerAutomation
<1>1. Init => OneRunningPerAutomation
  BY DEF Init, StoreInit, OneRunningPerAutomation, Status, NoRow, NewRow
<1>2. TypeOK /\ ClaimDiscipline /\ OneRunningPerAutomation /\ [Next]_vars
        => OneRunningPerAutomation'
  <2> SUFFICES ASSUME TypeOK, ClaimDiscipline, OneRunningPerAutomation, [Next]_vars,
                      NEW e \in Exec, NEW f \in Exec,
                      Status(e)' = "RUNNING", Status(f)' = "RUNNING",
                      row'[e].auto = row'[f].auto
               PROVE  e = f
    BY DEF OneRunningPerAutomation
  <2>1. "RUNNING" \notin QueueableSources
    BY DEF QueueableSources, TerminalStatuses, DeliveredStatuses
  <2>2. \A g \in Exec : Quiet(g) /\ Status(g)' = "RUNNING"
                          => Status(g) = "RUNNING" /\ row'[g].auto = row[g].auto
    BY <2>1 DEF Quiet
  <2>3. \A g \in Exec : Still(g) => Quiet(g)
    BY DEF Still
  <2>4. CASE \A g \in Exec : Quiet(g)
    BY <2>2, <2>4 DEF OneRunningPerAutomation
  <2>5. ASSUME NEW h \in Exec, Inserted(h), \A g \in Exec \ {h} : Still(g)
        PROVE  e = f
    <3>1. Status(h)' = "RUNNING" => MayRun(row'[h].auto)
      BY <2>5 DEF Inserted
    <3> QED BY <2>2, <2>3, <2>5, <3>1 DEF MayRun, OneRunningPerAutomation
  <2>6. ASSUME NEW h \in Exec, ClaimWins(h) PROVE e = f
    <3>1. \A g \in Exec \ {h} : row'[g] = row[g]
      BY <2>6, ClaimWinsRow
    <3>2. row'[h].auto = row[h].auto /\ MayRun(row[h].auto)
      BY <2>6, ClaimWinsRow DEF ClaimWins
    <3> QED BY <3>1, <3>2 DEF MayRun, Status, OneRunningPerAutomation
  <2>7. CASE Next
    BY <2>4, <2>5, <2>6, <2>7, AnyStep DEF RowStep
  <2>8. CASE UNCHANGED vars
    BY <2>8 DEF vars, OneRunningPerAutomation, Status
  <2> QED BY <2>7, <2>8
<1> QED BY <1>1, <1>2, TypeCorrect, Discipline, PTL DEF Spec

\* An execution that ended never becomes active again, for any number of
\* sessions, workers and restarts.
THEOREM EndedStaysEnded == Spec => OverIsOver
<1>1. TypeOK /\ ClaimDiscipline /\ [Next]_vars
        => [\A e \in Exec : Status(e) \in QueueableSources => ~Active(e)']_vars
  <2>1. QueueableSources \cap ActiveStatuses = {}
    BY DEF QueueableSources, TerminalStatuses, DeliveredStatuses, ActiveStatuses
  <2> QED BY <2>1, AnyStep, RowStepKeeps DEF Active, Status
<1> QED BY <1>1, TypeCorrect, Discipline, PTL DEF Spec, OverIsOver

\* No process is started for an execution that already had one.
THEOREM StartedOnce == Spec => LaunchedOnce
<1>1. TypeOK /\ ClaimDiscipline /\ [Next]_vars
        => [\A e \in Exec : proc'[e] = "alive" /\ proc[e] # "alive" => proc[e] = "none"]_vars
  BY AnyStep DEF ThreadStep, Launch, ClaimDiscipline
<1> QED BY <1>1, TypeCorrect, Discipline, PTL DEF Spec, LaunchedOnce

(***************************************************************************)
(* The refinement: every step of the orchestrator is a step of             *)
(* ExecutionLifecycle or leaves its variables alone.                       *)
(***************************************************************************)

LEMMA QuietPhase ==
  ASSUME TypeOK, NEW e \in Exec, Quiet(e)
  PROVE  \/ phaseOf(e)' = phaseOf(e)
         \/ phaseOf(e) \in {"waiting", "running", "external"} /\ phaseOf(e)' = "over"
<1>1. QueueableSources \cap {"ABSENT", "PENDING", "RUNNING"} = {}
  BY DEF QueueableSources, TerminalStatuses, DeliveredStatuses
<1>2. Status(e)' = Status(e) => phaseOf(e)' = phaseOf(e)
  BY DEF Quiet, phaseOf
<1>3. Status(e)' \in QueueableSources => phaseOf(e)' = "over"
  BY <1>1 DEF phaseOf
<1>4. Status(e) # "ABSENT" => phaseOf(e) \in {"waiting", "running", "external", "over"}
  BY DEF phaseOf
<1> QED BY <1>2, <1>3, <1>4 DEF Quiet

LEMMA StillPhase ==
  ASSUME TypeOK, NEW e \in Exec, Still(e)
  PROVE  phaseOf(e)' = phaseOf(e)
<1>1. QueueableSources \cap {"ABSENT", "PENDING", "RUNNING"} = {}
  BY DEF QueueableSources, TerminalStatuses, DeliveredStatuses
<1>2. Status(e) \in QueueableSources => phaseOf(e) = "over"
  BY <1>1 DEF phaseOf
<1>3. Status(e)' = Status(e) => phaseOf(e)' = phaseOf(e)
  BY DEF Still, Quiet, phaseOf
<1> QED BY <1>2, <1>3, QuietPhase DEF Still

\* A step that neither launches, inserts nor claims ends some executions, or
\* none.
LEMMA QuietRefines ==
  ASSUME TypeOK, \A e \in Exec : Quiet(e) /\ ThreadStep(e) /\ ~Launch(e)
  PROVE  Lifecycle!Next
<1> DEFINE S == {e \in Exec : phaseOf(e)' # phaseOf(e)}
<1>1. \A e \in S : phaseOf(e) \in {"waiting", "running", "external"} /\ phaseOf(e)' = "over"
  BY QuietPhase
<1>2. [e \in Exec |-> phaseOf(e)]'
        = [e \in Exec |-> IF e \in S THEN "over" ELSE [f \in Exec |-> phaseOf(f)][e]]
  BY <1>1
<1>3. {e \in Exec : Owned(e)}' = {e \in Exec : Owned(e)}
  BY DEF Quiet
<1>4. {e \in Exec : proc[e] # "none"}' = {e \in Exec : proc[e] # "none"}
  BY DEF ThreadStep
<1>5. Lifecycle!Finish(S)
  BY <1>1, <1>2, <1>3, <1>4 DEF Lifecycle!Finish
<1> QED BY <1>5 DEF Lifecycle!Next

LEMMA LaunchRefines ==
  ASSUME TypeOK, ClaimDiscipline, NEW e \in Exec, Launch(e)
  PROVE  Lifecycle!Next
<1>1. Owned(e) /\ proc[e] = "none"
  BY DEF ClaimDiscipline, Launch
<1>2. row' = row
  BY DEF Launch
<1>3. proc'[e] = "alive" /\ \A f \in Exec \ {e} : proc'[f] = proc[f]
  BY DEF Launch, TypeOK, WorkerTypeOK
<1>4. {f \in Exec : proc[f] # "none"}' = {f \in Exec : proc[f] # "none"} \cup {e}
  BY <1>3
<1>5. [f \in Exec |-> phaseOf(f)]' = [f \in Exec |-> phaseOf(f)]
      /\ {f \in Exec : Owned(f)}' = {f \in Exec : Owned(f)}
  BY <1>2 DEF phaseOf, Status, Owned
<1>6. Lifecycle!Launch(e)
  BY <1>1, <1>4, <1>5 DEF Lifecycle!Launch
<1> QED BY <1>6 DEF Lifecycle!Next

LEMMA InsertRefines ==
  ASSUME TypeOK, ClaimDiscipline, NEW e \in Exec, Inserted(e), \A f \in Exec \ {e} : Still(f),
         \A f \in Exec : ThreadStep(f) /\ ~Launch(f)
  PROVE  Lifecycle!Next
<1>1. phaseOf(e) = "absent" /\ phaseOf(e)' \in {"waiting", "external"}
  BY DEF Inserted, phaseOf
<1>2. \A f \in Exec \ {e} : phaseOf(f)' = phaseOf(f)
  BY StillPhase
<1>3. {f \in Exec : Owned(f)}' = {f \in Exec : Owned(f)}
  BY DEF Inserted, Still, Quiet, ClaimDiscipline
<1>4. {f \in Exec : proc[f] # "none"}' = {f \in Exec : proc[f] # "none"}
  BY DEF ThreadStep
<1>5. [f \in Exec |-> phaseOf(f)]'
        = [[f \in Exec |-> phaseOf(f)] EXCEPT ![e] = phaseOf(e)']
  BY <1>2
<1>6. Lifecycle!Enqueue(e) \/ Lifecycle!Register(e)
  BY <1>1, <1>3, <1>4, <1>5 DEF Lifecycle!Enqueue, Lifecycle!Register
<1> QED BY <1>6 DEF Lifecycle!Next

LEMMA ClaimRefines ==
  ASSUME TypeOK, ClaimDiscipline, NEW e \in Exec, ClaimWins(e)
  PROVE  Lifecycle!Next
<1>1. Status(e) = "PENDING" /\ ~Owned(e)
  BY DEF ClaimWins, ClaimDiscipline
<1>2. Status(e)' = "RUNNING" /\ Owned(e)' /\ \A f \in Exec \ {e} : row'[f] = row[f]
  BY ClaimWinsRow
<1>3. phaseOf(e) = "waiting" /\ phaseOf(e)' = "running"
  BY <1>1, <1>2 DEF phaseOf
<1>4. \A f \in Exec \ {e} : phaseOf(f)' = phaseOf(f)
  BY <1>2 DEF phaseOf, Status, Owned
<1>5. {f \in Exec : Owned(f)}' = {f \in Exec : Owned(f)} \cup {e}
  BY <1>2 DEF Owned
<1>6. [f \in Exec |-> phaseOf(f)]' = [[f \in Exec |-> phaseOf(f)] EXCEPT ![e] = "running"]
  BY <1>3, <1>4
<1>7. {f \in Exec : proc[f] # "none"}' = {f \in Exec : proc[f] # "none"}
  BY DEF ClaimWins
<1>8. Lifecycle!Claim(e)
  BY <1>1, <1>3, <1>5, <1>6, <1>7 DEF Lifecycle!Claim
<1> QED BY <1>8 DEF Lifecycle!Next

\* The orchestrator implements ExecutionLifecycle.
THEOREM Implements == Spec => LifecycleSpec
<1>1. Init => Lifecycle!Init
  BY DEF Init, StoreInit, WorkerInit, Lifecycle!Init, phaseOf, Status, Owned, NoRow, NewRow
<1>2. TypeOK /\ ClaimDiscipline /\ [Next]_vars => [Lifecycle!Next]_Lifecycle!vars
  <2> SUFFICES ASSUME TypeOK, ClaimDiscipline, [Next]_vars
               PROVE  [Lifecycle!Next]_Lifecycle!vars
    OBVIOUS
  <2>1. CASE UNCHANGED vars
    BY <2>1 DEF vars, Lifecycle!vars, phaseOf, Status, Owned
  <2>2. CASE Next
    <3>1. RowStep /\ \A e \in Exec : ThreadStep(e)
      BY <2>2, AnyStep
    <3>2. CASE \E e \in Exec : Launch(e)
      BY <3>2, LaunchRefines
    <3>3. CASE \E e \in Exec : ClaimWins(e)
      BY <3>3, ClaimRefines
    <3>4. CASE \A e \in Exec : ~Launch(e) /\ ~ClaimWins(e)
      BY <3>1, <3>4, QuietRefines, InsertRefines DEF RowStep
    <3> QED BY <3>2, <3>3, <3>4
  <2> QED BY <2>1, <2>2
<1> QED BY <1>1, <1>2, TypeCorrect, Discipline, PTL DEF Spec, LifecycleSpec, Lifecycle!Spec
-----------------------------------------------------------------------------
(***************************************************************************)
(* A worker that is down has no threads.                                   *)
(***************************************************************************)

Alone == wk = "down" => claim.pc = "idle" /\ \A e \in Exec : task[e].stage = "none"

\* A step of the thread of e: what it may do to the task and to the process.
LEMMA ThreadSupervised ==
  ASSUME TypeOK, ClaimDiscipline, Alone, Supervised, NEW e \in Exec,
         TaskThread(e) \/ TaskFault(e) \/ HandlerFault(e)
  PROVE  Alone' /\ Supervised'
<1> USE DEF TypeOK, WorkerTypeOK
<1>1. wk' = wk /\ task[e].stage # "none"
  BY DEF TaskThread, LaunchCheck, LaunchIgnored, Launch, MonitorExit, TickStop, TickTimeout,
         ShutdownKill, CloseRead, CloseWrite, Cleanup, TaskFault, HandlerFault, Monitoring
<1>2. wk # "down"
  BY <1>1 DEF Alone
<1>3. \A f \in Exec \ {e} : task'[f] = task[f] /\ proc'[f] = proc[f]
  BY DEF TaskThread, LaunchCheck, LaunchIgnored, Launch, MonitorExit, TickStop, TickTimeout,
         ShutdownKill, CloseRead, CloseWrite, Cleanup, TaskFault, HandlerFault,
         SetStage, Leave, Close, Kill
<1>4. proc'[e] = "alive" => task'[e].stage \in {"monitor", "close", "commit", "cleanup"}
  <2>1. SetStage(e, "commit") => task'[e].stage = "commit"
    BY DEF SetStage, Task
  <2>2. Leave(e) /\ proc[e] = "alive" => task'[e].stage = "cleanup"
    BY DEF Leave, Task
  <2>3. \A s : Close(e, s) => task'[e].stage = "close"
    BY DEF Close, Task
  <2>4. task[e].stage \in {"submitted", "starting"} => proc[e] = "none"
    BY DEF ClaimDiscipline
  <2>5. CASE LaunchCheck(e) \/ LaunchIgnored(e)
    BY <2>4, <2>5 DEF LaunchCheck, LaunchIgnored
  <2>6. CASE Launch(e)
    BY <2>6 DEF Launch, SetStage, Task
  <2>7. CASE MonitorExit(e) \/ TickStop(e) \/ TickTimeout(e) \/ ShutdownKill(e)
    BY <2>3, <2>7 DEF MonitorExit, TickStop, TickTimeout, ShutdownKill
  <2>8. CASE CloseRead(e) \/ CloseWrite(e)
    BY <2>1, <2>2, <2>8 DEF CloseRead, CloseWrite
  <2>9. CASE Cleanup(e)
    BY <2>9 DEF Cleanup
  <2>10. CASE TaskFault(e)
    BY <2>10 DEF TaskFault, Thread
  <2>11. CASE HandlerFault(e)
    BY <2>2, <2>11 DEF HandlerFault
  <2> QED BY <2>5, <2>6, <2>7, <2>8, <2>9, <2>10, <2>11 DEF TaskThread
<1> QED BY <1>1, <1>2, <1>3, <1>4 DEF Alone, Supervised

LEMMA SupervisedStep ==
  ASSUME TypeOK, ClaimDiscipline, Alone, Supervised, [Next]_vars
  PROVE  Alone' /\ Supervised'
<1> USE DEF TypeOK, WorkerTypeOK
<1>1. CASE UNCHANGED workerVars
  BY <1>1 DEF workerVars, Alone, Supervised
<1>2. CASE ClaimLoop \/ LoopFault
  <2>1. wk # "down" /\ wk' = wk
    BY <1>2 DEF ClaimLoop, ClaimScan, ClaimPick, ClaimSkip, ClaimExpire, ClaimWins, ClaimLost,
       ClaimConflict, Dispatch, TerminateActive, LoopFault, Considering, Alone
  <2>2. ASSUME NEW e \in Exec, Dispatch(e) PROVE Alone' /\ Supervised'
    <3>1. proc[e] = "none" /\ proc' = proc /\ \A f \in Exec \ {e} : task'[f] = task[f]
      BY <2>2 DEF Dispatch, InDispatch, ClaimDiscipline
    <3> QED BY <2>1, <3>1 DEF Supervised, Alone
  <2>3. CASE TerminateActive
    BY <2>1, <2>3 DEF TerminateActive, Supervised, Alone
  <2>4. CASE task' = task /\ proc' = proc
    BY <2>1, <2>4 DEF Supervised, Alone
  <2> QED
    BY <1>2, <2>2, <2>3, <2>4 DEF ClaimLoop, ClaimScan, ClaimPick, ClaimSkip, ClaimExpire,
       ClaimWins, ClaimLost, ClaimConflict, LoopFault
<1>3. ASSUME NEW e \in Exec, TaskThread(e) \/ TaskFault(e) \/ HandlerFault(e)
      PROVE  Alone' /\ Supervised'
  BY <1>3, ThreadSupervised
<1>4. ASSUME NEW e \in Exec, ProcessExit(e) PROVE Alone' /\ Supervised'
  BY <1>4 DEF ProcessExit, Alone, Supervised
<1>5. CASE RequestShutdown
  BY <1>5 DEF RequestShutdown, Alone, Supervised
<1>6. CASE WorkerCrash
  BY <1>6 DEF WorkerCrash, Alone, Supervised, Idle, At, NoTask, Thread
<1>7. CASE WorkerExit
  <2>1. \A e \in Exec : task[e].stage = "none" /\ proc[e] # "alive"
    BY <1>7 DEF WorkerExit, Busy, Supervised
  <2> QED BY <1>7, <2>1 DEF WorkerExit, Alone, Supervised, Idle, At
<1>8. CASE ApiStart
  BY <1>8 DEF ApiStart, Alone, Supervised
<1>9. CASE BootWorker
  BY <1>9 DEF BootWorker, Alone, Supervised
<1> QED
  BY <1>1, <1>2, <1>3, <1>4, <1>5, <1>6, <1>7, <1>8, <1>9
  DEF Next, WorkerNext, Environment, Restart, vars, workerVars

\* A live process has a supervisor, whatever exception, shutdown or crash ends
\* its thread.
THEOREM AlwaysSupervised == Spec => [](Alone /\ Supervised)
<1>1. Init => Alone /\ Supervised
  BY DEF Init, WorkerInit, Alone, Supervised
<1>2. TypeOK /\ ClaimDiscipline /\ Alone /\ Supervised /\ [Next]_vars
        => (Alone /\ Supervised)'
  BY SupervisedStep
<1> QED BY <1>1, <1>2, TypeCorrect, Discipline, PTL DEF Spec

(***************************************************************************)
(* What a step may do to a row, beyond RowStep: whose it is, of which      *)
(* automation, and where a RUNNING row comes from.                         *)
(***************************************************************************)

\* The row keeps its owner, is inserted without one, or takes this worker's.
OwnerStep(e) == row'[e].owner \in {row[e].owner, 0, boot}

\* The row keeps its automation, or is inserted with one somebody validated.
AutoStep(e) ==
  \/ row'[e].auto = row[e].auto /\ (Status(e)' # "ABSENT" => Status(e) # "ABSENT")
  \/ row'[e].auto \in TelemetryAutos
  \/ \E t \in Sessions :
       txn[t].op \in {"insert", "requeue"} /\ row'[e].auto = txn[t].auto

\* A row becomes RUNNING by a claim or by telemetry.
RunStep(e) ==
  Status(e)' = "RUNNING" =>
    \/ Status(e) = "RUNNING"
    \/ ClaimWins(e)
    \/ ~Owned(e)' /\ row'[e].auto \in TelemetryAutos

RowOrigin(e) == OwnerStep(e) /\ AutoStep(e) /\ RunStep(e)

LEMMA SameOrigin ==
  ASSUME NEW e \in Exec, row'[e] = row[e]
  PROVE  RowOrigin(e)
  BY DEF RowOrigin, OwnerStep, AutoStep, RunStep, Status

LEMMA StatusOrigin ==
  ASSUME row \in [Exec -> Row], NEW x \in Exec, Status(x) # "ABSENT",
         NEW s, s # "RUNNING", row' = [row EXCEPT ![x].status = s]
  PROVE  \A e \in Exec : RowOrigin(e)
<1> TAKE e \in Exec
<1>1. CASE e # x
  BY <1>1, SameOrigin
<1>2. CASE e = x
  <2>1. row'[e].status = s /\ row'[e].owner = row[e].owner /\ row'[e].auto = row[e].auto
    BY <1>2 DEF Row
  <2> QED BY <1>2, <2>1 DEF RowOrigin, OwnerStep, AutoStep, RunStep, Status
<1> QED BY <1>1, <1>2

\* Every step keeps to RowOrigin, the API's and the scheduler's ...
LEMMA StoreOrigin ==
  ASSUME TypeOK, ClaimDiscipline, StoreNext
  PROVE  \A e \in Exec : RowOrigin(e)
<1>1. row \in [Exec -> Row]
  BY DEF TypeOK, StoreTypeOK
<1>2. CASE row' = row
  BY <1>2, SameOrigin
<1>3. ASSUME NEW t \in Sessions, CommitInsert(t) PROVE \A e \in Exec : RowOrigin(e)
  <2>1. PICK x \in Exec : row' = [row EXCEPT ![x] = NewPending(txn[t])]
    BY <1>3 DEF CommitInsert
  <2>2. row'[x] = NewPending(txn[t]) /\ \A e \in Exec \ {x} : row'[e] = row[e]
    BY <1>1, <2>1
  <2>3. RowOrigin(x)
    BY <1>3, <2>2
    DEF CommitInsert, NewPending, NewRow, RowOrigin, OwnerStep, AutoStep, RunStep, Status
  <2> QED BY <2>2, <2>3, SameOrigin
<1>4. ASSUME NEW t \in Sessions, CommitRequeue(t) PROVE \A e \in Exec : RowOrigin(e)
  <2>0. PICK x \in Exec : x = txn[t].exec /\ Status(x) \in QueueableSources
    BY <1>4 DEF CommitRequeue, ClaimDiscipline
  <2>1. PICK y \in Exec :
          /\ IsNextId(y)
          /\ row' = [row EXCEPT ![y] = NewPending(txn[t]), ![x] = Superseded(txn[t], row[x])]
    BY <1>4, <2>0 DEF CommitRequeue
  <2>2. "ABSENT" \notin QueueableSources /\ "RUNNING" \notin QueueableSources
    BY DEF QueueableSources, TerminalStatuses, DeliveredStatuses
  <2>3. x # y
    BY <2>0, <2>1, <2>2 DEF IsNextId
  <2>4. /\ row'[y] = NewPending(txn[t]) /\ row'[x] = Superseded(txn[t], row[x])
        /\ \A e \in Exec \ {x, y} : row'[e] = row[e]
    BY <1>1, <2>1, <2>3
  <2>5. RowOrigin(y)
    <3>1. txn[t].op = "requeue"
      BY <1>4 DEF CommitRequeue
    <3>2. row'[y].status = "PENDING" /\ row'[y].owner = 0 /\ row'[y].auto = txn[t].auto
      BY <2>4 DEF NewPending, NewRow
    <3> QED BY <3>1, <3>2 DEF RowOrigin, OwnerStep, AutoStep, RunStep, Status
  <2>6. RowOrigin(x)
    <3>1. /\ row'[x].auto = row[x].auto /\ row'[x].owner = row[x].owner
          /\ row'[x].status \in {row[x].status, "REQUEUED"}
      BY <1>1, <2>4 DEF Superseded, Row
    <3> QED BY <2>0, <2>2, <3>1 DEF RowOrigin, OwnerStep, AutoStep, RunStep, Status
  <2> QED BY <2>4, <2>5, <2>6, SameOrigin
<1>5. ASSUME NEW t \in Sessions, CommitClose(t) PROVE \A e \in Exec : RowOrigin(e)
  <2>1. /\ txn[t].exec \in Exec /\ Status(txn[t].exec) # "ABSENT"
        /\ txn[t].status # "RUNNING"
    BY <1>5 DEF CommitClose, ClaimDiscipline, TerminalStatuses, DeliveredStatuses
  <2> QED BY <1>1, <1>5, <2>1, StatusOrigin DEF CommitClose
<1>6. ASSUME NEW a \in TelemetryAutos, TelemetryStart(a) PROVE \A e \in Exec : RowOrigin(e)
  <2>1. PICK x \in Exec : row' = [row EXCEPT ![x] = NewRow("RUNNING", a, 0, Normal)]
    BY <1>6 DEF TelemetryStart
  <2>2. row'[x] = NewRow("RUNNING", a, 0, Normal) /\ \A e \in Exec \ {x} : row'[e] = row[e]
    BY <1>1, <2>1
  <2>3. RowOrigin(x)
    BY <2>2 DEF NewRow, RowOrigin, OwnerStep, AutoStep, RunStep, Owned
  <2> QED BY <2>2, <2>3, SameOrigin
<1>7. ASSUME NEW t \in Sessions, Commit(t) PROVE \A e \in Exec : RowOrigin(e)
  BY <1>3, <1>4, <1>5, <1>7 DEF Commit
<1>8. ASSUME NEW t \in Sessions, Request(t) \/ Rollback(t) PROVE \A e \in Exec : RowOrigin(e)
  <2>1. row' = row
    BY <1>8 DEF Request, ManualStart, ScheduledTask, Requeue, AutoRetry, PrepareRequeue,
                Stop, TelemetryEnd, ReapOrphanedTelemetry, Begin, Rollback
  <2> QED BY <1>2, <2>1
<1> QED BY <1>6, <1>7, <1>8 DEF StoreNext

\* ... and the worker's.
LEMMA WorkerOrigin ==
  ASSUME TypeOK, ClaimDiscipline, WorkerNext
  PROVE  \A e \in Exec : RowOrigin(e)
<1>1. row \in [Exec -> Row]
  BY DEF TypeOK, StoreTypeOK
<1>2. CASE row' = row
  BY <1>2, SameOrigin
<1>3. ASSUME NEW x \in Exec, ClaimExpire(x) PROVE \A e \in Exec : RowOrigin(e)
  BY <1>1, <1>3, StatusOrigin DEF ClaimExpire
<1>4. ASSUME NEW x \in Exec, ClaimWins(x) \/ LaunchCheck(x)
      PROVE  \A e \in Exec : RowOrigin(e)
  <2>1. row' = [row EXCEPT ![x].status = "RUNNING", ![x].owner = boot]
    BY <1>4 DEF ClaimWins, LaunchCheck
  <2>2. /\ row'[x] = [row[x] EXCEPT !.status = "RUNNING", !.owner = boot]
        /\ \A e \in Exec \ {x} : row'[e] = row[e]
    BY <1>1, <2>1
  <2>3. row'[x].owner = boot /\ row'[x].auto = row[x].auto
    BY <1>1, <2>2 DEF Row
  <2>4. Status(x) # "ABSENT"
    BY <1>4 DEF ClaimWins, LaunchCheck, Active, ActiveStatuses
  <2>5. LaunchCheck(x) => Status(x) = "RUNNING"
    BY DEF LaunchCheck, ClaimDiscipline, Active, ActiveStatuses
  <2>6. RowOrigin(x)
    BY <1>4, <2>3, <2>4, <2>5 DEF RowOrigin, OwnerStep, AutoStep, RunStep, Status
  <2> QED BY <2>2, <2>6, SameOrigin
<1>5. ASSUME NEW x \in Exec, CloseWrite(x) PROVE \A e \in Exec : RowOrigin(e)
  <2>1. Status(x) # "ABSENT"
    BY <1>5 DEF ClaimDiscipline, CloseWrite
  <2>2. task[x].out # "RUNNING"
    BY WorkerAssumption DEF TypeOK, WorkerTypeOK, Task
  <2> QED BY <1>1, <1>5, <2>1, <2>2, StatusOrigin DEF CloseWrite
<1>6. CASE ApiStart
  <2> TAKE e \in Exec
  <2>1. CASE Zombie(e)
    <3>1. row'[e] = [row[e] EXCEPT !.status = "FAILED_BY_REBOOT"]
      BY <1>6, <2>1 DEF ApiStart
    <3>2. row'[e].owner = row[e].owner /\ row'[e].auto = row[e].auto
          /\ row'[e].status = "FAILED_BY_REBOOT"
      BY <1>1, <3>1 DEF Row
    <3> QED BY <2>1, <3>2 DEF Zombie, RowOrigin, OwnerStep, AutoStep, RunStep, Status
  <2>2. CASE ~Zombie(e)
    BY <1>6, <2>2, SameOrigin DEF ApiStart
  <2> QED BY <2>1, <2>2
<1> QED
  BY <1>2, <1>3, <1>4, <1>5, <1>6
  DEF WorkerNext, ClaimLoop, ClaimScan, ClaimPick, ClaimSkip, ClaimLost, ClaimConflict,
      Dispatch, TerminateActive, TaskThread, LaunchIgnored, Launch, MonitorExit, TickStop,
      TickTimeout, ShutdownKill, CloseRead, Cleanup, Environment, ProcessExit, TaskFault,
      HandlerFault, LoopFault, RequestShutdown, WorkerCrash, Restart, WorkerExit, BootWorker

LEMMA StepOrigin ==
  ASSUME TypeOK, ClaimDiscipline, Next
  PROVE  \A e \in Exec : RowOrigin(e)
  BY StoreOrigin, WorkerOrigin DEF Next

(***************************************************************************)
(* The restart: the sweep of the API's start lies between any two workers. *)
(***************************************************************************)

\* After the sweep a table without a worker has no RUNNING row with an owner.
SweptIsClean == wk = "down" /\ swept => \A e \in Exec : ~Zombie(e)

\* A row that is RUNNING with an owner was so before, or is being claimed.
LEMMA ZombieStep ==
  ASSUME TypeOK, ClaimDiscipline, Next, NEW e \in Exec, Zombie(e)'
  PROVE  Zombie(e) \/ ClaimWins(e)
<1>1. "RUNNING" \notin QueueableSources
  BY DEF QueueableSources, TerminalStatuses, DeliveredStatuses
<1>2. RowStep /\ RunStep(e)
  BY AnyStep, StepOrigin DEF RowOrigin
<1>3. CASE Quiet(e)
  BY <1>1, <1>3 DEF Quiet, Zombie
<1>4. CASE Inserted(e)
  BY <1>4 DEF Inserted, Zombie
<1>5. ASSUME NEW f \in Exec \ {e}, ClaimWins(f) PROVE Zombie(e)
  BY <1>5, ClaimWinsRow DEF Zombie, Status, Owned
<1> QED BY <1>2, <1>3, <1>4, <1>5 DEF RowStep, Still

LEMMA RestartStep ==
  ASSUME TypeOK, ClaimDiscipline, Alone, SweptIsClean, NoStaleOwner, [Next]_vars
  PROVE  SweptIsClean' /\ NoStaleOwner'
<1>1. CASE UNCHANGED vars
  BY <1>1 DEF vars, SweptIsClean, NoStaleOwner, Zombie, Status, Owned
<1>2. CASE Next
  <2>1. \A e \in Exec : Zombie(e)' => Zombie(e) \/ ClaimWins(e)
    BY <1>2, ZombieStep
  <2>2. \A e \in Exec : OwnerStep(e)
    BY <1>2, StepOrigin DEF RowOrigin
  <2>3. CASE wk' = wk /\ boot' = boot /\ swept' = swept
    <3>1. wk = "down" => \A e \in Exec : ~ClaimWins(e)
      BY DEF Alone, ClaimWins
    <3>2. SweptIsClean'
      BY <2>1, <2>3, <3>1 DEF SweptIsClean
    <3>3. ASSUME wk # "down", NEW e \in Exec, Zombie(e)' PROVE row'[e].owner = boot
      <4>1. row[e].owner \in {0, boot}
        BY <2>1, <3>3 DEF NoStaleOwner, Zombie, ClaimWins, ClaimDiscipline, Owned
      <4> QED BY <2>2, <3>3, <4>1 DEF OwnerStep, Zombie, Owned
    <3> QED BY <2>3, <3>2, <3>3 DEF NoStaleOwner, Zombie
  <2>4. CASE ApiStart
    BY <2>4 DEF ApiStart, SweptIsClean, NoStaleOwner, Zombie, Status, Owned, Row, TypeOK,
       StoreTypeOK
  <2>5. CASE BootWorker
    BY <2>5 DEF BootWorker, SweptIsClean, NoStaleOwner, Zombie, Status, Owned
  <2>6. CASE WorkerExit \/ WorkerCrash
    BY <2>6 DEF WorkerExit, WorkerCrash, SweptIsClean, NoStaleOwner
  <2>7. CASE RequestShutdown
    BY <2>7 DEF RequestShutdown, SweptIsClean, NoStaleOwner, Status, Owned
  <2> QED
    BY <1>2, <2>3, <2>4, <2>5, <2>6, <2>7
    DEF Next, workerVars, WorkerNext, ClaimLoop, ClaimScan, ClaimPick, ClaimSkip,
        ClaimExpire, ClaimWins, ClaimLost, ClaimConflict, Dispatch, TerminateActive,
        TaskThread, LaunchCheck, LaunchIgnored, Launch, MonitorExit, TickStop, TickTimeout,
        ShutdownKill, CloseRead, CloseWrite, Cleanup, Environment, ProcessExit, TaskFault,
        HandlerFault, LoopFault, Restart
<1> QED BY <1>1, <1>2

\* A worker never shares the table with RUNNING rows of a dead one, however
\* workers crash, exit and start again: in the start order of
\* Start-Orchestrator.ps1:81-118, the API and its sweep first, which Restart takes, and
\* not in the one the docstring of the sweep tells (execution_runtime.py:561-564).
THEOREM OwnersAreFresh == Spec => [](SweptIsClean /\ NoStaleOwner)
<1>1. Init => SweptIsClean /\ NoStaleOwner
  BY DEF Init, StoreInit, WorkerInit, SweptIsClean, NoStaleOwner, Status, NoRow, NewRow
<1>2. TypeOK /\ ClaimDiscipline /\ Alone /\ SweptIsClean /\ NoStaleOwner /\ [Next]_vars
        => (SweptIsClean /\ NoStaleOwner)'
  BY RestartStep
<1> QED BY <1>1, <1>2, TypeCorrect, Discipline, AlwaysSupervised, PTL DEF Spec

(***************************************************************************)
(* Groups: the check of a candidate's group and its compare-and-set are    *)
(* two sessions, and yet no other claim comes in between.                  *)
(***************************************************************************)

\* Rows and waiting inserts are of registered automations, and only telemetry
\* leaves a RUNNING row without an owner.
RowsKnown ==
  /\ \A e \in Exec : Status(e) # "ABSENT" => row[e].auto \in Automation
  /\ \A t \in Sessions :
       txn[t].op \in {"insert", "requeue"} => txn[t].auto \in Automation
  /\ \A e \in Exec : Status(e) = "RUNNING" /\ ~Owned(e) => row[e].auto \in TelemetryAutos

\* Nothing the worker runs is of the group of the candidate being claimed.
CasAlone ==
  /\ \A e \in claim.todo : Status(e) # "ABSENT"
  /\ claim.pc = "cas" =>
       /\ claim.exec \in Exec /\ Status(claim.exec) # "ABSENT"
       /\ \A f \in Exec : Zombie(f) => f \notin GroupRunning(GroupOf[row[claim.exec].auto])

LEMMA KnownTxn ==
  ASSUME TypeOK, RowsKnown, Next, NEW t \in Sessions, txn'[t].op \in {"insert", "requeue"}
  PROVE  txn'[t].auto \in Automation
<1>1. txn \in [Sessions -> Txn] /\ NoTxn.op = "idle"
  BY DEF TypeOK, StoreTypeOK, NoTxn, Work
<1>2. CASE txn'[t] = txn[t] \/ txn'[t] = NoTxn
  BY <1>1, <1>2 DEF RowsKnown
<1>3. ASSUME NEW u \in Sessions, Request(u) PROVE txn'[t].auto \in Automation
  <2>1. CASE u # t
    <3>1. txn'[t] = txn[t]
      BY <1>1, <1>3, <2>1 DEF Request, ManualStart, ScheduledTask, Requeue, AutoRetry,
         PrepareRequeue, Stop, TelemetryEnd, ReapOrphanedTelemetry, Begin
    <3> QED BY <1>2, <3>1
  <2>2. CASE u = t
    <3>1. ASSUME NEW w, Begin(t, w) PROVE txn'[t] = w
      BY <1>1, <3>1 DEF Begin
    <3>2. ASSUME NEW a \in Automation, ManualStart(t, a) \/ ScheduledTask(t, a)
          PROVE  txn'[t].auto \in Automation
      BY <3>1, <3>2 DEF ManualStart, ScheduledTask, InsertOf, Work
    <3>3. ASSUME NEW e \in Exec, NEW p, PrepareRequeue(t, e, p)
          PROVE  txn'[t].auto \in Automation
      <4>1. "ABSENT" \notin QueueableSources
        BY DEF QueueableSources, TerminalStatuses, DeliveredStatuses
      <4>2. row[e].auto \in Automation
        BY <3>3, <4>1 DEF PrepareRequeue, RowsKnown
      <4> QED BY <3>1, <3>3, <4>2 DEF PrepareRequeue, Work
    <3>4. ASSUME NEW e \in Exec, Requeue(t, e) \/ AutoRetry(t, e)
          PROVE  txn'[t].auto \in Automation
      BY <3>3, <3>4 DEF Requeue, AutoRetry
    <3>5. ASSUME NEW e \in Exec, Stop(t, e) \/ TelemetryEnd(t, e) \/ ReapOrphanedTelemetry(t, e)
          PROVE  txn'[t].op = "close"
      <4>1. ASSUME NEW s, Begin(t, CloseOf(e, s)) PROVE txn'[t].op = "close"
        BY <3>1, <4>1 DEF CloseOf, Work
      <4> QED BY <3>5, <4>1 DEF Stop, TelemetryEnd, ReapOrphanedTelemetry
    <3>6. Request(t)
      BY <1>3, <2>2
    <3>7. CASE \E a \in Automation : ManualStart(t, a) \/ ScheduledTask(t, a)
      BY <3>2, <3>7
    <3>8. CASE \E e \in Exec : Requeue(t, e) \/ AutoRetry(t, e)
      BY <3>4, <3>8
    <3>9. CASE \E e \in Exec : Stop(t, e) \/ TelemetryEnd(t, e) \/ ReapOrphanedTelemetry(t, e)
      BY <3>5, <3>9
    <3> QED BY <3>6, <3>7, <3>8, <3>9 DEF Request
  <2> QED BY <2>1, <2>2
<1>4. CASE txn' = txn \/ txn' = [u \in Sessions |-> NoTxn]
  BY <1>2, <1>4
<1>5. CASE StoreNext /\ \A u \in Sessions : ~Request(u)
  BY <1>1, <1>2, <1>4, <1>5 DEF StoreNext, Commit, Rollback, TelemetryStart
<1>6. CASE WorkerNext
  <2>1. txn' = txn \/ txn' = [u \in Sessions |-> NoTxn]
    BY <1>6 DEF WorkerNext, ClaimLoop, ClaimScan, ClaimPick, ClaimSkip, ClaimExpire,
       ClaimWins, ClaimLost, ClaimConflict, Dispatch, TerminateActive, TaskThread,
       LaunchCheck, LaunchIgnored, Launch, MonitorExit, TickStop, TickTimeout,
       ShutdownKill, CloseRead, CloseWrite, Cleanup, Environment,
       ProcessExit, TaskFault, HandlerFault, LoopFault, RequestShutdown,
       WorkerCrash, Restart, WorkerExit, ApiStart, BootWorker
  <2> QED BY <1>4, <2>1
<1> QED BY <1>3, <1>5, <1>6 DEF Next

LEMMA KnownStep ==
  ASSUME TypeOK, ClaimDiscipline, RowsKnown, [Next]_vars
  PROVE  RowsKnown'
<1>1. CASE UNCHANGED vars
  BY <1>1 DEF vars, RowsKnown, Status, Owned
<1>2. CASE Next
  <2>1. \A e \in Exec : Status(e)' # "ABSENT" => row'[e].auto \in Automation
    BY <1>2, StepOrigin, AutoAssumption DEF RowOrigin, AutoStep, RowsKnown
  <2>2. ASSUME NEW e \in Exec, Status(e)' = "RUNNING", ~Owned(e)'
        PROVE  row'[e].auto \in TelemetryAutos
    <3>1. "RUNNING" \notin QueueableSources
      BY DEF QueueableSources, TerminalStatuses, DeliveredStatuses
    <3>2. RowStep /\ RunStep(e)
      BY <1>2, AnyStep, StepOrigin DEF RowOrigin
    <3>3. CASE Quiet(e)
      BY <2>2, <3>1, <3>3 DEF Quiet, RowsKnown
    <3>4. CASE Inserted(e)
      BY <2>2, <3>2, <3>4, ClaimWinsRow DEF Inserted, RunStep
    <3>5. ASSUME NEW f \in Exec, ClaimWins(f) PROVE row'[e].auto \in TelemetryAutos
      BY <2>2, <3>5, ClaimWinsRow DEF RowsKnown, Status, Owned
    <3> QED BY <3>2, <3>3, <3>4, <3>5 DEF RowStep, Still
  <2> QED BY <1>2, <2>1, <2>2, KnownTxn DEF RowsKnown
<1> QED BY <1>1, <1>2

LEMMA GroupStep ==
  ASSUME TypeOK, ClaimDiscipline, RowsKnown, CasAlone, GroupExclusion, [Next]_vars
  PROVE  CasAlone' /\ GroupExclusion'
<1>1. CASE UNCHANGED vars
  BY <1>1 DEF vars, CasAlone, GroupExclusion, Status, Owned, Zombie, GroupRunning, InGroup
<1>2. CASE Next
  <2>1. \A e \in Exec : Zombie(e)' => Zombie(e) \/ ClaimWins(e)
    BY <1>2, ZombieStep
  <2>2. \A e \in Exec : Status(e) # "ABSENT" => Status(e)' # "ABSENT"
    BY <1>2, AnyStep, RowStepKeeps
  <2>3. \A e \in Exec : Status(e) # "ABSENT" => row'[e].auto = row[e].auto
    BY <1>2, AnyStep, ClaimWinsRow DEF RowStep, Quiet, Still, Inserted
  <2>4. \A e \in Exec : Zombie(e) => Status(e) # "ABSENT"
    BY DEF Zombie
  <2>5. CASE \E h \in Exec : ClaimWins(h)
    <3>1. PICK h \in Exec : ClaimWins(h)
      BY <2>5
    <3>2. claim'.pc = "dispatch" /\ claim'.todo = {} /\ claim.pc = "cas" /\ claim.exec = h
      BY <3>1 DEF ClaimWins, At
    <3>3. \A e \in Exec \ {h} : ~ClaimWins(e)
      BY <3>2 DEF ClaimWins
    <3>4. \A e \in Exec : row'[e].auto = row[e].auto
      BY <3>1, ClaimWinsRow
    <3>5. ASSUME NEW e \in Exec, Zombie(e)', e # h
          PROVE  Zombie(e) /\ e \notin GroupRunning(GroupOf[row[h].auto])
      BY <2>1, <3>2, <3>3, <3>5 DEF CasAlone
    <3>6. ASSUME NEW e \in Exec, Zombie(e)', e # h,
                 GroupOf[row[e].auto] = GroupOf[row[h].auto], GroupOf[row[h].auto] # NoGroup
          PROVE  FALSE
      <4>1. row[e].auto \in Automation
        BY <2>4, <3>5, <3>6 DEF RowsKnown
      <4> QED BY <3>5, <3>6, <4>1 DEF GroupRunning, InGroup, Zombie
    <3>7. GroupExclusion'
      BY <3>4, <3>5, <3>6 DEF GroupExclusion, Zombie
    <3> QED BY <3>2, <3>7 DEF CasAlone
  <2>6. CASE \A h \in Exec : ~ClaimWins(h)
    <3>1. \A e \in Exec : Zombie(e)' => Zombie(e) /\ row'[e].auto = row[e].auto
      BY <2>1, <2>3, <2>4, <2>6
    <3>2. GroupExclusion'
      BY <3>1 DEF GroupExclusion, Zombie
    <3>3. CASE claim' = claim
      <4>1. claim.todo \in SUBSET Exec
        BY DEF TypeOK, WorkerTypeOK, Claim
      <4> QED
        BY <2>2, <2>3, <3>1, <3>2, <3>3, <4>1
        DEF CasAlone, GroupRunning, InGroup, Zombie
    <3>4. CASE claim'.pc # "cas" /\ claim'.todo \subseteq claim.todo
      <4>1. claim.todo \in SUBSET Exec
        BY DEF TypeOK, WorkerTypeOK, Claim
      <4> QED BY <2>2, <3>2, <3>4, <4>1 DEF CasAlone
    <3>5. CASE ClaimScan
      <4>1. claim'.pc = "scan" /\ claim'.todo = Candidates
        BY <3>5 DEF ClaimScan, At
      <4>2. \A e \in Candidates : e \in Exec /\ Status(e) # "ABSENT"
        BY DEF Candidates, Pending
      <4> QED BY <2>2, <3>2, <4>1, <4>2 DEF CasAlone
    <3>6. ASSUME NEW e \in Exec, ClaimPick(e) PROVE CasAlone'
      <4>1. claim'.pc = "cas" /\ claim'.todo = claim.todo /\ claim'.exec = e /\ row' = row
        BY <3>6 DEF ClaimPick, At
      <4>2. Status(e) # "ABSENT" /\ GroupRunning(GroupOf[row[e].auto]) = {}
        BY <3>6 DEF ClaimPick, Considering, IsFirst, Blocked, CasAlone
      <4> QED BY <4>1, <4>2 DEF CasAlone, Status, Zombie, Owned, GroupRunning, InGroup
    <3>7. Idle.pc = "idle" /\ Idle.todo = {}
      BY DEF Idle, At
    <3>8. \A e \in Exec : Rest(e).pc \in {"idle", "scan"} /\ Rest(e).todo \subseteq claim.todo
      BY <3>7 DEF Rest, At
    <3>9. ASSUME NEW e \in Exec,
                 ClaimSkip(e) \/ ClaimExpire(e) \/ ClaimLost(e) \/ ClaimConflict(e) \/ Dispatch(e)
          PROVE  claim'.pc # "cas" /\ claim'.todo \subseteq claim.todo
      BY <3>7, <3>8, <3>9 DEF ClaimSkip, ClaimExpire, ClaimLost, ClaimConflict, Dispatch
    <3>10. CASE LoopFault \/ TerminateActive \/ WorkerExit \/ WorkerCrash
      BY <3>4, <3>7, <3>10 DEF LoopFault, TerminateActive, WorkerExit, WorkerCrash, At
    <3> QED
      BY <1>2, <2>6, <3>2, <3>3, <3>4, <3>5, <3>6, <3>9, <3>10
      DEF Next, workerVars, WorkerNext, ClaimLoop, TaskThread, LaunchCheck, LaunchIgnored,
          Launch, MonitorExit, TickStop, TickTimeout, ShutdownKill, CloseRead, CloseWrite,
          Cleanup, Environment, ProcessExit, TaskFault, HandlerFault, RequestShutdown,
          Restart, ApiStart, BootWorker
  <2> QED BY <2>5, <2>6
<1> QED BY <1>1, <1>2

\* The worker never runs two executions of one queue_group, although no index
\* backs the group.
THEOREM GroupsRunOne == Spec => [](RowsKnown /\ CasAlone /\ GroupExclusion)
<1>1. Init => RowsKnown /\ CasAlone /\ GroupExclusion
  BY DEF Init, StoreInit, WorkerInit, RowsKnown, CasAlone, GroupExclusion, Status, NoRow,
         NewRow, NoTxn, Work, Idle, At
<1>2. TypeOK /\ ClaimDiscipline /\ RowsKnown /\ CasAlone /\ GroupExclusion /\ [Next]_vars
        => (RowsKnown /\ CasAlone /\ GroupExclusion)'
  BY KnownStep, GroupStep
<1> QED BY <1>1, <1>2, TypeCorrect, Discipline, PTL DEF Spec

\* Where all automations have groups and none is reported by telemetry, the
\* claim's UPDATE never meets the index.
THEOREM ClaimsAreFree == Spec => []ClaimNeverConflicts
<1>1. TypeOK /\ RowsKnown /\ CasAlone => ClaimNeverConflicts
  <2> SUFFICES ASSUME TypeOK, RowsKnown, CasAlone, TelemetryAutos = {},
                      \A a \in Automation : GroupOf[a] # NoGroup,
                      NEW e \in Exec, claim.pc = "cas", claim.exec = e, Status(e) = "PENDING",
                      NEW f \in Exec, Status(f) = "RUNNING", row[f].auto = row[e].auto
               PROVE  FALSE
    BY DEF ClaimNeverConflicts, MayRun
  <2>1. row[f].auto \in Automation /\ Zombie(f)
    BY DEF RowsKnown, Zombie
  <2> QED BY <2>1 DEF CasAlone, GroupRunning, InGroup
<1> QED BY <1>1, TypeCorrect, GroupsRunOne, PTL

(***************************************************************************)
(* Claims: without faults, what the worker has claimed has a thread.       *)
(***************************************************************************)

\* The thread that is only left to kill its process has closed the row.
CleanupIsOver == ~Faults => \A e \in Exec : task[e].stage = "cleanup" => Status(e) # "RUNNING"

\* Without faults and restarts, a thread, or the dispatch about to make one,
\* goes or comes to its cleanup only when the row is not RUNNING.
LEMMA ThreadGoes ==
  ASSUME TypeOK, ClaimDiscipline, CleanupIsOver, ~Faults, WorkerNext, wk' # "down",
         NEW e \in Exec
  PROVE  /\ task[e].stage # "none" /\ task'[e].stage \in {"none", "cleanup"}
              => Status(e)' # "RUNNING"
         /\ InDispatch(e) => InDispatch(e)' \/ task'[e].stage \notin {"none", "cleanup"}
         /\ task[e].stage = "none" => task'[e].stage # "cleanup"
<1> DEFINE G == /\ task[e].stage # "none" /\ task'[e].stage \in {"none", "cleanup"}
                    => Status(e)' # "RUNNING"
                /\ InDispatch(e) => InDispatch(e)' \/ task'[e].stage \notin {"none", "cleanup"}
                /\ task[e].stage = "none" => task'[e].stage # "cleanup"
<1>1. task \in [Exec -> Task] /\ row \in [Exec -> Row]
  BY DEF TypeOK, WorkerTypeOK, StoreTypeOK
<1>2. CASE task'[e] = task[e] /\ claim' = claim /\ row'[e] = row[e]
  BY <1>2 DEF CleanupIsOver, InDispatch, Status
<1>3. CASE ClaimLoop
  <2>1. ASSUME task' = task, claim.pc # "dispatch",
               Status(e)' # "RUNNING" \/ row'[e] = row[e] \/ Status(e) = "PENDING"
        PROVE  G
    BY <2>1 DEF CleanupIsOver, InDispatch, Status, ClaimDiscipline
  <2>2. ASSUME NEW f \in Exec, ClaimExpire(f) PROVE G
    <3>1. row'[f].status = "EXPIRED" /\ \A g \in Exec \ {f} : row'[g] = row[g]
      BY <1>1, <2>2 DEF ClaimExpire, Row
    <3> QED BY <2>1, <2>2, <3>1 DEF ClaimExpire, Considering, Status
  <2>3. ASSUME NEW f \in Exec, ClaimWins(f) PROVE G
    <3>1. Status(f) = "PENDING" /\ \A g \in Exec \ {f} : row'[g] = row[g]
      BY <2>3, ClaimWinsRow DEF ClaimWins
    <3> QED BY <2>1, <2>3, <3>1 DEF ClaimWins
  <2>4. ASSUME NEW f \in Exec, Dispatch(f) PROVE G
    <3>1. CASE e = f
      <4>1. task'[e].stage = "submitted"
        BY <1>1, <2>4, <3>1 DEF Dispatch, Thread
      <4> QED BY <4>1
    <3>2. CASE e # f
      <4>1. task'[e] = task[e] /\ row' = row /\ ~InDispatch(e)
        BY <1>1, <2>4, <3>2 DEF Dispatch, InDispatch
      <4> QED BY <4>1 DEF CleanupIsOver, Status
    <3> QED BY <3>1, <3>2
  <2> QED
    BY <1>3, <2>1, <2>2, <2>3, <2>4
    DEF ClaimLoop, ClaimScan, ClaimPick, ClaimSkip, ClaimLost, ClaimConflict, Considering,
        TerminateActive
<1>4. ASSUME NEW f \in Exec \ {e}, TaskThread(f) PROVE G
  <2>1. task'[e] = task[e] /\ row'[e] = row[e] /\ claim' = claim
    BY <1>1, <1>4 DEF TaskThread, LaunchCheck, LaunchIgnored, Launch, MonitorExit, TickStop,
       TickTimeout, ShutdownKill, CloseRead, CloseWrite, Cleanup, SetStage, Leave, Close
  <2> QED BY <1>2, <2>1
<1>5. CASE TaskThread(e)
  <2>1. claim' = claim /\ task[e].stage # "none"
    BY <1>5 DEF TaskThread, LaunchCheck, LaunchIgnored, Launch, MonitorExit, TickStop,
       TickTimeout, ShutdownKill, CloseRead, CloseWrite, Cleanup, Monitoring
  <2>2. CASE LaunchCheck(e) \/ Launch(e)
    <3>1. task'[e].stage \in {"starting", "monitor"}
      BY <1>1, <2>2 DEF LaunchCheck, Launch, SetStage, Task
    <3> QED BY <2>1, <3>1 DEF InDispatch
  <2>3. CASE LaunchIgnored(e)
    BY <2>1, <2>3 DEF LaunchIgnored, Active, ActiveStatuses, InDispatch, Status
  <2>4. CASE MonitorExit(e) \/ TickStop(e) \/ TickTimeout(e) \/ ShutdownKill(e)
    <3>1. \A s : Close(e, s) => task'[e].stage = "close"
      BY <1>1 DEF Close, Task
    <3>2. task'[e].stage = "close"
      BY <2>4, <3>1 DEF MonitorExit, TickStop, TickTimeout, ShutdownKill
    <3> QED BY <2>1, <3>2 DEF InDispatch
  <2>5. CASE CloseRead(e)
    <3>1. "RUNNING" \notin Kept(task[e].out)
      BY <1>1, WorkerAssumption DEF Kept, Task, ProtectedStatuses
    <3>2. SetStage(e, "commit") => task'[e].stage = "commit"
      BY <1>1 DEF SetStage, Task
    <3> QED BY <2>1, <2>5, <3>1, <3>2 DEF CloseRead, InDispatch, Status
  <2>6. CASE CloseWrite(e)
    <3>1. row'[e].status = task[e].out /\ task[e].out # "RUNNING"
      BY <1>1, <2>6, WorkerAssumption DEF CloseWrite, Row, Task
    <3> QED BY <2>1, <3>1 DEF InDispatch, Status
  <2>7. CASE Cleanup(e)
    BY <2>1, <2>7 DEF Cleanup, CleanupIsOver, InDispatch, Status
  <2> QED BY <1>5, <2>2, <2>3, <2>4, <2>5, <2>6, <2>7 DEF TaskThread
<1>6. CASE Environment
  BY <1>2, <1>6
  DEF Environment, ProcessExit, TaskFault, HandlerFault, LoopFault, RequestShutdown,
      WorkerCrash
<1>7. CASE Restart
  BY <1>2, <1>7 DEF Restart, WorkerExit, ApiStart, BootWorker
<1> QED BY <1>3, <1>4, <1>5, <1>6, <1>7 DEF WorkerNext

LEMMA ClaimKeptStep ==
  ASSUME TypeOK, ClaimDiscipline, Alone, SweptIsClean, CleanupIsOver, NoLostClaim, [Next]_vars
  PROVE  CleanupIsOver' /\ NoLostClaim'
<1>1. CASE UNCHANGED vars
  BY <1>1 DEF vars, CleanupIsOver, NoLostClaim, InDispatch, Status, Owned
<1>2. CASE Faults
  BY <1>2 DEF CleanupIsOver, NoLostClaim
<1>3. CASE Next /\ ~Faults
  <2>1. \A e \in Exec : Zombie(e)' => Zombie(e) \/ ClaimWins(e)
    BY <1>3, ZombieStep
  <2>2. \A e \in Exec : task[e].stage # "none" => Owned(e)
    BY DEF ClaimDiscipline
  <2>3. \A e \in Exec : Owned(e) => Owned(e)'
    BY <1>3, AnyStep, ExecStep
  <2>4. \A e \in Exec : task[e].stage # "none" /\ Status(e)' = "RUNNING" => Status(e) = "RUNNING"
    <3>1. \A e \in Exec : ClaimWins(e) => ~Owned(e)
      BY DEF ClaimWins, ClaimDiscipline
    <3> QED BY <2>1, <2>2, <2>3, <3>1 DEF Zombie
  <2>5. CASE StoreNext /\ UNCHANGED workerVars
    <3>1. \A e \in Exec : ~ClaimWins(e)
      BY <2>5 DEF workerVars, ClaimWins, At
    <3> QED BY <2>1, <2>4, <2>5, <3>1
        DEF workerVars, CleanupIsOver, NoLostClaim, InDispatch, Zombie
  <2>6. CASE WorkerNext /\ wk' = "down"
    <3>1. \A e \in Exec : task'[e].stage = "none"
      <4>1. CASE WorkerExit \/ WorkerCrash
        BY <4>1 DEF WorkerExit, WorkerCrash, Busy, NoTask, Thread
      <4>2. CASE wk = "down" /\ ~WorkerExit
        <5>1. claim.pc = "idle" /\ \A e \in Exec : task[e].stage = "none"
          BY <4>2 DEF Alone
        <5>2. ~ClaimLoop
          BY <4>2, <5>1 DEF ClaimLoop, ClaimScan, ClaimPick, ClaimSkip, ClaimExpire,
             ClaimWins, ClaimLost, ClaimConflict, Considering, Dispatch, TerminateActive
        <5>3. \A e \in Exec : ~TaskThread(e)
          BY <5>1 DEF TaskThread, LaunchCheck, LaunchIgnored, Launch, MonitorExit, TickStop,
             TickTimeout, ShutdownKill, CloseRead, CloseWrite, Cleanup, Monitoring
        <5>4. task' = task
          BY <2>6, <4>2, <5>1, <5>2, <5>3 DEF WorkerNext, Environment, ProcessExit, TaskFault,
             HandlerFault, LoopFault, RequestShutdown, WorkerCrash, Restart, ApiStart, BootWorker
        <5> QED BY <5>1, <5>4
      <4>3. wk' = wk \/ WorkerExit \/ WorkerCrash \/ wk' # "down"
        BY <2>6 DEF WorkerNext, ClaimLoop, ClaimScan, ClaimPick, ClaimSkip,
           ClaimExpire, ClaimWins, ClaimLost, ClaimConflict, Dispatch,
           TerminateActive, TaskThread, LaunchCheck, LaunchIgnored, Launch, MonitorExit,
           TickStop, TickTimeout, ShutdownKill, CloseRead, CloseWrite, Cleanup,
           Environment, ProcessExit, TaskFault, HandlerFault, LoopFault, RequestShutdown,
           Restart, ApiStart, BootWorker
      <4> QED BY <2>6, <4>1, <4>2, <4>3
    <3> QED BY <2>6, <3>1 DEF CleanupIsOver, NoLostClaim
  <2>7. CASE WorkerNext /\ wk' # "down"
    <3>1. ASSUME NEW e \in Exec, task'[e].stage = "cleanup" PROVE Status(e)' # "RUNNING"
      BY <1>3, <2>7, <3>1, ThreadGoes
    <3>2. ASSUME NEW e \in Exec, Zombie(e)' PROVE task'[e].stage # "none" \/ InDispatch(e)'
      <4>1. CASE ClaimWins(e)
        BY <4>1 DEF ClaimWins, InDispatch, At
      <4>2. CASE Zombie(e)
        <5>1. wk # "down"
          <6>1. CASE BootWorker
            BY <4>2, <6>1 DEF BootWorker, SweptIsClean
          <6>2. wk' = wk \/ BootWorker \/ wk # "down"
            BY <2>7 DEF WorkerNext, ClaimLoop, ClaimScan, ClaimPick, ClaimSkip,
               ClaimExpire, ClaimWins, ClaimLost, ClaimConflict, Dispatch,
               TerminateActive, TaskThread, LaunchCheck, LaunchIgnored, Launch, MonitorExit,
               TickStop, TickTimeout, ShutdownKill, CloseRead, CloseWrite, Cleanup,
               Environment, ProcessExit, TaskFault, HandlerFault, LoopFault, RequestShutdown,
               WorkerCrash, Restart, WorkerExit, ApiStart
          <6> QED BY <2>7, <6>1, <6>2
        <5>2. task[e].stage # "none" \/ InDispatch(e)
          BY <1>3, <4>2, <5>1 DEF NoLostClaim, Zombie
        <5> QED BY <1>3, <2>7, <3>2, <5>2, ThreadGoes DEF Zombie
      <4> QED BY <2>1, <3>2, <4>1, <4>2
    <3> QED BY <3>1, <3>2 DEF CleanupIsOver, NoLostClaim, Zombie
  <2> QED BY <1>3, <2>5, <2>6, <2>7 DEF Next
<1> QED BY <1>1, <1>2, <1>3

\* Without faults nothing claimed is forgotten, through stops, late telemetry
\* ends, shutdowns, crashes and restarts.
THEOREM ClaimsAreKept == Spec => [](CleanupIsOver /\ NoLostClaim)
<1>1. Init => CleanupIsOver /\ NoLostClaim
  BY DEF Init, StoreInit, WorkerInit, CleanupIsOver, NoLostClaim, Status, NoRow, NewRow
<1>2. TypeOK /\ ClaimDiscipline /\ Alone /\ SweptIsClean /\ CleanupIsOver /\ NoLostClaim
        /\ [Next]_vars => (CleanupIsOver /\ NoLostClaim)'
  BY ClaimKeptStep
<1> QED
  BY <1>1, <1>2, TypeCorrect, Discipline, AlwaysSupervised, OwnersAreFresh, PTL DEF Spec
=============================================================================
