----------------------------- MODULE MCServices ------------------------------
(*****************************************************************************)
(* What the API keeps in its memory, side by side: the tokens of WebSocket   *)
(* handshakes (WsToken, whose names are used as they are), alerts and their  *)
(* cooldowns, with a full table and with one that never fills, the rate      *)
(* limiter, the log stream from a worker's monitor to the screens, over a    *)
(* sound network and over a bad one, the reload of the scheduler's jobs, the *)
(* start of the process itself, and the channel that wakes the worker. They  *)
(* share nothing that is modelled here, so a behaviour is of one of them,    *)
(* `part`, and the others stay as they began. Their constants are this       *)
(* module's; the definitions that services.cfg gives as values are at the    *)
(* end.                                                                      *)
(*****************************************************************************)
EXTENDS WsToken, Integers, TLC

CONSTANTS
  Automation, Threads, Tiers, MaxTracked, QueueBound, Single, FarTiers, FarTracked,
  Address, Limit, Span, StaleTTL, CleanupEvery, Absent,
  Viewer, Handler, NoOne, MaxLines, MaxKept, MaxMessage, FewViewers, FewLines, MoreKept,
  Scheduled, Plan, Day, Anchor, Window, Unset, MaxChanges,
  HeadRevision, Steps, UniqueAt, NoTable, NoRow, MaxCrashes,
  MaxWorkers, Poll, MaxPoll, LongPoll, MinBackoff, MaxBackoff, Never, MaxRows, Horizon

\* The part a behaviour is of, and the state of each.
VARIABLES
  part,
  alertsAlert, alertsQueue, alertsThread, alertsPool, alertsFailures, alertsBurst,
  alertsTold,
  repeatsAlert, repeatsQueue, repeatsThread, repeatsPool, repeatsFailures,
  repeatsBurst, repeatsTold,
  window, seen, count, passed, unjust, adjusted,
  logsSaid, logsPipe, logsKept, logsRow, logsMon, logsBuffer, logsFl, logsDown,
  logsHandler, logsViewer, logsConns, logsLock,
  lossySaid, lossyPipe, lossyKept, lossyRow, lossyMon, lossyBuffer, lossyFl,
  lossyDown, lossyHandler, lossyViewer, lossyConns, lossyLock,
  db, jobs, pending, jobsThread, jobsClock, calm, due, changes,
  objs, version, pc, at, cause, running, crashes,
  signalsQueue, blocked, active, untold, signal, listener, wake, main, interval,
  since, reported, starved, full

alertsVars == <<alertsAlert, alertsQueue, alertsThread, alertsPool, alertsFailures,
  alertsBurst, alertsTold>>
repeatsVars == <<repeatsAlert, repeatsQueue, repeatsThread, repeatsPool, repeatsFailures,
  repeatsBurst, repeatsTold>>
limitsVars == <<window, seen, count, passed, unjust, adjusted>>
logsVars == <<logsSaid, logsPipe, logsKept, logsRow, logsMon, logsBuffer, logsFl,
  logsDown, logsHandler, logsViewer, logsConns, logsLock>>
lossyVars == <<lossySaid, lossyPipe, lossyKept, lossyRow, lossyMon, lossyBuffer, lossyFl,
  lossyDown, lossyHandler, lossyViewer, lossyConns, lossyLock>>
jobsVars == <<db, jobs, pending, jobsThread, jobsClock, calm, due, changes>>
schemaVars == <<objs, version, pc, at, cause, running, crashes>>
signalsVars == <<signalsQueue, blocked, active, untold, signal, listener, wake, main,
  interval, since, reported, starved, full>>
everything == <<part, vars, alertsVars, repeatsVars, limitsVars, logsVars, lossyVars,
  jobsVars, schemaVars, signalsVars>>

Alerts == INSTANCE AlertThrottle_proofs WITH
  Faults <- TRUE, alert <- alertsAlert, queue <- alertsQueue, thread <- alertsThread,
  pool <- alertsPool, failures <- alertsFailures, burst <- alertsBurst,
  told <- alertsTold
Repeats == INSTANCE AlertThrottle_proofs WITH
  Automation <- Single, Tiers <- FarTiers, MaxTracked <- FarTracked, Faults <- TRUE,
  alert <- repeatsAlert, queue <- repeatsQueue, thread <- repeatsThread,
  pool <- repeatsPool, failures <- repeatsFailures, burst <- repeatsBurst,
  told <- repeatsTold
Limits == INSTANCE RateLimit WITH
  SetBack <- 0
Logs == INSTANCE LogStream_proofs WITH
  Unreliable <- FALSE, Stops <- FALSE, Held <- FALSE, said <- logsSaid,
  pipe <- logsPipe, kept <- logsKept, row <- logsRow, mon <- logsMon,
  buffer <- logsBuffer, fl <- logsFl, down <- logsDown, handler <- logsHandler,
  viewer <- logsViewer, conns <- logsConns, lock <- logsLock
LossyLogs == INSTANCE LogStream_proofs WITH
  Viewer <- FewViewers, MaxLines <- FewLines, MaxKept <- MoreKept, Unreliable <- TRUE,
  Stops <- TRUE, Held <- FALSE, said <- lossySaid, pipe <- lossyPipe,
  kept <- lossyKept, row <- lossyRow, mon <- lossyMon, buffer <- lossyBuffer,
  fl <- lossyFl, down <- lossyDown, handler <- lossyHandler, viewer <- lossyViewer,
  conns <- lossyConns, lock <- lossyLock
Jobs == INSTANCE SchedulerReload WITH
  Auto <- Scheduled, Slow <- TRUE, Restarts <- TRUE, thread <- jobsThread,
  clock <- jobsClock
Schema == INSTANCE SchemaStart WITH
  Head <- HeadRevision, Origins <- {"fresh", "upgraded", "legacy"}, CutUpgrade <- TRUE
Signals == INSTANCE Wakeup WITH
  Faults <- FALSE, Silent <- FALSE, queue <- signalsQueue

\* What each part takes for granted of its constants.
ASSUME PartsAssumption ==
  /\ Alerts!TierAssumption /\ Repeats!TierAssumption /\ Limits!RateLimitAssumption
  /\ Logs!LogStreamAssumption /\ LossyLogs!LogStreamAssumption /\ Jobs!PlanAssumption
  /\ Schema!SchemaAssumption /\ Signals!WakeupAssumption

Parts == {"tokens", "alerts", "repeats", "limits", "logs", "lossy", "jobs", "schema", "signals"}

\* Each part begins where its program does; what the others might begin with is fixed.
AllInit ==
  /\ part \in Parts
  /\ Init
  /\ Alerts!Init
  /\ Repeats!Init
  /\ Limits!Init
  /\ Logs!Init
  /\ LossyLogs!Init
  /\ Jobs!Init /\ (part # "jobs" => \A a \in Scheduled : db[a].kind = "off")
  /\ Schema!Init /\ (part # "schema" => objs = {} /\ version = NoTable)
  /\ Signals!Init /\ (part # "signals" => signalsQueue = 0)

AllNext ==
  \/ part = "tokens" /\ Next
     /\ UNCHANGED <<part, alertsVars, repeatsVars, limitsVars, logsVars, lossyVars,
                   jobsVars, schemaVars, signalsVars>>
  \/ part = "alerts" /\ Alerts!Next
     /\ UNCHANGED <<part, vars, repeatsVars, limitsVars, logsVars, lossyVars,
                   jobsVars, schemaVars, signalsVars>>
  \/ part = "repeats" /\ Repeats!Next
     /\ UNCHANGED <<part, vars, alertsVars, limitsVars, logsVars, lossyVars,
                   jobsVars, schemaVars, signalsVars>>
  \/ part = "limits" /\ Limits!Next
     /\ UNCHANGED <<part, vars, alertsVars, repeatsVars, logsVars, lossyVars,
                   jobsVars, schemaVars, signalsVars>>
  \/ part = "logs" /\ Logs!Next
     /\ UNCHANGED <<part, vars, alertsVars, repeatsVars, limitsVars, lossyVars,
                   jobsVars, schemaVars, signalsVars>>
  \/ part = "lossy" /\ LossyLogs!Next
     /\ UNCHANGED <<part, vars, alertsVars, repeatsVars, limitsVars, logsVars,
                   jobsVars, schemaVars, signalsVars>>
  \/ part = "jobs" /\ Jobs!Next
     /\ UNCHANGED <<part, vars, alertsVars, repeatsVars, limitsVars, logsVars,
                   lossyVars, schemaVars, signalsVars>>
  \/ part = "schema" /\ Schema!Next
     /\ UNCHANGED <<part, vars, alertsVars, repeatsVars, limitsVars, logsVars,
                   lossyVars, jobsVars, signalsVars>>
  \/ part = "signals" /\ Signals!Next
     /\ UNCHANGED <<part, vars, alertsVars, repeatsVars, limitsVars, logsVars,
                   lossyVars, jobsVars, schemaVars>>

AllSpec == AllInit /\ [][AllNext]_everything
-----------------------------------------------------------------------------
\* Who is turned away has to be, and nobody else passes: a token only for want of
\* room or of time, an address only above its limit, whatever is swept in between and
\* as long as the wall clock is not set back.
AdmitsJustly ==
  /\ TypeOK /\ TurnedAwayForRoom
  /\ Limits!TypeOK /\ Limits!LimitHolds /\ Limits!RefusedJustly

\* The lock is not held from the check to the mark, and yet a cooldown lets no more
\* alerts pass than the pool has threads, and the count that chooses the tier follows
\* the failures.
AlertsCount ==
  /\ Alerts!TypeOK /\ Alerts!BurstBounded
  /\ Repeats!TypeOK /\ Repeats!BurstBounded /\ Repeats!CountFollowsFailures

\* The screens show the log from its beginning, in order and once, after the history
\* and from one writer; what a bad network keeps from them is in the database.
LogsAreWhole ==
  /\ Logs!TypeOK /\ LossyLogs!TypeOK
  /\ Logs!SeenInOrder /\ Logs!ShownIsPrefix /\ Logs!HistoryFirst
  /\ LossyLogs!SingleWriter /\ LossyLogs!HistoryFirst
  /\ LossyLogs!NoLeak /\ LossyLogs!Preserved

\* A log fits a message to the screens, and over the bad network the worker's list; the
\* theorem about LogsAreWhole is about such logs.
LogsFit == MaxLines < MaxMessage /\ FewLines <= MoreKept

\* After a reload that met no other the scheduler runs what the table asks for, whatever
\* reloads that overlapped have left behind.  Reloads that do not overlap put off no
\* interval but one whose moment comes while its job is out of the store.  No reload,
\* overlapping or not, and no restart moves an anchor.
JobsAsStored == Jobs!TypeOK /\ Jobs!Synced /\ Jobs!KeepsElapsed /\ Jobs!OnAnchorGrid

\* An API that serves has the whole schema, wherever earlier starts were killed, and
\* no automation that counts as running twice, if its database was empty at first, came
\* from Alembic or is of the time before it.  A stamp given to a database that lacks
\* what it stands for, or a database with some of the tables only, is not among these.
ServesWhole == Schema!TypeOK /\ Schema!RevisionIsTrue /\ Schema!ServedIsWhole /\ Schema!OneRunning

\* With a reachable API no free slot waits for a signalled row longer than the shortest
\* interval, however signals and looks interleave, and the pool is never reported as
\* saturated for longer than it has been full.
WokenInTime == Signals!TypeOK /\ Signals!Prompt /\ Signals!SaturationHonest
-----------------------------------------------------------------------------
(* Values of services.cfg.                                                 *)

\* The request threads stand for one another, and so do the automations.
Alike == Permutations(Thread) \cup Permutations(Scheduled)

\* The tiers of the program with waits of two and one instead of 600, 300 and 60.
TwoTiers == {[min |-> 1, wait |-> 2], [min |-> 2, wait |-> 1]}
SpreadTiers == {[min |-> 1, wait |-> 2], [min |-> 4, wait |-> 1]}

\* A day of four ticks; an interval of two, plain or anchored.
Planned(k, s, w) == [kind |-> k, step |-> s, window |-> w]
Plans == {Planned("off", 1, FALSE), Planned("interval", 2, FALSE), Planned("anchored", 2, FALSE)}

\* Four migrations, of two statements, two, one (the unique index) and one.
FourMigrations == <<2, 2, 1, 1>>
==============================================================================
