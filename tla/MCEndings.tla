------------------------------ MODULE MCEndings ------------------------------
(*****************************************************************************)
(* What must come to an end, side by side: what is read is delivered and     *)
(* committed, whoever fails on the way; a screen is shown the end of a log;  *)
(* alerts go on, interval jobs run, the API starts, a query finds a network  *)
(* that is back, snapshots are renewed, requests end and screens catch up. A *)
(* behaviour is of one part, `part`, and each part is taken with the         *)
(* fairness of its own module.                                               *)
(*****************************************************************************)
EXTENDS Integers, TLC

CONSTANTS
  none, listA, listA2, listB, yarn, NoDate, Absent, Torn, NoHash,
  a1, a2, w1, v1, h1, h2, t1, g1, d1, f1, f2, s1, s2,
  NoOne, Unset, NoTable, NoRow, NoManifest, Broken

\* The part a behaviour is of, and the state of each.
VARIABLES
  part,
  emittedDb, emittedState, emittedTmp, emittedFile, emittedRun, emittedGot, mailed,
  emittedCut, emittedLeft,
  blockedDb, blockedState, blockedTmp, html, blockedFile, recipients, blockedRun,
  blockedGot, blockedTold, blockedCut, unsure, blockedCrashes, blockedChanges,
  ordersRow, stock, spare, ordersState, ordersTmp, ordersPc, message, ordersTold,
  kills, ordersChanges,
  lot, cfg, phasesState, phasesTmp, phasesFile, batch, phasesRun, phasesSent,
  phasesTold, phasesLeft,
  batchAtt, batchT, batchWatch, batchStarted, batchSent, batchConsumed, batchFile,
  batchCode,
  singleAtt, singleT, singleWatch, singleStarted, singleSent, singleConsumed,
  singleFile, singleCode,
  said, pipe, kept, logsRow, mon, buffer, fl, down, handler, viewer, conns, logsLock,
  alert, queue, alertsThread, alertsPool, failures, burst, alertsTold,
  jobsDb, jobs, pending, jobsThread, clock, calm, due, jobsChanges,
  objs, schemaVersion, schemaPc, at, cause, running, schemaCrashes,
  up, serverFaults, sess, serverPool, poolWait, conn, connWait, serverReq, served,
  oracle, hist, benefFile, old, benefRun, junk, view, benefVersion, benefFaults,
  requestsRow, disk, exec, proc, claim, requestsReq, requestsLock, env, sync, moved,
  refused,
  screenMounted, screenParam, screenEffect, screenData, screenLoading, screenError,
  screenFlight, screenWait, screenTimer, screenQueued, screenCache, screenServer,
  screenLeft,
  sharedMounted, sharedParam, sharedEffect, sharedData, sharedLoading, sharedError,
  sharedFlight, sharedWait, sharedTimer, sharedQueued, sharedCache, sharedServer,
  sharedLeft

emittedVars == <<emittedDb, emittedState, emittedTmp, emittedFile, emittedRun,
  emittedGot, mailed, emittedCut, emittedLeft>>
blockedVars == <<blockedDb, blockedState, blockedTmp, html, blockedFile, recipients,
  blockedRun, blockedGot, blockedTold, blockedCut, unsure, blockedCrashes,
  blockedChanges>>
ordersVars == <<ordersRow, stock, spare, ordersState, ordersTmp, ordersPc, message,
  ordersTold, kills, ordersChanges>>
phasesVars == <<lot, cfg, phasesState, phasesTmp, phasesFile, batch, phasesRun,
  phasesSent, phasesTold, phasesLeft>>
batchVars == <<batchAtt, batchT, batchWatch, batchStarted, batchSent, batchConsumed,
  batchFile, batchCode>>
singleVars == <<singleAtt, singleT, singleWatch, singleStarted, singleSent,
  singleConsumed, singleFile, singleCode>>
logsVars == <<said, pipe, kept, logsRow, mon, buffer, fl, down, handler, viewer, conns,
  logsLock>>
alertsVars == <<alert, queue, alertsThread, alertsPool, failures, burst, alertsTold>>
jobsVars == <<jobsDb, jobs, pending, jobsThread, clock, calm, due, jobsChanges>>
schemaVars == <<objs, schemaVersion, schemaPc, at, cause, running, schemaCrashes>>
serverVars == <<up, serverFaults, sess, serverPool, poolWait, conn, connWait, serverReq,
  served>>
benefVars == <<oracle, hist, benefFile, old, benefRun, junk, view, benefVersion,
  benefFaults>>
requestsVars == <<requestsRow, disk, exec, proc, claim, requestsReq, requestsLock, env,
  sync, moved, refused>>
screenVars == <<screenMounted, screenParam, screenEffect, screenData, screenLoading,
  screenError, screenFlight, screenWait, screenTimer, screenQueued,
  screenCache, screenServer, screenLeft>>
sharedVars == <<sharedMounted, sharedParam, sharedEffect, sharedData, sharedLoading,
  sharedError, sharedFlight, sharedWait, sharedTimer, sharedQueued,
  sharedCache, sharedServer, sharedLeft>>
everything == <<part, emittedVars, blockedVars, ordersVars, phasesVars, batchVars, singleVars,
  logsVars, alertsVars, jobsVars, schemaVars, serverVars, benefVars,
  requestsVars, screenVars, sharedVars>>

\* The contents of MCDeliveries, and smaller orders, lots and plans.
Lists == {none, listA, listA2, listB}
SameList == [c \in Lists |-> IF c = listA2 THEN listA ELSE c]
Line(h, d) == [headquarters |-> h, date |-> d]
OrderLines == <<{Line(FALSE, NoDate)}, {Line(TRUE, 1), Line(FALSE, 2)}>>
Stopped(o, f, d) == [ob |-> o, phase |-> f, days |-> d]
Lots == << {Stopped(1, 1, 3), Stopped(2, 1, 2), Stopped(3, 2, 1)}, {Stopped(1, 1, 1)} >>
Configs == << [threshold |-> 1 :> 1 @@ 2 :> 1, order |-> <<2>>, most |-> 2, tall |-> 1] >>
Planned(k, s) == [kind |-> k, step |-> s, window |-> FALSE]
Plans == {Planned("off", 1), Planned("interval", 3), Planned("daily", 4)}
Tiers == {[min |-> 1, wait |-> 2]}

Emitted == INSTANCE ReceitasEmitidas WITH
  Channel <- {"email"}, Content <- {listA, listB}, Kill <- TRUE, MaxFaults <- 2,
  Absent <- Absent, Torn <- Torn, NoHash <- NoHash, db <- emittedDb,
  state <- emittedState, tmp <- emittedTmp, file <- emittedFile, run <- emittedRun,
  got <- emittedGot, cut <- emittedCut, left <- emittedLeft
Blocked == INSTANCE ReceitasBloqueadas WITH
  Channel <- {"email", "whatsapp"}, Content <- Lists, Nothing <- none,
  View <- SameList, Run <- {1}, Overlap <- FALSE, MaxUnsure <- 1, MaxCrashes <- 1,
  MaxChanges <- 1, Absent <- Absent, Torn <- Torn, NoHash <- NoHash, db <- blockedDb,
  state <- blockedState, tmp <- blockedTmp, file <- blockedFile, run <- blockedRun,
  got <- blockedGot, told <- blockedTold, cut <- blockedCut,
  crashes <- blockedCrashes, changes <- blockedChanges
Orders == INSTANCE ObsAnuncio WITH
  Ob <- {1, 2}, Product <- {yarn}, ProductOf <- <<yarn, yarn>>, Total <- <<2, 1>>,
  Lines <- OrderLines, Reserves <- TRUE, Window <- 1, Rejections <- {}, Legacy <- {},
  MaxStock <- 3, MaxKills <- 0, MaxChanges <- 3, row <- ordersRow,
  state <- ordersState, tmp <- ordersTmp, pc <- ordersPc, told <- ordersTold,
  changes <- ordersChanges
Phases == INSTANCE ObsParadasFase WITH
  Lot <- Lots, Config <- Configs, Absent <- none, Kill <- TRUE, Reconfigure <- FALSE,
  LateQr <- TRUE, Drop <- TRUE, MaxAttempts <- 2, MaxFaults <- 2,
  state <- phasesState, tmp <- phasesTmp, file <- phasesFile, run <- phasesRun,
  sent <- phasesSent, told <- phasesTold, left <- phasesLeft
Bulk == INSTANCE WhatsAppDispatch WITH
  Mode <- "BATCH", Caption <- <<"phase1">>, MaxAttempts <- 2, LateReject <- FALSE,
  LateQr <- FALSE, Survives <- FALSE, att <- batchAtt, t <- batchT,
  watch <- batchWatch, started <- batchStarted, sent <- batchSent,
  consumed <- batchConsumed, file <- batchFile, code <- batchCode
Single == INSTANCE WhatsAppDispatch WITH
  Mode <- "AUTO", Caption <- <<"notice">>, MaxAttempts <- 2, LateReject <- FALSE,
  LateQr <- FALSE, Survives <- FALSE, att <- singleAtt, t <- singleT,
  watch <- singleWatch, started <- singleStarted, sent <- singleSent,
  consumed <- singleConsumed, file <- singleFile, code <- singleCode
Logs == INSTANCE LogStream WITH
  Viewer <- {v1}, Handler <- {h1, h2}, NoOne <- NoOne, MaxLines <- 1, MaxKept <- 2,
  MaxMessage <- 5, Unreliable <- FALSE, Held <- FALSE, Stops <- FALSE, row <- logsRow,
  lock <- logsLock
Alerts == INSTANCE AlertThrottle WITH
  Automation <- {a1, a2}, Threads <- {w1}, Tiers <- Tiers, MaxTracked <- 1,
  QueueBound <- 1, Faults <- FALSE, thread <- alertsThread, pool <- alertsPool,
  told <- alertsTold
Jobs == INSTANCE SchedulerReload WITH
  Auto <- {1}, Thread <- {"t1", "t2"}, Plan <- Plans, Day <- 4, Anchor <- 1,
  Window <- {0, 1}, Slow <- FALSE, Restarts <- FALSE, MaxChanges <- 1, Unset <- Unset,
  db <- jobsDb, thread <- jobsThread, changes <- jobsChanges
Schema == INSTANCE SchemaStart WITH
  Head <- 4, Steps <- <<2, 2, 1, 1>>, UniqueAt <- 3, Origins <- {"fresh", "upgraded"},
  Automation <- {a1}, CutUpgrade <- FALSE, MaxCrashes <- 1, NoTable <- NoTable,
  NoRow <- NoRow, version <- schemaVersion, pc <- schemaPc, crashes <- schemaCrashes
Server == INSTANCE McpServer WITH
  Sessions <- 2, PoolMax <- 1, PoolWindow <- 1, ConnWindow <- 1, SlowCancel <- FALSE,
  Foreign <- FALSE, MaxFaults <- 1, faults <- serverFaults, pool <- serverPool,
  req <- serverReq
Benef == INSTANCE BenefRefresh WITH
  Row <- {1}, KeyOf <- <<"k">>, HasNull <- {}, Negative <- {}, Absent <- Absent,
  Broken <- Broken, Job <- {"diario", "mensal"}, Post <- {}, Today <- {1}, NoOb <- {},
  Flaw <- {[missing |-> FALSE, limited |-> TRUE]}, Aging <- TRUE, Reading <- FALSE,
  MaxVersion <- 0, MaxFaults <- 1, file <- benefFile, run <- benefRun,
  version <- benefVersion, faults <- benefFaults
Requests == INSTANCE AutomationRegistry WITH
  Titles <- {t1}, CopyNames <- {}, Groups <- {g1}, Descs <- {d1}, Folders <- {f1},
  Reserved <- f2, OnWhatsApp <- {}, Losable <- {}, Legacy <- [v \in {} |-> v],
  OldRows <- {}, Refused <- Broken, Sessions <- {s1, s2},
  Ops <- {"create", "switch", "testall"}, MaxAuto <- 1, Slow <- TRUE, NoRow <- NoRow,
  NoManifest <- NoManifest, NoOne <- NoOne, row <- requestsRow, req <- requestsReq,
  lock <- requestsLock
Screen == INSTANCE DashboardPolling WITH
  Param <- {f1, f2}, Nothing <- none, Interval <- TRUE, SkipIfFresh <- FALSE,
  StaleCalls <- FALSE, Slow <- FALSE, Window <- 1, MaxVersion <- 2, MaxFaults <- 2,
  mounted <- screenMounted, param <- screenParam, effect <- screenEffect,
  data <- screenData, loading <- screenLoading, error <- screenError,
  flight <- screenFlight, wait <- screenWait, timer <- screenTimer,
  queued <- screenQueued, cache <- screenCache, server <- screenServer,
  left <- screenLeft
Shared == INSTANCE DashboardPolling WITH
  Param <- {f1, f2}, Nothing <- none, Interval <- TRUE, SkipIfFresh <- TRUE,
  StaleCalls <- FALSE, Slow <- FALSE, Window <- 1, MaxVersion <- 2, MaxFaults <- 2,
  mounted <- sharedMounted, param <- sharedParam, effect <- sharedEffect,
  data <- sharedData, loading <- sharedLoading, error <- sharedError,
  flight <- sharedFlight, wait <- sharedWait, timer <- sharedTimer,
  queued <- sharedQueued, cache <- sharedCache, server <- sharedServer,
  left <- sharedLeft

\* What each part takes for granted of its constants.
ASSUME PartsAssumption ==
  /\ Emitted!EmittedAssumption /\ Blocked!ContentAssumption
  /\ Orders!AllocationAssumption /\ Orders!AnuncioAssumption
  /\ Phases!PhaseAssumption /\ Bulk!DispatchAssumption /\ Single!DispatchAssumption
  /\ Logs!LogStreamAssumption /\ Alerts!TierAssumption /\ Jobs!PlanAssumption
  /\ Schema!SchemaAssumption /\ Server!McpAssumption /\ Benef!RowAssumption
  /\ Benef!RefreshAssumption /\ Requests!RegistryAssumption
  /\ Screen!PollingAssumption /\ Shared!PollingAssumption

Parts == {"emitted", "blocked", "orders", "phases", "batch", "single", "logs", "alerts", "jobs", "schema", "server", "benef", "requests", "screen", "shared"}

\* Each part begins where its program does; what the others might begin with is fixed.
EndingsInit ==
  /\ part \in Parts
  /\ Emitted!Init /\ (part # "emitted" => emittedDb = listA)
  /\ Blocked!Init /\ (part # "blocked" => recipients)
  /\ Orders!Init
  /\ Phases!Init /\ (part # "phases" => lot = 1)
  /\ Bulk!Init
  /\ Single!Init
  /\ Logs!Init
  /\ Alerts!Init
  /\ Jobs!Init /\ (part # "jobs" => \A x \in {1} : jobsDb[x].kind = "off")
  /\ Schema!Init /\ (part # "schema" => objs = {} /\ schemaVersion = NoTable)
  /\ Server!Init
  /\ Benef!Init
  /\ Requests!Init
  /\ Screen!Init /\ (part # "screen" => screenParam = f1)
  /\ Shared!Init /\ (part # "shared" => sharedParam = f1)

EndingsNext ==
  \/ part = "emitted" /\ Emitted!Next
     /\ UNCHANGED <<part, blockedVars, ordersVars, phasesVars, batchVars, singleVars,
                   logsVars, alertsVars, jobsVars, schemaVars, serverVars,
                   benefVars, requestsVars, screenVars, sharedVars>>
  \/ part = "blocked" /\ Blocked!Next
     /\ UNCHANGED <<part, emittedVars, ordersVars, phasesVars, batchVars, singleVars,
                   logsVars, alertsVars, jobsVars, schemaVars, serverVars,
                   benefVars, requestsVars, screenVars, sharedVars>>
  \/ part = "orders" /\ Orders!Next
     /\ UNCHANGED <<part, emittedVars, blockedVars, phasesVars, batchVars,
                   singleVars, logsVars, alertsVars, jobsVars, schemaVars,
                   serverVars, benefVars, requestsVars, screenVars, sharedVars>>
  \/ part = "phases" /\ Phases!Next
     /\ UNCHANGED <<part, emittedVars, blockedVars, ordersVars, batchVars,
                   singleVars, logsVars, alertsVars, jobsVars, schemaVars,
                   serverVars, benefVars, requestsVars, screenVars, sharedVars>>
  \/ part = "batch" /\ Bulk!Next
     /\ UNCHANGED <<part, emittedVars, blockedVars, ordersVars, phasesVars,
                   singleVars, logsVars, alertsVars, jobsVars, schemaVars,
                   serverVars, benefVars, requestsVars, screenVars, sharedVars>>
  \/ part = "single" /\ Single!Next
     /\ UNCHANGED <<part, emittedVars, blockedVars, ordersVars, phasesVars,
                   batchVars, logsVars, alertsVars, jobsVars, schemaVars,
                   serverVars, benefVars, requestsVars, screenVars, sharedVars>>
  \/ part = "logs" /\ Logs!Next
     /\ UNCHANGED <<part, emittedVars, blockedVars, ordersVars, phasesVars,
                   batchVars, singleVars, alertsVars, jobsVars, schemaVars,
                   serverVars, benefVars, requestsVars, screenVars, sharedVars>>
  \/ part = "alerts" /\ Alerts!Next
     /\ UNCHANGED <<part, emittedVars, blockedVars, ordersVars, phasesVars,
                   batchVars, singleVars, logsVars, jobsVars, schemaVars,
                   serverVars, benefVars, requestsVars, screenVars, sharedVars>>
  \/ part = "jobs" /\ Jobs!Next
     /\ UNCHANGED <<part, emittedVars, blockedVars, ordersVars, phasesVars,
                   batchVars, singleVars, logsVars, alertsVars, schemaVars,
                   serverVars, benefVars, requestsVars, screenVars, sharedVars>>
  \/ part = "schema" /\ Schema!Next
     /\ UNCHANGED <<part, emittedVars, blockedVars, ordersVars, phasesVars,
                   batchVars, singleVars, logsVars, alertsVars, jobsVars,
                   serverVars, benefVars, requestsVars, screenVars, sharedVars>>
  \/ part = "server" /\ Server!Next
     /\ UNCHANGED <<part, emittedVars, blockedVars, ordersVars, phasesVars,
                   batchVars, singleVars, logsVars, alertsVars, jobsVars,
                   schemaVars, benefVars, requestsVars, screenVars, sharedVars>>
  \/ part = "benef" /\ Benef!Next
     /\ UNCHANGED <<part, emittedVars, blockedVars, ordersVars, phasesVars,
                   batchVars, singleVars, logsVars, alertsVars, jobsVars,
                   schemaVars, serverVars, requestsVars, screenVars, sharedVars>>
  \/ part = "requests" /\ Requests!Next
     /\ UNCHANGED <<part, emittedVars, blockedVars, ordersVars, phasesVars,
                   batchVars, singleVars, logsVars, alertsVars, jobsVars,
                   schemaVars, serverVars, benefVars, screenVars, sharedVars>>
  \/ part = "screen" /\ Screen!Next
     /\ UNCHANGED <<part, emittedVars, blockedVars, ordersVars, phasesVars,
                   batchVars, singleVars, logsVars, alertsVars, jobsVars,
                   schemaVars, serverVars, benefVars, requestsVars, sharedVars>>
  \/ part = "shared" /\ Shared!Next
     /\ UNCHANGED <<part, emittedVars, blockedVars, ordersVars, phasesVars,
                   batchVars, singleVars, logsVars, alertsVars, jobsVars,
                   schemaVars, serverVars, benefVars, requestsVars, screenVars>>

EndingsSpec == EndingsInit /\ [][EndingsNext]_everything
-----------------------------------------------------------------------------
\* What has to happen happens: the content that stays is delivered and committed, the
\* end of a log is shown, alerts and interval jobs go on, the API serves again, a
\* network that is back is used, snapshots are renewed, requests end, and a screen that
\* stays, with a cache or without, shows what the server has.  Of the scheduler's reloads
\* two may overlap: an interval runs on once they do so no more.  An answer takes less
\* than the interval of its screen, and no job falls due within a reload.
EverythingEnds ==
  /\ part = "emitted" /\ Emitted!Fairness => Emitted!Committed
  /\ part = "blocked" /\ Blocked!Fairness => Blocked!CommitsEventually
  /\ part = "orders" /\ Orders!Fairness => Orders!AnnouncedEventually
  /\ part = "phases" /\ Phases!Fairness => Phases!Delivered
  /\ part = "batch" /\ Bulk!Fairness => Bulk!Exits
  /\ part = "single" /\ Single!Fairness => Single!Exits
  /\ part = "logs" /\ Logs!Fairness => Logs!EndShown
  /\ part = "alerts" /\ Alerts!Fairness => Alerts!KeepsAlerting
  /\ part = "jobs" /\ Jobs!Fairness => Jobs!IntervalFires
  /\ part = "schema" /\ Schema!Fairness => Schema!Starts
  /\ part = "server" /\ Server!Fairness => Server!Recovers
  /\ part = "benef" /\ Benef!Fairness => Benef!Refreshed
  /\ part = "requests" /\ Requests!Fairness => Requests!RequestsEnd
  /\ part = "screen" /\ Screen!Fairness => Screen!RefreshIsMade /\ Screen!Converges
  /\ part = "shared" /\ Shared!Fairness => Shared!RefreshIsMade /\ Shared!Converges
==============================================================================
