------------------------------ MODULE MCPortal -------------------------------
(*****************************************************************************)
(* What the portal shows and what it lets people change, side by side: the   *)
(* live refresh of the Beneficiamento, with the rows of one period, with     *)
(* flawed rows of both and with rows that change between two refreshes; what *)
(* the API reads from its history; the portfolio; schedules and their        *)
(* preview; the registration of automations, edited by two sessions, from    *)
(* rows of an earlier version, and beside the worker; the files people edit; *)
(* and the polling of a screen, alone and beside another that fills the same *)
(* cache. They share nothing that is modelled here, so a behaviour is of one *)
(* of them, `part`, and the others stay as they began.                       *)
(*****************************************************************************)
EXTENDS Integers, Sequences

CONSTANTS
  t1, c1, g1, g2, d1, d2, o1, o2, o3, f1, f2, s1, s2,
  dotenv, sealed, secret, port, v1, v2,
  Absent, Broken, None, Bad, Refused, Mask, Cut, NoRow, NoManifest, NoOne

\* The part a behaviour is of, and the state of each.
VARIABLES
  part,
  benefOracle, benefHist, benefFile, benefOld, benefRun, benefJunk, benefView,
  benefVersion, benefFaults,
  healthOracle, healthHist, healthFile, healthOld, healthRun, healthJunk, healthView,
  healthVersion, healthFaults,
  twiceOracle, twiceHist, twiceFile, twiceOld, twiceRun, twiceJunk, twiceView,
  twiceVersion, twiceFaults,
  readsHist, readsReq, seen, calm, writes,
  catalogueAuto, catalogueJob, catalogueManifest, catalogueRuns, catalogueNow,
  termsAuto, termsJob, termsManifest, termsRuns, termsNow,
  lateAuto, lateJob, lateManifest, lateRuns, lateNow,
  stored, jobs, shown, plansNow,
  editsRow, editsDisk, editsExec, editsProc, editsClaim, editsReq, editsLock,
  editsEnv, editsSync, editsMoved, editsRefused,
  datedRow, datedDisk, datedExec, datedProc, datedClaim, datedReq, datedLock,
  datedEnv, datedSync, datedMoved, datedRefused,
  servedRow, servedDisk, servedExec, servedProc, servedClaim, servedReq, servedLock,
  servedEnv, servedSync, servedMoved, servedRefused,
  filesFile, backup, audited, past, filesView, put, filesLeft,
  screenMounted, screenParam, screenEffect, screenData, screenLoading, screenError,
  screenFlight, screenWait, screenTimer, screenQueued, screenCache, screenServer,
  screenLeft,
  sharedMounted, sharedParam, sharedEffect, sharedData, sharedLoading, sharedError,
  sharedFlight, sharedWait, sharedTimer, sharedQueued, sharedCache, sharedServer,
  sharedLeft

benefVars == <<benefOracle, benefHist, benefFile, benefOld, benefRun, benefJunk,
  benefView, benefVersion, benefFaults>>
healthVars == <<healthOracle, healthHist, healthFile, healthOld, healthRun, healthJunk,
  healthView, healthVersion, healthFaults>>
twiceVars == <<twiceOracle, twiceHist, twiceFile, twiceOld, twiceRun, twiceJunk,
  twiceView, twiceVersion, twiceFaults>>
readsVars == <<readsHist, readsReq, seen, calm, writes>>
catalogueVars == <<catalogueAuto, catalogueJob, catalogueManifest, catalogueRuns,
  catalogueNow>>
termsVars == <<termsAuto, termsJob, termsManifest, termsRuns, termsNow>>
lateVars == <<lateAuto, lateJob, lateManifest, lateRuns, lateNow>>
plansVars == <<stored, jobs, shown, plansNow>>
editsVars == <<editsRow, editsDisk, editsExec, editsProc, editsClaim, editsReq,
  editsLock, editsEnv, editsSync, editsMoved, editsRefused>>
datedVars == <<datedRow, datedDisk, datedExec, datedProc, datedClaim, datedReq,
  datedLock, datedEnv, datedSync, datedMoved, datedRefused>>
servedVars == <<servedRow, servedDisk, servedExec, servedProc, servedClaim, servedReq,
  servedLock, servedEnv, servedSync, servedMoved, servedRefused>>
filesVars == <<filesFile, backup, audited, past, filesView, put, filesLeft>>
screenVars == <<screenMounted, screenParam, screenEffect, screenData, screenLoading,
  screenError, screenFlight, screenWait, screenTimer, screenQueued,
  screenCache, screenServer, screenLeft>>
sharedVars == <<sharedMounted, sharedParam, sharedEffect, sharedData, sharedLoading,
  sharedError, sharedFlight, sharedWait, sharedTimer, sharedQueued,
  sharedCache, sharedServer, sharedLeft>>
everything == <<part, benefVars, healthVars, twiceVars, readsVars, catalogueVars, termsVars,
  lateVars, plansVars, editsVars, datedVars, servedVars, filesVars, screenVars,
  sharedVars>>

\* Days of four minutes, months of four and five days: plans of every type, with what the
\* API refuses of it, those whose preview and jobs part, and old rows that need every
\* fallback.
Blank(type) ==
  [type |-> type, times |-> None, days |-> None, mdays |-> None, step |-> None,
   from |-> None, till |-> None, anchor |-> None, at |-> None, cron |-> None]

Daily == [Blank("daily") EXCEPT !.times = {0, 2}]
Weekly == [Blank("weekly") EXCEPT !.times = {1, 3}, !.days = {0, 2}]
Monthly == [Blank("monthly") EXCEPT !.times = {2}, !.mdays = {1, 5}]
Cron == [Blank("cron") EXCEPT
  !.cron = <<[days |-> {0, 3}, slot |-> 1], [days |-> {3, 4}, slot |-> 1], [days |-> {6}, slot |-> 3]>>]
Shift == [Blank("interval") EXCEPT !.step = 2, !.from = 1, !.till = 3, !.days = {1, 2, 5}]

Forms ==
  {Daily, Weekly, Monthly, Cron, Shift, Blank("manual"),
   [Blank("legacy") EXCEPT !.times = {3}, !.days = {}],
   [Shift EXCEPT !.step = 1, !.days = None],
   [Shift EXCEPT !.from = 3, !.till = 1], [Weekly EXCEPT !.days = {}],
   [Monthly EXCEPT !.mdays = Bad], [Shift EXCEPT !.step = Bad], Blank("hourly"),
   [Cron EXCEPT !.cron[2] = Bad], [Shift EXCEPT !.step = 3], [Shift EXCEPT !.days = {}],
   [Shift EXCEPT !.anchor = 3], [Blank("interval") EXCEPT !.step = 2],
   [Blank("interval") EXCEPT !.step = 2, !.anchor = 2]}
  \cup {[Blank("once") EXCEPT !.at = [form |-> f, time |-> 6]] : f \in {"iso", "br", "utc"}}

Crooked ==
  {Blank("daily"), [Weekly EXCEPT !.days = Bad], [Monthly EXCEPT !.times = {}, !.mdays = {}],
   Blank("cron"), Blank("legacy"), Blank("hourly"),
   [Shift EXCEPT !.from = 3, !.till = 1, !.step = 1, !.days = Bad]}

\* What an earlier version stored of a registration: a group, a schedule, and a schedule
\* that cannot be read any more.
OldForms == [v \in {o1, o2, o3} |-> IF v = o1 THEN g1 ELSE IF v = o2 THEN d1 ELSE Refused]
Registered(group, desc) ==
  [name |-> t1, group |-> group, desc |-> desc, enabled |-> TRUE, test |-> FALSE, folder |-> f1]

\* A query with all its columns, or without one and without call_timeout.
Answered(m, l) == [missing |-> m, limited |-> l]

Benef == INSTANCE BenefRefresh WITH
  Job <- {"diario"}, Post <- {"post"}, Today <- {1, 2}, Negative <- {1}, NoOb <- {2},
  Flaw <- {Answered(FALSE, TRUE)}, Aging <- FALSE, MaxVersion <- 1, MaxFaults <- 1,
  Row <- {1, 2}, HasNull <- {}, KeyOf <- <<"k", "k">>, Absent <- Absent,
  Broken <- Broken, Reading <- FALSE, oracle <- benefOracle, hist <- benefHist,
  file <- benefFile, old <- benefOld, run <- benefRun, junk <- benefJunk,
  view <- benefView, version <- benefVersion, faults <- benefFaults
Health == INSTANCE BenefRefresh WITH
  Job <- {}, Post <- {"post"}, Today <- {1}, Negative <- {1}, NoOb <- {1},
  Flaw <- {Answered(FALSE, TRUE), Answered(TRUE, FALSE)}, Aging <- TRUE,
  MaxVersion <- 1, MaxFaults <- 0, Row <- {1}, HasNull <- {}, KeyOf <- <<"k">>,
  Absent <- Absent, Broken <- Broken, Reading <- FALSE, oracle <- healthOracle,
  hist <- healthHist, file <- healthFile, old <- healthOld, run <- healthRun,
  junk <- healthJunk, view <- healthView, version <- healthVersion,
  faults <- healthFaults
Twice == INSTANCE BenefRefresh WITH
  Job <- {"diario"}, Post <- {"post"}, Today <- {1}, Negative <- {}, NoOb <- {},
  Flaw <- {Answered(FALSE, TRUE)}, Aging <- FALSE, MaxVersion <- 2, MaxFaults <- 0,
  Row <- {1}, HasNull <- {}, KeyOf <- <<"k">>, Absent <- Absent, Broken <- Broken,
  Reading <- FALSE, oracle <- twiceOracle, hist <- twiceHist, file <- twiceFile,
  old <- twiceOld, run <- twiceRun, junk <- twiceJunk, view <- twiceView,
  version <- twiceVersion, faults <- twiceFaults
Reads == INSTANCE BenefReads WITH
  Row <- {1, 2, 3}, Dyed <- {1, 2}, Coded <- {1, 2, 3}, Day <- {1, 2, 3},
  Kg <- {1, 2}, Late <- {0}, Span <- 2, DayLimit <- 1, KgLimit <- 2, TopLimit <- 1,
  RankLimit <- 2, OptionLimit <- 3, PageLimit <- 1, Absent <- Absent, MaxWrites <- 1,
  None <- None, hist <- readsHist, req <- readsReq
Catalogue == INSTANCE Portfolio WITH
  Auto <- {1, 2}, Manifest <- {"m"}, Script <- {"s", "t"}, Critical <- {}, Sla <- 0,
  Day <- 1, Month <- 2, Period <- 1, MaxRuns <- 0, MaxTime <- 0, None <- None,
  auto <- catalogueAuto, job <- catalogueJob, manifest <- catalogueManifest,
  runs <- catalogueRuns, now <- catalogueNow
Terms == INSTANCE Portfolio WITH
  Auto <- {1}, Manifest <- {"m"}, Script <- {"s"}, Critical <- {"m"}, Sla <- 1,
  Day <- 1, Month <- 3, Period <- 1, MaxRuns <- 1, MaxTime <- 3, None <- None,
  auto <- termsAuto, job <- termsJob, manifest <- termsManifest, runs <- termsRuns,
  now <- termsNow
Late == INSTANCE Portfolio WITH
  Auto <- {1}, Manifest <- {}, Script <- {"s"}, Critical <- {}, Sla <- 1, Day <- 1,
  Month <- 2, Period <- 1, MaxRuns <- 2, MaxTime <- 2, None <- None, auto <- lateAuto,
  job <- lateJob, manifest <- lateManifest, runs <- lateRuns, now <- lateNow
Plans == INSTANCE ScheduleRuns WITH
  Day <- 4, Eight <- 1, Hour <- 2, Months <- <<4, 5>>, Look <- 10, Count <- 3,
  Offset <- 1, Bad <- Bad, Refused <- Refused, Form <- Forms, OldRow <- Crooked,
  LastMinute <- 36, None <- None, now <- plansNow
Edits == INSTANCE AutomationRegistry WITH
  CopyNames <- {}, Groups <- {g1, g2}, Descs <- {d1}, OnWhatsApp <- {}, Losable <- {},
  OldRows <- {}, Sessions <- {s1, s2},
  Ops <- {"create", "patch", "switch", "delete", "edit"}, MaxAuto <- 1,
  Legacy <- OldForms, Refused <- Refused, Titles <- {t1}, Folders <- {f1},
  Reserved <- f2, Slow <- FALSE, NoRow <- NoRow, NoManifest <- NoManifest,
  NoOne <- NoOne, row <- editsRow, disk <- editsDisk, exec <- editsExec,
  proc <- editsProc, claim <- editsClaim, req <- editsReq, lock <- editsLock,
  env <- editsEnv, sync <- editsSync, moved <- editsMoved, refused <- editsRefused
Dated == INSTANCE AutomationRegistry WITH
  CopyNames <- {}, Groups <- {g1}, Descs <- {d1, d2}, OnWhatsApp <- {}, Losable <- {},
  OldRows <- {Registered(g1, d1), Registered(o1, d1), Registered(g1, o2), Registered(g1, o3)},
  Sessions <- {s1, s2}, Ops <- {"patch", "switch"}, MaxAuto <- 1, Legacy <- OldForms,
  Refused <- Refused, Titles <- {t1}, Folders <- {f1}, Reserved <- f2, Slow <- FALSE,
  NoRow <- NoRow, NoManifest <- NoManifest, NoOne <- NoOne, row <- datedRow,
  disk <- datedDisk, exec <- datedExec, proc <- datedProc, claim <- datedClaim,
  req <- datedReq, lock <- datedLock, env <- datedEnv, sync <- datedSync,
  moved <- datedMoved, refused <- datedRefused
Served == INSTANCE AutomationRegistry WITH
  CopyNames <- {c1}, Groups <- {g1, g2}, Descs <- {d1}, OnWhatsApp <- {f1},
  Losable <- {"config"}, OldRows <- {}, Sessions <- {s1},
  Ops <- {"create", "patch", "clone", "delete", "start", "edit"}, MaxAuto <- 2,
  Legacy <- OldForms, Refused <- Refused, Titles <- {t1}, Folders <- {f1},
  Reserved <- f2, Slow <- FALSE, NoRow <- NoRow, NoManifest <- NoManifest,
  NoOne <- NoOne, row <- servedRow, disk <- servedDisk, exec <- servedExec,
  proc <- servedProc, claim <- servedClaim, req <- servedReq, lock <- servedLock,
  env <- servedEnv, sync <- servedSync, moved <- servedMoved, refused <- servedRefused
Files == INSTANCE ManagedFiles WITH
  Env <- {dotenv}, Config <- {}, Script <- {}, Sealed <- {sealed},
  Keys <- {secret, port}, Secrets <- {secret}, Values <- {v1, v2}, Clients <- {s1},
  Mask <- Mask, Absent <- Absent, Cut <- Cut, MaxPuts <- 2, Overlap <- FALSE,
  Faults <- TRUE, file <- filesFile, view <- filesView, left <- filesLeft
Screen == INSTANCE DashboardPolling WITH
  Param <- {g1, g2}, Interval <- TRUE, SkipIfFresh <- FALSE, Nothing <- None,
  StaleCalls <- FALSE, Slow <- TRUE, Window <- 2, MaxVersion <- 2, MaxFaults <- 3,
  mounted <- screenMounted, param <- screenParam, effect <- screenEffect,
  data <- screenData, loading <- screenLoading, error <- screenError,
  flight <- screenFlight, wait <- screenWait, timer <- screenTimer,
  queued <- screenQueued, cache <- screenCache, server <- screenServer,
  left <- screenLeft
Shared == INSTANCE DashboardPolling WITH
  Param <- {g1}, Interval <- FALSE, SkipIfFresh <- TRUE, Nothing <- None,
  StaleCalls <- FALSE, Slow <- TRUE, Window <- 2, MaxVersion <- 2, MaxFaults <- 3,
  mounted <- sharedMounted, param <- sharedParam, effect <- sharedEffect,
  data <- sharedData, loading <- sharedLoading, error <- sharedError,
  flight <- sharedFlight, wait <- sharedWait, timer <- sharedTimer,
  queued <- sharedQueued, cache <- sharedCache, server <- sharedServer,
  left <- sharedLeft

\* What each part takes for granted of its constants.
ASSUME PartsAssumption ==
  /\ Benef!RowAssumption /\ Benef!RefreshAssumption /\ Health!RowAssumption
  /\ Health!RefreshAssumption /\ Twice!RowAssumption /\ Twice!RefreshAssumption
  /\ Reads!ReadsAssumption /\ Catalogue!PortfolioAssumption
  /\ Terms!PortfolioAssumption /\ Late!PortfolioAssumption
  /\ Plans!CalendarAssumption /\ Edits!RegistryAssumption /\ Dated!RegistryAssumption
  /\ Served!RegistryAssumption /\ Files!FilesAssumption /\ Screen!PollingAssumption
  /\ Shared!PollingAssumption

Parts == {"benef", "health", "twice", "reads", "catalogue", "terms", "late", "plans", "edits", "dated", "served", "files", "screen", "shared"}

\* Each part begins where its program does; what the others might begin with is fixed.
PortalInit ==
  /\ part \in Parts
  /\ Benef!Init
  /\ Health!Init
  /\ Twice!Init
  /\ Reads!Init
  /\ Catalogue!Init
  /\ Terms!Init
  /\ Late!Init
  /\ Plans!Init /\ (part # "plans" => stored = Blank("hourly"))
  /\ Edits!Init /\ (part # "edits" => editsDisk = [f \in {f1} |-> [files |-> {"script", "docs", "config"}, manifest |-> [name |-> t1, group |-> g1]]])
  /\ Dated!Init /\ (part # "dated" => datedDisk = [f \in {f1} |-> [files |-> {"script", "docs", "config"}, manifest |-> [name |-> t1, group |-> g1]]] /\ datedRow = [a \in {1} |-> NoRow])
  /\ Served!Init /\ (part # "served" => servedDisk = [f \in {f1} |-> [files |-> {"script", "docs", "config"}, manifest |-> [name |-> t1, group |-> g1]]])
  /\ Files!Init /\ (part # "files" => filesFile \in [{dotenv, sealed} -> {[k \in {secret, port} |-> v1]}])
  /\ Screen!Init
  /\ Shared!Init

PortalNext ==
  \/ part = "benef" /\ Benef!Next
     /\ UNCHANGED <<part, healthVars, twiceVars, readsVars, catalogueVars, termsVars,
                   lateVars, plansVars, editsVars, datedVars, servedVars, filesVars,
                   screenVars, sharedVars>>
  \/ part = "health" /\ Health!Next
     /\ UNCHANGED <<part, benefVars, twiceVars, readsVars, catalogueVars, termsVars,
                   lateVars, plansVars, editsVars, datedVars, servedVars, filesVars,
                   screenVars, sharedVars>>
  \/ part = "twice" /\ Twice!Next
     /\ UNCHANGED <<part, benefVars, healthVars, readsVars, catalogueVars, termsVars,
                   lateVars, plansVars, editsVars, datedVars, servedVars, filesVars,
                   screenVars, sharedVars>>
  \/ part = "reads" /\ Reads!Next
     /\ UNCHANGED <<part, benefVars, healthVars, twiceVars, catalogueVars, termsVars,
                   lateVars, plansVars, editsVars, datedVars, servedVars, filesVars,
                   screenVars, sharedVars>>
  \/ part = "catalogue" /\ Catalogue!Next
     /\ UNCHANGED <<part, benefVars, healthVars, twiceVars, readsVars, termsVars,
                   lateVars, plansVars, editsVars, datedVars, servedVars, filesVars,
                   screenVars, sharedVars>>
  \/ part = "terms" /\ Terms!Next
     /\ UNCHANGED <<part, benefVars, healthVars, twiceVars, readsVars, catalogueVars,
                   lateVars, plansVars, editsVars, datedVars, servedVars, filesVars,
                   screenVars, sharedVars>>
  \/ part = "late" /\ Late!Next
     /\ UNCHANGED <<part, benefVars, healthVars, twiceVars, readsVars, catalogueVars,
                   termsVars, plansVars, editsVars, datedVars, servedVars,
                   filesVars, screenVars, sharedVars>>
  \/ part = "plans" /\ Plans!Next
     /\ UNCHANGED <<part, benefVars, healthVars, twiceVars, readsVars, catalogueVars,
                   termsVars, lateVars, editsVars, datedVars, servedVars, filesVars,
                   screenVars, sharedVars>>
  \/ part = "edits" /\ Edits!Next
     /\ UNCHANGED <<part, benefVars, healthVars, twiceVars, readsVars, catalogueVars,
                   termsVars, lateVars, plansVars, datedVars, servedVars, filesVars,
                   screenVars, sharedVars>>
  \/ part = "dated" /\ Dated!Next
     /\ UNCHANGED <<part, benefVars, healthVars, twiceVars, readsVars, catalogueVars,
                   termsVars, lateVars, plansVars, editsVars, servedVars, filesVars,
                   screenVars, sharedVars>>
  \/ part = "served" /\ Served!Next
     /\ UNCHANGED <<part, benefVars, healthVars, twiceVars, readsVars, catalogueVars,
                   termsVars, lateVars, plansVars, editsVars, datedVars, filesVars,
                   screenVars, sharedVars>>
  \/ part = "files" /\ Files!Next
     /\ UNCHANGED <<part, benefVars, healthVars, twiceVars, readsVars, catalogueVars,
                   termsVars, lateVars, plansVars, editsVars, datedVars, servedVars,
                   screenVars, sharedVars>>
  \/ part = "screen" /\ Screen!Next
     /\ UNCHANGED <<part, benefVars, healthVars, twiceVars, readsVars, catalogueVars,
                   termsVars, lateVars, plansVars, editsVars, datedVars, servedVars,
                   filesVars, sharedVars>>
  \/ part = "shared" /\ Shared!Next
     /\ UNCHANGED <<part, benefVars, healthVars, twiceVars, readsVars, catalogueVars,
                   termsVars, lateVars, plansVars, editsVars, datedVars, servedVars,
                   filesVars, screenVars>>

PortalSpec == PortalInit /\ [][PortalNext]_everything
-----------------------------------------------------------------------------
\* Snapshots are whole and what they say was saved is saved, while a job and a POST
\* refresh the same periods, fail and are killed; a failed write of the history is told
\* before everything else, and the runner, the cause of a period and the state of all
\* periods agree, whatever one refresh after another has left.
SnapshotsAreSound ==
  /\ Benef!TypeOK /\ Health!TypeOK /\ Twice!TypeOK
  /\ part = "benef" => /\ Benef!NeverTorn /\ Benef!SnapshotInHistory
                       /\ Benef!FailureShown /\ Benef!StatusAgrees
  /\ part = "health" => Health!StatusAgrees /\ Health!NeverOpaque

\* The blocks of one answer speak of one state of the history, the default window ends
\* on its last day, pages list every row once and a click opens what was clicked,
\* while the runner goes on writing: its first rows arrive between two of the reads, and
\* nothing after them (one write, into an empty history).  A screen at rest shows what
\* its parameters ask for, whatever answers came late, and leaves nothing behind when it
\* goes.
AnswersAgree ==
  /\ Reads!TypeOK /\ Reads!BlocksAgree /\ Reads!DefaultWindow
  /\ Reads!PagesComplete /\ Reads!ClickedIsFound
  /\ Screen!TypeOK /\ Screen!RestIsCurrent /\ Screen!GoneIsGone
  /\ Shared!TypeOK /\ Shared!RestIsCurrent /\ Shared!GoneIsGone

\* Every automation is in the portfolio, what fails shows and what is healthy is
\* consistent, and a breach has a cause that still stands.
PortfolioIsTrue ==
  /\ Catalogue!TypeOK /\ Terms!TypeOK /\ Late!TypeOK
  /\ part = "catalogue" => Catalogue!EverythingShown
  /\ part = "terms" => Terms!HealthyIsConsistent /\ Terms!FailureShows
  /\ part = "late" => Late!EverythingShown /\ Late!FailureShows /\ Late!BreachStands


\* While one request is served at a time, no content of a managed file is overwritten
\* without a copy, though the request fails or dies between the copy and the write, and no
\* process outlives its row; and a group runs alone unless somebody moved an automation
\* into it.
NothingIsLost ==
  /\ Files!TypeOK /\ Files!Recoverable
  /\ Edits!TypeOK /\ Dated!TypeOK /\ Served!TypeOK
  /\ Served!ProcessHasRow /\ Served!AloneUnlessMoved

==============================================================================
