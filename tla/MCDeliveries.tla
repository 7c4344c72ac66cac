---------------------------- MODULE MCDeliveries -----------------------------
(*****************************************************************************)
(* The automations that deliver, side by side. Each keeps a cache of what it *)
(* read, a provisional one until the run is over, and a delivery state: the  *)
(* recipes issued, the blocked recipes, the errors of outsourced assembly,   *)
(* the orders announced to the shops (with reservations, with refused lines, *)
(* and with plain marks), the orders that stopped in a phase, and the layout *)
(* of the recipes' report. Below them all, the process that sends to         *)
(* WhatsApp, a batch or a single message. They share nothing, so a behaviour *)
(* is of one of them, `part`, and the others stay as they began. The         *)
(* definitions that deliveries.cfg gives as values are at the end.           *)
(*****************************************************************************)
EXTENDS Integers, Sequences, TLC

CONSTANTS
  Absent, Torn, NoHash, Contents, EmittedFaults,
  Lists, none, Compared, BlockedUnsure, BlockedCrashes, BlockedChanges,
  Batches, Interval, Attempts, Days, AssemblyCrashes, AssemblyChanges,
  Ob, Product, ProductOf, Pieces, Lines, NoDate, Window,
  OldOrders, OrderStock, OrderKills, OrderChanges,
  Refusals, RefusedStock, RefusedChanges, OldMarks, MarkStock, MarkKills, MarkChanges,
  Lots, Configs, PhaseTries, PhaseFaults, Captions, Notice, Sends

\* The part a behaviour is of, and the state of each.
VARIABLES
  part,
  emittedDb, emittedState, emittedTmp, emittedFile, emittedRun, emittedGot, mailed,
  emittedCut, emittedLeft,
  blockedDb, blockedState, blockedTmp, html, blockedFile, recipients, blockedRun,
  blockedGot, blockedTold, blockedCut, unsure, blockedCrashes, blockedChanges,
  rows, cache, assemblyTmp, assemblyFile, clock, assemblyRun, assemblyTold, reminded,
  assemblyCut, assemblyCrashes, assemblyChanges,
  ordersRow, ordersStock, ordersSpare, ordersState, ordersTmp, ordersPc,
  ordersMessage, ordersTold, ordersKills, ordersChanges,
  refusedRow, refusedStock, refusedSpare, refusedState, refusedTmp, refusedPc,
  refusedMessage, refusedTold, refusedKills, refusedChanges,
  marksRow, marksStock, marksSpare, marksState, marksTmp, marksPc, marksMessage,
  marksTold, marksKills, marksChanges,
  lot, cfg, phasesState, phasesTmp, phasesFile, batch, phasesRun, phasesSent,
  phasesTold, phasesLeft,
  batchAtt, batchT, batchWatch, batchStarted, batchSent, batchConsumed, batchFile,
  batchCode,
  singleAtt, singleT, singleWatch, singleStarted, singleSent, singleConsumed,
  singleFile, singleCode,
  data

emittedVars == <<emittedDb, emittedState, emittedTmp, emittedFile, emittedRun,
  emittedGot, mailed, emittedCut, emittedLeft>>
blockedVars == <<blockedDb, blockedState, blockedTmp, html, blockedFile, recipients,
  blockedRun, blockedGot, blockedTold, blockedCut, unsure, blockedCrashes,
  blockedChanges>>
assemblyVars == <<rows, cache, assemblyTmp, assemblyFile, clock, assemblyRun,
  assemblyTold, reminded, assemblyCut, assemblyCrashes, assemblyChanges>>
ordersVars == <<ordersRow, ordersStock, ordersSpare, ordersState, ordersTmp, ordersPc,
  ordersMessage, ordersTold, ordersKills, ordersChanges>>
refusedVars == <<refusedRow, refusedStock, refusedSpare, refusedState, refusedTmp,
  refusedPc, refusedMessage, refusedTold, refusedKills, refusedChanges>>
marksVars == <<marksRow, marksStock, marksSpare, marksState, marksTmp, marksPc,
  marksMessage, marksTold, marksKills, marksChanges>>
phasesVars == <<lot, cfg, phasesState, phasesTmp, phasesFile, batch, phasesRun,
  phasesSent, phasesTold, phasesLeft>>
batchVars == <<batchAtt, batchT, batchWatch, batchStarted, batchSent, batchConsumed,
  batchFile, batchCode>>
singleVars == <<singleAtt, singleT, singleWatch, singleStarted, singleSent,
  singleConsumed, singleFile, singleCode>>
reportVars == <<data>>
everything == <<part, emittedVars, blockedVars, assemblyVars, ordersVars, refusedVars,
  marksVars, phasesVars, batchVars, singleVars, reportVars>>

Emitted == INSTANCE ReceitasEmitidas WITH
  Channel <- {"email"}, Content <- Contents, Kill <- TRUE, MaxFaults <- EmittedFaults,
  db <- emittedDb, state <- emittedState, tmp <- emittedTmp, file <- emittedFile,
  run <- emittedRun, got <- emittedGot, cut <- emittedCut, left <- emittedLeft
Blocked == INSTANCE ReceitasBloqueadas WITH
  Channel <- {"email", "whatsapp"}, Content <- Lists, Nothing <- none,
  View <- Compared, Run <- {1}, Overlap <- FALSE, MaxUnsure <- BlockedUnsure,
  MaxCrashes <- BlockedCrashes, MaxChanges <- BlockedChanges, db <- blockedDb,
  state <- blockedState, tmp <- blockedTmp, file <- blockedFile, run <- blockedRun,
  got <- blockedGot, told <- blockedTold, cut <- blockedCut,
  crashes <- blockedCrashes, changes <- blockedChanges
Assembly == INSTANCE MontagemTerceirizados WITH
  Channel <- {"email"}, Row <- Batches, MaxTime <- Days,
  MaxCrashes <- AssemblyCrashes, MaxChanges <- AssemblyChanges, tmp <- assemblyTmp,
  file <- assemblyFile, run <- assemblyRun, told <- assemblyTold, cut <- assemblyCut,
  crashes <- assemblyCrashes, changes <- assemblyChanges
Orders == INSTANCE ObsAnuncio_proofs WITH
  Reserves <- TRUE, Total <- Pieces, Rejections <- {}, Legacy <- OldOrders,
  MaxStock <- OrderStock, MaxKills <- OrderKills, MaxChanges <- OrderChanges,
  row <- ordersRow, stock <- ordersStock, spare <- ordersSpare, state <- ordersState,
  tmp <- ordersTmp, pc <- ordersPc, message <- ordersMessage, told <- ordersTold,
  kills <- ordersKills, changes <- ordersChanges
Refused == INSTANCE ObsAnuncio_proofs WITH
  Reserves <- TRUE, Total <- Pieces, Rejections <- Refusals, Legacy <- {},
  MaxStock <- RefusedStock, MaxKills <- 0, MaxChanges <- RefusedChanges,
  row <- refusedRow, stock <- refusedStock, spare <- refusedSpare,
  state <- refusedState, tmp <- refusedTmp, pc <- refusedPc,
  message <- refusedMessage, told <- refusedTold, kills <- refusedKills,
  changes <- refusedChanges
Marks == INSTANCE ObsAnuncio_proofs WITH
  Reserves <- FALSE, Total <- Pieces, Rejections <- {}, Legacy <- OldMarks,
  MaxStock <- MarkStock, MaxKills <- MarkKills, MaxChanges <- MarkChanges,
  row <- marksRow, stock <- marksStock, spare <- marksSpare, state <- marksState,
  tmp <- marksTmp, pc <- marksPc, message <- marksMessage, told <- marksTold,
  kills <- marksKills, changes <- marksChanges
Phases == INSTANCE ObsParadasFase WITH
  Lot <- Lots, Config <- Configs, Kill <- TRUE, Reconfigure <- FALSE, LateQr <- TRUE,
  Drop <- TRUE, MaxAttempts <- PhaseTries, MaxFaults <- PhaseFaults,
  state <- phasesState, tmp <- phasesTmp, file <- phasesFile, run <- phasesRun,
  sent <- phasesSent, told <- phasesTold, left <- phasesLeft
Bulk == INSTANCE WhatsAppDispatch_proofs WITH
  Mode <- "BATCH", Caption <- Captions, MaxAttempts <- Sends, LateReject <- FALSE,
  LateQr <- FALSE, Survives <- FALSE, att <- batchAtt, t <- batchT,
  watch <- batchWatch, started <- batchStarted, sent <- batchSent,
  consumed <- batchConsumed, file <- batchFile, code <- batchCode
Single == INSTANCE WhatsAppDispatch_proofs WITH
  Mode <- "AUTO", Caption <- Notice, MaxAttempts <- Sends, LateReject <- FALSE,
  LateQr <- FALSE, Survives <- FALSE, att <- singleAtt, t <- singleT,
  watch <- singleWatch, started <- singleStarted, sent <- singleSent,
  consumed <- singleConsumed, file <- singleFile, code <- singleCode
Report == INSTANCE ReceitasReport WITH
  Ob <- {1}, Machine <- {1, 2, 3, 4}, Group <- {1}, WideScore <- 20, WideMachine <- 5,
  WideCount <- 4

\* What each part takes for granted of its constants.
ASSUME PartsAssumption ==
  /\ Emitted!EmittedAssumption /\ Blocked!ContentAssumption
  /\ Assembly!MontagemAssumption /\ Orders!AllocationAssumption
  /\ Orders!AnuncioAssumption /\ Refused!AllocationAssumption
  /\ Refused!AnuncioAssumption /\ Marks!AllocationAssumption
  /\ Marks!AnuncioAssumption /\ Phases!PhaseAssumption /\ Bulk!DispatchAssumption
  /\ Single!DispatchAssumption /\ Report!ReportAssumption

Parts == {"emitted", "blocked", "assembly", "orders", "refused", "marks", "phases", "batch", "single", "report"}

\* Each part begins where its program does; what the others might begin with is fixed.
AllInit ==
  /\ part \in Parts
  /\ Emitted!Init /\ (part # "emitted" => emittedDb = CHOOSE c \in Contents : TRUE)
  /\ Blocked!Init /\ (part # "blocked" => recipients)
  /\ Assembly!Init
  /\ Orders!Init
  /\ Refused!Init
  /\ Marks!Init
  /\ Phases!Init /\ (part # "phases" => lot = 1)
  /\ Bulk!Init
  /\ Single!Init
  /\ Report!Init

AllNext ==
  \/ part = "emitted" /\ Emitted!Next
     /\ UNCHANGED <<part, blockedVars, assemblyVars, ordersVars, refusedVars,
                   marksVars, phasesVars, batchVars, singleVars, reportVars>>
  \/ part = "blocked" /\ Blocked!Next
     /\ UNCHANGED <<part, emittedVars, assemblyVars, ordersVars, refusedVars,
                   marksVars, phasesVars, batchVars, singleVars, reportVars>>
  \/ part = "assembly" /\ Assembly!Next
     /\ UNCHANGED <<part, emittedVars, blockedVars, ordersVars, refusedVars,
                   marksVars, phasesVars, batchVars, singleVars, reportVars>>
  \/ part = "orders" /\ Orders!Next
     /\ UNCHANGED <<part, emittedVars, blockedVars, assemblyVars, refusedVars,
                   marksVars, phasesVars, batchVars, singleVars, reportVars>>
  \/ part = "refused" /\ Refused!Next
     /\ UNCHANGED <<part, emittedVars, blockedVars, assemblyVars, ordersVars,
                   marksVars, phasesVars, batchVars, singleVars, reportVars>>
  \/ part = "marks" /\ Marks!Next
     /\ UNCHANGED <<part, emittedVars, blockedVars, assemblyVars, ordersVars,
                   refusedVars, phasesVars, batchVars, singleVars, reportVars>>
  \/ part = "phases" /\ Phases!Next
     /\ UNCHANGED <<part, emittedVars, blockedVars, assemblyVars, ordersVars,
                   refusedVars, marksVars, batchVars, singleVars, reportVars>>
  \/ part = "batch" /\ Bulk!Next
     /\ UNCHANGED <<part, emittedVars, blockedVars, assemblyVars, ordersVars,
                   refusedVars, marksVars, phasesVars, singleVars, reportVars>>
  \/ part = "single" /\ Single!Next
     /\ UNCHANGED <<part, emittedVars, blockedVars, assemblyVars, ordersVars,
                   refusedVars, marksVars, phasesVars, batchVars, reportVars>>
  \/ part = "report" /\ Report!Next
     /\ UNCHANGED <<part, emittedVars, blockedVars, assemblyVars, ordersVars,
                   refusedVars, marksVars, phasesVars, batchVars, singleVars>>

AllSpec == AllInit /\ [][AllNext]_everything
-----------------------------------------------------------------------------
\* What a file records as delivered was sent: no channel, phase, batch or order is
\* suppressed for what nobody read. It holds over kills, and over senders that fail
\* before or after their message arrives. Each part names what it allows: a delivery
\* of the blocked recipes that was never saved, because of either; a run of the phases
\* that takes the results a killed one left; of a process that sends, initialize()
\* rejected or a QR code asked for after 'ready' (InTime).
RecordedWasSent ==
  /\ Blocked!RecordedWasSent /\ Blocked!CommittedWasEmailed
  /\ Assembly!CacheWasTold
  /\ Orders!RecordedWasAnnounced /\ Refused!RecordedWasAnnounced
  /\ Phases!RecordedWasSent /\ Emitted!CommittedWasMailed
  /\ Bulk!ReportedWasSent /\ Single!ReportedWasSent

\* The captions of a batch tell its phases apart; the theorem about RecordedWasSent is
\* about such captions.
CaptionsDiffer == Bulk!TellsApart /\ Single!TellsApart

\* A run commits what it sent: never the provisional cache of an earlier run, never
\* a lot of which a phase is still to be sent; and only the attempt that the process
\* waits for writes the result of a batch.
CommitsWhatItSent ==
  /\ Blocked!CommitsWhatItSent /\ Assembly!CommitsOwnErrors
  /\ Phases!CommitsWhatWasSent /\ Bulk!StaleIsDropped

\* Nobody reads the same twice, unless the record of it was lost, by a kill or by a
\* sender that failed (21, 24) although its message had arrived: an order stays
\* announced while it is there, a phase on record is not sent again and another only if
\* it was reported as failed, reminders keep their distance, and no attempt of a process
\* that is InTime sends what an earlier one sent.
SaysItOnce ==
  /\ Emitted!NoDoubleMail /\ Orders!NoRepeat /\ Marks!NoRepeat
  /\ Phases!NoResend /\ Phases!ResendsOnlyFailures
  /\ Assembly!RemindersKeepDistance
  /\ [](Bulk!SentOnce /\ Single!SentOnce)

\* Nothing is passed over: when no notice is due the readers know the errors there
\* are, the last mail stands, a channel hears a list as often as kills and senders that
\* failed after it arrived explain, a batch that was recorded is concluded, and an
\* early ACK counts.
NothingPassedOver ==
  /\ Assembly!NothingPassedOver /\ Emitted!LastMailStands /\ Blocked!RepeatsAreExplained
  /\ Bulk!RecordedIsConcluded /\ Bulk!EarlyAckCounts /\ Single!EarlyAckCounts

\* What is computed from many rows is shared out once: no stock is promised to two
\* orders, unless the record of the first promise was lost, cards and message show the
\* same phases, a row has its place in the report.
WellShared ==
  /\ Orders!NotPromisedTwice /\ Marks!NotPromisedTwice
  /\ Phases!SamePhases /\ Report!EveryRowOnce /\ Report!Balanced
  /\ CASE part = "emitted" -> Emitted!TypeOK
       [] part = "blocked" -> Blocked!TypeOK
       [] part = "assembly" -> Assembly!TypeOK
       [] part = "orders" -> Orders!TypeOK
       [] part = "refused" -> Refused!TypeOK
       [] part = "marks" -> Marks!TypeOK
       [] part = "phases" -> Phases!TypeOK
       [] part = "batch" -> Bulk!TypeOK
       [] part = "single" -> Single!TypeOK
       [] part = "report" -> TRUE

\* The orders with reservations alone.
OrdersSpec == AllInit /\ part = "orders" /\ [][AllNext]_everything

\* The runbook of OBs Restricao Branco says that the reservations keep two orders from
\* being announced as ready for the same pieces. Violated without a kill: the sender
\* fails although the group has the message, and the run keeps no reservation.
PromiseHolds == Orders!PromiseHolds
-----------------------------------------------------------------------------
(* The values of the run.                                                  *)

\* The list "A2" differs from "A" in a date the comparison does not look at.
SameList == [c \in {"none", "A", "A2", "B"} |-> IF c = "A2" THEN "A" ELSE c]

\* A batch mounted with a wrong invoice, one programmed with one, one whose pieces
\* cannot be parsed.
Batch(n, m, g) == [ob |-> n, mounted |-> m, programmed |-> g]
ThreeBatches == {Batch(1, "wrong", "right"), Batch(2, "right", "wrong"), Batch(3, "unread", "right")}

\* Two orders of one product; order 2 has two commercial orders, one of the
\* headquarters and one of a shop.
OneProduct == <<"yarn", "yarn">>
TwoAndOne == <<2, 1>>
Line(h, d) == [headquarters |-> h, date |-> d]
OrderLines == <<{Line(FALSE, NoDate)}, {Line(TRUE, 1), Line(FALSE, 2)}>>

\* Three lots of orders in two or three phases, two configurations.
Stopped(o, f, d) == [ob |-> o, phase |-> f, days |-> d]
ThreeLots == << {Stopped(1, 1, 3), Stopped(2, 1, 2), Stopped(3, 2, 1), Stopped(4, 3, 1)},
                {Stopped(1, 1, 1), Stopped(3, 2, 2), Stopped(5, 3, 2)},
                {Stopped(4, 3, 1)} >>
TwoConfigs == << [threshold |-> 1 :> 1 @@ 2 :> 1, order |-> <<2>>, most |-> 2, tall |-> 1],
                 [threshold |-> 1 :> 1 @@ 3 :> 1, order |-> <<2>>, most |-> 2, tall |-> 3] >>

ThreePhases == <<"phase1", "phase2", "phase3">>
OneNotice == <<"notice">>
==============================================================================
