------------------------------ MODULE MCOracle -------------------------------
(*****************************************************************************)
(* The clients of Oracle side by side: the mode of the driver (OracleDriver, *)
(* whose names are used as they are), a query of the Beneficiamento, a       *)
(* statement of the SQL tools with calls that may be deaf to cancel(), the   *)
(* MCP server, and fetch_all behind its breaker. They share nothing, so a    *)
(* behaviour is of one of them, `part`, and the others stay as they began.   *)
(* Their constants are this module's; seconds are short in oracle.cfg.       *)
(*****************************************************************************)
EXTENDS OracleDriver, Integers

CONSTANTS
  Links, Budget, Grace, CancelTime, QueryEnd, MinRetry, Native,
  Attempts, Runs, Timeout, StageGrace, StageCancel, Backoff, StageEnd,
  Sessions, PoolMax, PoolWindow, ConnWindow, ServerFaults,
  Bridge, FailMax, Tries, Batches, MaxCalls, FetchFaults

\* The part a behaviour is of, and the state of each.
VARIABLES
  part,
  queryNow, queryLink, queryCloses, queryN, queryBegan, queryPc, got, timer, fired,
  queryUntil, ended,
  stageNow, stageLink, stageCloses, stageN, tries, runs, stageBegan, stagePc, thread,
  saw, gone, status, stageUntil, spent,
  up, faults, sess, pool, poolWait, conn, connWait, req, served,
  breaker, probes, probed, call, db, sessions, result, left

queryVars == <<queryNow, queryLink, queryCloses, queryN, queryBegan, queryPc, got, timer,
  fired, queryUntil, ended>>
stageVars == <<stageNow, stageLink, stageCloses, stageN, tries, runs, stageBegan,
  stagePc, thread, saw, gone, status, stageUntil, spent>>
mcpVars == <<up, faults, sess, pool, poolWait, conn, connWait, req, served>>
fetchVars == <<breaker, probes, probed, call, db, sessions, result, left>>
everything == <<part, vars, queryVars, stageVars, mcpVars, fetchVars>>

Query == INSTANCE OracleQuery WITH
  Seconds <- Budget, Deaf <- FALSE, MaxNow <- QueryEnd, now <- queryNow,
  link <- queryLink, closes <- queryCloses, n <- queryN, began <- queryBegan,
  pc <- queryPc, until <- queryUntil
Stage == INSTANCE SqlStage WITH
  Links <- Attempts * Runs, Seconds <- Timeout, Grace <- StageGrace,
  CancelTime <- StageCancel, Deaf <- TRUE, MaxNow <- StageEnd, Interrupts <- FALSE,
  now <- stageNow, link <- stageLink, closes <- stageCloses, n <- stageN,
  began <- stageBegan, pc <- stagePc, until <- stageUntil
Mcp == INSTANCE McpServer WITH
  SlowCancel <- FALSE, Foreign <- FALSE, MaxFaults <- ServerFaults
Fetch == INSTANCE OracleFetch WITH
  Attempts <- Tries, MaxFaults <- FetchFaults

\* What each part takes for granted of its constants.
ASSUME PartsAssumption ==
  /\ Query!SessionAssumption /\ Query!QueryAssumption /\ Stage!SessionAssumption
  /\ Stage!StageAssumption /\ Mcp!McpAssumption /\ Fetch!FetchAssumption

Parts == {"driver", "query", "stage", "mcp", "fetch"}

\* Each part begins where its program does; what the others might begin with is fixed.
AllInit ==
  /\ part \in Parts
  /\ Init /\ (part # "driver" => env = [wanted |-> "auto", client |-> TRUE])
  /\ Query!Init
  /\ Stage!Init
  /\ Mcp!Init
  /\ Fetch!Init

AllNext ==
  \/ part = "driver" /\ Next
     /\ UNCHANGED <<part, queryVars, stageVars, mcpVars, fetchVars>>
  \/ part = "query" /\ Query!Next
     /\ UNCHANGED <<part, vars, stageVars, mcpVars, fetchVars>>
  \/ part = "stage" /\ Stage!Next
     /\ UNCHANGED <<part, vars, queryVars, mcpVars, fetchVars>>
  \/ part = "mcp" /\ Mcp!Next
     /\ UNCHANGED <<part, vars, queryVars, stageVars, fetchVars>>
  \/ part = "fetch" /\ Fetch!Next
     /\ UNCHANGED <<part, vars, queryVars, stageVars, mcpVars>>

AllSpec == AllInit /\ [][AllNext]_everything

\* cancel() takes less than the grace it is given, and where a statement is tried
\* again no longer than the graces of the attempts that need none.
CancelsInTime == CancelTime < Grace /\ StageCancel <= (Attempts - 1) * StageGrace
-----------------------------------------------------------------------------
\* Whoever opened a session closes it, and once: not under a call, not while a
\* cancel() is at work on it, not twice, and none is left when the answer is there,
\* however calls, deadlines and late connections meet (connect_within, cancel_after,
\* run_with_cancel); fetch_all keeps none while it probes or waits.
SessionsClosed ==
  /\ Query!TypeOK /\ Stage!TypeOK
  /\ Query!NothingLeft /\ Query!CancelAlone
  /\ Stage!ClosedOnce /\ Stage!NeverUnderCall /\ Stage!NothingLeaks
  /\ Fetch!NoIdleSession

\* The answer is there in the time the callers reckon with: one budget and one grace
\* for a query, a deadline, a grace and the waits per attempt for a statement. The
\* rows fetch_all answers with are of one attempt, and it probed the route once.
AnswersAreDue ==
  /\ Query!WithinBudget /\ Stage!WorstCase
  /\ Fetch!TypeOK /\ Fetch!WholeResult /\ Fetch!ProbedOnce

\* Between two requests the server's sessions are as a request expects them: none in
\* use, none with a break or a plan of the request before it.
SessionsClean == Mcp!TypeOK /\ Mcp!NoneBusy /\ Mcp!NoStrayBreak /\ Mcp!NoPlanKept

\* No statement that writes, or may write for all one knows, runs; and while the
\* network is known to be gone no call sits through a deadline.
ReadsOrRefuses == Mcp!OnlyReads /\ Mcp!FastRefusal

\* What the watchdog ended is not tried again, and one trial decides whether a
\* half-open breaker closes.
RetriesAreJust == Query!NoRetryAfterDeadline /\ Fetch!TrialDecides

\* Threads that run end: nobody waits for ever for the mode of the driver, for a
\* call that ignores its cancel(), or for a connection that does not come.
EveryoneReturns ==
  /\ part = "driver" /\ Fairness => AllEnd
  /\ part = "query" /\ Query!Fairness => Query!Answered
  /\ part = "stage" /\ Stage!Fairness => Stage!Answered
==============================================================================
