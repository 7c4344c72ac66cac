----------------------------- MODULE OracleQuery -----------------------------
(***************************************************************************)
(* execute_query of the Beneficiamento (beneficiamento/oracle.py): one     *)
(* budget for all attempts, each with a connection of its own, under the   *)
(* watchdog cancel_after of oracle_session.py. Seconds is the budget.      *)
(*                                                                         *)
(*   n         the attempt, began: when; pc: where its caller is           *)
(*   got       how the attempt ended                                       *)
(*   timer     the thread of cancel_after: off, armed, cancelling, done    *)
(*   fired     the event it sets, until: when its join gives up            *)
(*   ended     when execute_query returned or raised                       *)
(***************************************************************************)
EXTENDS OracleSession

CONSTANTS
  MinRetry,    \* MIN_RETRY_REMAINING_SECONDS
  Native       \* BOOLEAN: the driver takes call_timeout

QueryAssumption == MinRetry \in Nat \ {0} /\ Native \in BOOLEAN

VARIABLES n, began, pc, got, timer, fired, until, ended
vars == <<now, link, closes, n, began, pc, got, timer, fired, until, ended>>

\* Mutated form: every attempt has the whole budget.
LeftOfAttempt == Seconds - (now - began)

\* What is left of the budget the attempt was given, which is what the others left.
Left == (Seconds - began) - (now - began)

TypeOK ==
  /\ SessionTypeOK
  /\ n \in 1..Links /\ began \in 0..MaxNow
  /\ pc \in {"connect", "query", "leave", "join", "ping", "close", "answer"}
  /\ got \in {"none", "ok", "drop", "error", "timeout"}
  /\ timer \in {"off", "armed", "cancelling", "done"}
  /\ fired \in BOOLEAN /\ until \in 0..(MaxNow + Grace) /\ ended \in 0..MaxNow

Init ==
  /\ SessionInit
  /\ n = 1 /\ began = 0 /\ pc = "connect" /\ got = "none" /\ timer = "off" /\ fired = FALSE
  /\ until = 0 /\ ended = 0
-----------------------------------------------------------------------------

\* The loop of execute_query: a dropped session is tried again while it pays.
Decide(g, links) ==
  IF g = "drop" /\ n < Links /\ Left >= MinRetry
  THEN /\ n' = n + 1 /\ began' = now /\ pc' = "connect" /\ got' = "none" /\ ended' = ended
       /\ timer' = "off" /\ fired' = FALSE
       /\ link' = [links EXCEPT ![n + 1].net = "connecting"]
  ELSE /\ pc' = "answer" /\ got' = g /\ ended' = now /\ link' = links
       /\ UNCHANGED <<n, began, timer, fired>>

\* connect_within returns: what is left of the budget is the watchdog's.
Connected ==
  /\ pc = "connect" /\ link[n].net = "open"
  /\ IF Left <= 0
     THEN /\ pc' = "close" /\ got' = "timeout"
          /\ UNCHANGED <<link, timer>>
     ELSE /\ pc' = "query" /\ timer' = "armed"
          /\ link' = [link EXCEPT ![n].call = "running"]
          /\ UNCHANGED got
  /\ UNCHANGED <<now, closes, n, began, fired, until, ended>>

ConnectFailed ==
  /\ pc = "connect" /\ link[n].net \in {"drop", "error"}
  /\ Decide(link[n].net, link)
  /\ UNCHANGED <<now, closes, until>>

\* connect_within gives up; its thread is left to itself.
ConnectTimesOut ==
  /\ pc = "connect" /\ link[n].net = "connecting" /\ Left <= 0
  /\ Decide("timeout", [link EXCEPT ![n].left = TRUE])
  /\ UNCHANGED <<now, closes, until>>

\* execute or fetch ends: with the rows, or with an error that is a timeout when the
\* watchdog has fired or the driver's own deadline has.
CallEnds ==
  /\ pc = "query" /\ link[n].call = "running"
  /\ \E g \in {"ok", "drop", "error"} :
       got' = IF g # "ok" /\ fired THEN "timeout" ELSE g
  /\ link' = [link EXCEPT ![n].call = "over"]
  /\ pc' = "leave"
  /\ UNCHANGED <<now, closes, n, began, timer, fired, until, ended>>

\* A call that cancel() has reached raises ORA-01013, which fired explains.
CallCancelled ==
  /\ pc = "query" /\ link[n].call = "broken"
  /\ got' = IF fired THEN "timeout" ELSE "error"
  /\ link' = [link EXCEPT ![n].call = "over"]
  /\ pc' = "leave"
  /\ UNCHANGED <<now, closes, n, began, timer, fired, until, ended>>

\* DPY-4024 of call_timeout, or the loop over the batches sees that the time is over.
CallTimesOut ==
  /\ pc = "query" /\ link[n].call = "running"
  /\ Native \/ Left < 0
  /\ got' = "timeout" /\ fired' = (fired \/ Native)
  /\ link' = [link EXCEPT ![n].call = "over"]
  /\ pc' = "leave"
  /\ UNCHANGED <<now, closes, n, began, timer, until, ended>>

\* cancel_after leaves its block: encerrado, timer.cancel(), then the join.
Leave ==
  /\ pc = "leave"
  /\ pc' = "join" /\ until' = now + Grace
  /\ timer' = IF timer = "armed" THEN "off" ELSE timer
  /\ UNCHANGED <<now, link, closes, n, began, got, fired, ended>>

\* fire, under the lock: the block has not ended, so it will be cancelled.
Fire ==
  /\ timer = "armed" /\ Left <= 0
  /\ timer' = "cancelling" /\ fired' = TRUE
  /\ link' = [link EXCEPT ![n].cancel = "going", ![n].since = now]
  /\ UNCHANGED <<now, closes, n, began, pc, got, until, ended>>

CancelReaches ==
  /\ timer = "cancelling"
  /\ timer' = "done"
  /\ \E l \in Reached(link[n]) : link' = [link EXCEPT ![n] = l]
  /\ UNCHANGED <<now, closes, n, began, pc, got, fired, until, ended>>

\* timer.join: the thread has ended, or the grace is over.
Joined ==
  /\ pc = "join" /\ (timer \in {"off", "done"} \/ now >= until)
  /\ pc' = IF got = "ok" /\ fired THEN "ping" ELSE "close"
  /\ UNCHANGED <<now, link, closes, n, began, got, timer, fired, until, ended>>

\* The ping takes the break that came too late for the call.
Ping ==
  /\ pc = "ping"
  /\ link' = [link EXCEPT ![n].pending = FALSE]
  /\ pc' = "close"
  /\ UNCHANGED <<now, closes, n, began, got, timer, fired, until, ended>>

\* The connection's own with block closes it.
CloseIt ==
  /\ pc = "close"
  /\ Decide(got, [link EXCEPT ![n] = Close(@)])
  /\ closes' = [closes EXCEPT ![n] = @ + 1]
  /\ UNCHANGED <<now, until>>

Due ==
  \/ pc = "connect" /\ (link[n].net # "connecting" \/ Left <= 0)
  \/ pc \in {"leave", "ping", "close"}
  \/ pc = "join" /\ (timer \in {"off", "done"} \/ now >= until)
  \/ timer = "armed" /\ Left <= 0
  \/ \E k \in 1..Links : Held(k)

Tick ==
  /\ now < MaxNow /\ ~Due
  /\ now' = now + 1
  /\ UNCHANGED <<link, closes, n, began, pc, got, timer, fired, until, ended>>

Caller ==
  \/ Connected \/ ConnectFailed \/ ConnectTimesOut
  \/ CallCancelled \/ Leave \/ Joined \/ Ping \/ CloseIt
Connecting(k) == Connector(k) /\ UNCHANGED <<n, began, pc, got, timer, fired, until, ended>>

Next ==
  \/ Caller \/ CallEnds \/ CallTimesOut
  \/ Fire \/ CancelReaches
  \/ \E k \in 1..Links : Connecting(k)
  \/ Tick

Spec == Init /\ [][Next]_vars

\* Threads run and time passes; a call ends when it wants, or when it is cancelled.
Fairness ==
  /\ WF_vars(Caller) /\ WF_vars(Fire) /\ WF_vars(CancelReaches) /\ WF_vars(Tick)
LiveSpec == Spec /\ Fairness
-----------------------------------------------------------------------------
\* The budget is that of all attempts together (the docstring of execute_query): the
\* answer is there when it is over and the watchdog has had its grace.
WithinBudget == pc = "answer" => ended <= Seconds + Grace

\* No attempt begins once the watchdog has fired: what it ended is not tried again.
NoRetryAfterDeadline == [][n' # n => ~fired /\ now + MinRetry <= Seconds]_vars

\* execute_query leaves no connection to nobody: when it returns or raises none is open,
\* and the one whose connect() has not returned yet will be closed by its thread.
NothingLeft ==
  pc = "answer" =>
    \A k \in 1..Links : link[k].net # "open" /\ (link[k].net = "connecting" => link[k].left)

\* Every query is answered.
Answered == <>(pc = "answer")
=============================================================================
