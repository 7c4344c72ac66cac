----------------------------- MODULE OracleFetch -----------------------------
(***************************************************************************)
(* The calls of a decorated fetch_all in one process                       *)
(* (lib/python/oracle_extract.py, oracle_retry.py): a probe of the route,  *)
(* a connection of its own, the rows in batches, retries of a call, and a  *)
(* breaker around the retries.                                             *)
(*                                                                         *)
(*   breaker    [state, fails]: closed, open or half-open                  *)
(*   probes     probes made so far; probed: the route is in _ROTAS_SONDADAS *)
(*   call       [pc, tries, start, rows]: the attempts, the content of the *)
(*              table when the query started, and the batches that came    *)
(*   db         the content of the table now                               *)
(*   sessions   sessions that are open                                     *)
(*   result     what the last call returned or raised                      *)
(*   left       calls, faults and changes still to come                    *)
(***************************************************************************)
EXTENDS Naturals, Sequences

CONSTANTS
  Bridge,      \* BOOLEAN: ORACLE_DRIVER_MODE=bridge
  FailMax,     \* failing calls that open the breaker
  Attempts,    \* attempts of a call
  Batches,     \* batches of a whole result
  MaxCalls, MaxFaults   \* bounds

FetchAssumption ==
  /\ Bridge \in BOOLEAN /\ {FailMax, Attempts, Batches} \subseteq Nat \ {0}
  /\ {MaxCalls, MaxFaults} \subseteq Nat

VARIABLES breaker, probes, probed, call, db, sessions, result, left
vars == <<breaker, probes, probed, call, db, sessions, result, left>>

Idle == [pc |-> "idle", tries |-> 0, start |-> 0, rows |-> <<>>]

TypeOK ==
  /\ breaker.state \in {"closed", "open", "half"} /\ breaker.fails \in 0..FailMax
  /\ (breaker.state = "closed" => breaker.fails < FailMax)
  /\ probes \in Nat /\ probed \in BOOLEAN /\ sessions \in Nat /\ db \in Nat
  /\ call.pc \in {"idle", "probe", "connect", "rows", "bridge", "failed", "broken"}
  /\ call.tries \in 0..Attempts /\ Len(call.rows) <= Batches
  /\ left.calls \in 0..MaxCalls /\ left.faults \in 0..MaxFaults

Init ==
  /\ breaker = [state |-> "closed", fails |-> 0] /\ probes = 0 /\ probed = FALSE
  /\ call = Idle /\ db = 0 /\ sessions = 0 /\ result = [kind |-> "none", rows |-> <<>>]
  /\ left = [calls |-> MaxCalls, faults |-> MaxFaults]

Goto(pc) == call' = [call EXCEPT !.pc = pc]
Spend(field) == left[field] > 0 /\ left' = [left EXCEPT ![field] = @ - 1]
-----------------------------------------------------------------------------
\* An open breaker raises at once; a half-open one lets the call try.
Call ==
  /\ call.pc = "idle" /\ Spend("calls")
  /\ IF breaker.state = "open"
     THEN result' = [kind |-> "open", rows |-> <<>>] /\ UNCHANGED call
     ELSE call' = [Idle EXCEPT !.pc = "probe", !.tries = 1] /\ UNCHANGED result
  /\ UNCHANGED <<breaker, probes, probed, db, sessions>>

\* reset_timeout is over.
Reset ==
  /\ breaker.state = "open" /\ call.pc = "idle"
  /\ breaker' = [breaker EXCEPT !.state = "half"]
  /\ UNCHANGED <<probes, probed, call, db, sessions, result, left>>

\* _registrar_saude_wan: once per process and route, whatever it finds.
Probe ==
  /\ call.pc = "probe"
  /\ probed' = TRUE /\ probes' = probes + (IF probed THEN 0 ELSE 1)
  /\ Goto(IF Bridge THEN "bridge" ELSE "connect")
  /\ UNCHANGED <<breaker, db, sessions, result, left>>

\* connect_adaptive and execute: the query sees the table as it is now.
Connect ==
  /\ call.pc = "connect"
  /\ call' = [call EXCEPT !.pc = "rows", !.start = db, !.rows = <<>>]
  /\ sessions' = sessions + 1
  /\ UNCHANGED <<breaker, probes, probed, db, result, left>>

Returns(rows) ==
  /\ result' = [kind |-> "rows", rows |-> rows]
  /\ breaker' = [state |-> "closed", fails |-> 0] /\ call' = Idle

\* A batch; after the last one the session is closed and the rows are returned.
Fetch ==
  /\ call.pc = "rows"
  /\ IF Len(call.rows) < Batches
     THEN /\ call' = [call EXCEPT !.rows = Append(@, call.start)]
          /\ UNCHANGED <<breaker, sessions, result>>
     ELSE Returns(call.rows) /\ sessions' = sessions - 1
  /\ UNCHANGED <<probes, probed, db, left>>

\* The connection is refused or lost: a DatabaseError; the session is closed either way.
Lost ==
  /\ call.pc \in {"connect", "rows"} /\ Spend("faults")
  /\ sessions' = IF call.pc = "rows" THEN sessions - 1 ELSE sessions
  /\ Goto("failed")
  /\ UNCHANGED <<breaker, probes, probed, db, result>>

\* stamina: a DatabaseError is tried again, and not past its deadline.
Retries == call.tries < Attempts

Retry ==
  /\ call.pc = "failed" /\ Retries
  /\ call' = [call EXCEPT !.pc = "probe", !.tries = @ + 1]
  /\ UNCHANGED <<breaker, probes, probed, db, sessions, result, left>>

GiveUp ==
  /\ call.pc = "failed" /\ Goto("broken")
  /\ UNCHANGED <<breaker, probes, probed, db, sessions, result, left>>

\* run_node_bridge: the child answers, fails, or is ended at its deadline. It has a session
\* of its own, and its errors are no DatabaseError.
BridgeRuns ==
  /\ call.pc = "bridge"
  /\ \/ Returns([i \in 1..Batches |-> db]) /\ UNCHANGED left
     \/ Spend("faults") /\ Goto("broken") /\ UNCHANGED <<breaker, result>>
  /\ UNCHANGED <<probes, probed, db, sessions>>

\* Mutated form: a call that fails after the breaker was half-open counts from one.
BrokenForgets ==
  /\ call.pc = "broken"
  /\ LET n == IF breaker.state = "half" THEN 1 ELSE breaker.fails + 1
     IN  /\ breaker' = [state |-> IF n >= FailMax THEN "open" ELSE "closed", fails |-> n]
         /\ result' = [kind |-> IF n >= FailMax THEN "open" ELSE "error", rows |-> <<>>]
  /\ call' = Idle
  /\ UNCHANGED <<probes, probed, db, sessions, left>>

\* The breaker counts calls, not attempts; a half-open one opens again.
Broken ==
  /\ call.pc = "broken"
  /\ LET n    == IF breaker.fails < FailMax THEN breaker.fails + 1 ELSE FailMax
         open == breaker.state = "half" \/ n >= FailMax
     IN  /\ breaker' = [state |-> IF open THEN "open" ELSE "closed", fails |-> n]
         /\ result' = [kind |-> IF open THEN "open" ELSE "error", rows |-> <<>>]
  /\ call' = Idle
  /\ UNCHANGED <<probes, probed, db, sessions, left>>

DbChanges ==
  /\ Spend("faults") /\ db' = db + 1
  /\ UNCHANGED <<breaker, probes, probed, call, sessions, result>>

Next ==
  \/ Probe \/ Connect \/ Fetch \/ Retry \/ GiveUp \/ BridgeRuns \/ Broken
  \/ Call \/ Reset \/ Lost \/ DbChanges
Spec == Init /\ [][Next]_vars
-----------------------------------------------------------------------------
\* A result is whole, and of one moment: it never mixes the batches of two attempts.
WholeResult == result.kind = "rows" => Len(result.rows) = Batches
                  /\ \A i, j \in 1..Batches : result.rows[i] = result.rows[j]

\* The network drops idle sessions: none is open while the route is probed, none between
\* calls, and never two.
NoIdleSession == sessions = IF call.pc = "rows" THEN 1 ELSE 0

\* The route is probed once per process, whatever the probe finds and however often it is tried.
ProbedOnce == probes <= 1

\* One trial decides when the breaker is half-open: it closes, or opens again at once.
TrialDecides == [][breaker.state = "half" /\ breaker' # breaker =>
                     breaker' \in {[state |-> "closed", fails |-> 0], [state |-> "open", fails |-> FailMax]}]_vars
=============================================================================
