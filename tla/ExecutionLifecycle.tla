------------------------- MODULE ExecutionLifecycle -------------------------
(***************************************************************************)
(* What the orchestrator promises about one execution, whoever touches its *)
(* row: it is created once, it is claimed at most once and only while it   *)
(* waits, its process is launched at most once and only after the claim,   *)
(* and an execution that is over is never active again.                    *)
(*                                                                         *)
(*   phase     absent -> waiting -> running -> over   (queued executions)  *)
(*             absent -> external -> over             (telemetry)          *)
(*   claimed   the executions a worker has ever owned                      *)
(*   launched  the executions whose PowerShell process was ever started    *)
(***************************************************************************)
CONSTANT Exec

VARIABLES phase, claimed, launched

vars == <<phase, claimed, launched>>

Phases == {"absent", "waiting", "running", "external", "over"}

TypeOK ==
  /\ phase \in [Exec -> Phases]
  /\ claimed \subseteq Exec
  /\ launched \subseteq Exec

Init ==
  /\ phase = [e \in Exec |-> "absent"]
  /\ claimed = {}
  /\ launched = {}

\* A request, a cron tick or a requeue creates a waiting execution.
Enqueue(e) ==
  /\ phase[e] = "absent"
  /\ phase' = [phase EXCEPT ![e] = "waiting"]
  /\ UNCHANGED <<claimed, launched>>

\* An external terminal registers an execution it already runs.
Register(e) ==
  /\ phase[e] = "absent"
  /\ phase' = [phase EXCEPT ![e] = "external"]
  /\ UNCHANGED <<claimed, launched>>

\* The worker takes a waiting execution.
Claim(e) ==
  /\ phase[e] = "waiting"
  /\ e \notin claimed
  /\ phase' = [phase EXCEPT ![e] = "running"]
  /\ claimed' = claimed \cup {e}
  /\ UNCHANGED launched

\* A stop may cross the launch, so the phase is not constrained: only the
\* claim is.
Launch(e) ==
  /\ e \in claimed \ launched
  /\ launched' = launched \cup {e}
  /\ UNCHANGED <<phase, claimed>>

\* Executions end one at a time or, at a restart, together.
Finish(S) ==
  /\ \A e \in S : phase[e] \in {"waiting", "running", "external"}
  /\ phase' = [e \in Exec |-> IF e \in S THEN "over" ELSE phase[e]]
  /\ UNCHANGED <<claimed, launched>>

Next ==
  \/ \E e \in Exec : Enqueue(e) \/ Register(e) \/ Claim(e) \/ Launch(e)
  \/ \E S \in SUBSET Exec : Finish(S)

Spec == Init /\ [][Next]_vars
=============================================================================
