--------------------------- MODULE MCOrchestrator ---------------------------
(***************************************************************************)
(* Small instances of Orchestrator: a grouped pair of automations, as in   *)
(* production (all of them share queue_group "oracle"), and one without a  *)
(* group.                                                                  *)
(***************************************************************************)
EXTENDS Orchestrator, TLC

CONSTANTS a1, a2, oracle, s1, s2

BothGrouped == [a \in Automation |-> oracle]
FirstGrouped == [a \in Automation |-> IF a = a1 THEN oracle ELSE NoGroup]

OneRetry == [a \in Automation |-> 1]
NoRetry == [a \in Automation |-> 0]

SessionSymmetry == Permutations(Sessions)
=============================================================================
