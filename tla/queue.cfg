SPECIFICATION Spec
CHECK_DEADLOCK FALSE

CONSTANTS
  a1 = a1
  a2 = a2
  oracle = oracle
  s1 = s1
  s2 = s2
  NoAuto = NoAuto
  NoGroup = NoGroup
  Group = {oracle}
  Automation = {a1, a2}
  GroupOf <- BothGrouped
  MaxRetries <- NoRetry
  Priorities = {0}
  Sessions = {s1, s2}
  MaxExec = 3
  TelemetryAutos = {}
  EndStatuses = {}
  MaxWorkers = 2
  ClaimLimit = 2
  Results = {"SUCCESS"}
  MaxBoots = 1
  Faults = FALSE

SYMMETRY SessionSymmetry

INVARIANTS
  GroupExclusion
  NoLostClaim
  ClaimNeverConflicts
