SPECIFICATION Spec
CHECK_DEADLOCK FALSE

CONSTANTS
  a1 = a1
  a2 = a2
  oracle = oracle
  s1 = s1
  s2 = s2
  NoAuto = NoAuto
  NoGroup = NoGroup
  Group = {oracle}
  Automation = {a1}
  GroupOf <- BothGrouped
  MaxRetries <- OneRetry
  Priorities = {}
  Sessions = {s1}
  MaxExec = 2
  TelemetryAutos = {}
  EndStatuses = {}
  MaxWorkers = 1
  ClaimLimit = 2
  Results = {"SUCCESS"}
  MaxBoots = 1
  Faults = FALSE

PROPERTY StopSurvivesTimeout
