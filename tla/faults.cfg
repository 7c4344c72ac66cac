SPECIFICATION Spec
CHECK_DEADLOCK FALSE

CONSTANTS
  a1 = a1
  a2 = a2
  oracle = oracle
  s1 = s1
  s2 = s2
  NoAuto = NoAuto
  NoGroup = NoGroup
  Group = {oracle}
  Automation = {a1, a2}
  GroupOf <- FirstGrouped
  MaxRetries <- OneRetry
  Priorities = {0}
  Sessions = {s1}
  MaxExec = 2
  TelemetryAutos = {a2}
  EndStatuses = {"SUCCESS", "EXPIRED"}
  MaxWorkers = 2
  ClaimLimit = 2
  Results = {"SUCCESS", "ERROR"}
  MaxBoots = 2
  Faults = TRUE

INVARIANTS
  TypeOK
  OneRunningPerAutomation
  Supervised
  NoStaleOwner
  ClaimDiscipline
PROPERTIES
  LaunchedOnce
  OverIsOver
  LifecycleSpec
