SPECIFICATION AllSpec

CONSTANTS
  Absent = Absent
  Torn = Torn
  NoHash = NoHash

  Contents = {"A", "B"}
  EmittedFaults = 4

  Lists = {"none", "A", "A2", "B"}
  none = "none"
  Compared <- SameList
  BlockedUnsure = 1
  BlockedCrashes = 2
  BlockedChanges = 3

  Batches <- ThreeBatches
  Interval = 3
  Attempts = 2
  Days = 6
  AssemblyCrashes = 1
  AssemblyChanges = 2

  Ob = {1, 2}
  Product = {"yarn"}
  ProductOf <- OneProduct
  Pieces <- TwoAndOne
  Lines <- OrderLines
  NoDate = NoDate
  Window = 1

  OldOrders = {1}
  OrderStock = 3
  OrderKills = 1
  OrderChanges = 5

  Refusals = {"assembling", "broken"}
  RefusedStock = 1
  RefusedChanges = 4

  OldMarks = {2}
  MarkStock = 2
  MarkKills = 1
  MarkChanges = 4

  Lots <- ThreeLots
  Configs <- TwoConfigs
  PhaseTries = 2
  PhaseFaults = 4

  Captions <- ThreePhases
  Notice <- OneNotice
  Sends = 2

INVARIANTS
  RecordedWasSent
  NothingPassedOver
  WellShared

PROPERTIES
  CommitsWhatItSent
  SaysItOnce

\* The days of the assembly and the rows of the report come to an end.
CHECK_DEADLOCK FALSE
