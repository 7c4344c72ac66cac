SPECIFICATION OrdersSpec

CONSTANTS
  Absent = Absent
  Torn = Torn
  NoHash = NoHash

  Contents = {"A", "B"}
  EmittedFaults = 4

  Lists = {"none", "A", "A2", "B"}
  none = "none"
  Compared <- SameList
  BlockedUnsure = 1
  BlockedCrashes = 2
  BlockedChanges = 3

  Batches <- ThreeBatches
  Interval = 3
  Attempts = 2
  Days = 6
  AssemblyCrashes = 1
  AssemblyChanges = 2

  Ob = {1, 2}
  Product = {"yarn"}
  ProductOf <- OneProduct
  Pieces <- TwoAndOne
  Lines <- OrderLines
  NoDate = NoDate
  Window = 1

  OldOrders = {}
  OrderStock = 3
  OrderKills = 0
  OrderChanges = 5

  Refusals = {"assembling", "broken"}
  RefusedStock = 1
  RefusedChanges = 4

  OldMarks = {2}
  MarkStock = 2
  MarkKills = 1
  MarkChanges = 4

  Lots <- ThreeLots
  Configs <- TwoConfigs
  PhaseTries = 2
  PhaseFaults = 4

  Captions <- ThreePhases
  Notice <- OneNotice
  Sends = 2

INVARIANT
  PromiseHolds

\* Changes and faults come to their bounds.
CHECK_DEADLOCK FALSE
