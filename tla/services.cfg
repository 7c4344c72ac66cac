SPECIFICATION AllSpec

CONSTANTS
  Token = {k1, k2, k3}
  Thread = {t1, t2}
  TTL = 2
  MaxTokens = 2
  None = None
  MaxClock = 2

  Automation = {a1, a2}
  Threads = {w1, w2}
  Tiers <- TwoTiers
  MaxTracked = 1
  QueueBound = 1
  Single = {a1}
  FarTiers <- SpreadTiers
  FarTracked = 2

  Address = {a1, a2}
  Limit = 2
  Span = 3
  StaleTTL = 5
  CleanupEvery = 3
  Absent = Absent

  Viewer = {v1, v2}
  Handler = {h1, h2}
  NoOne = NoOne
  MaxLines = 2
  MaxKept = 1
  MaxMessage = 5
  FewViewers = {v1}
  FewLines = 1
  MoreKept = 2

  Scheduled = {j1, j2}
  Plan <- Plans
  Day = 4
  Anchor = 1
  Window = {0, 1}
  Unset = Unset
  MaxChanges = 1

  HeadRevision = 4
  Steps <- FourMigrations
  UniqueAt = 3
  NoTable = NoTable
  NoRow = NoRow
  MaxCrashes = 2

  MaxWorkers = 2
  Poll = 2
  MaxPoll = 4
  LongPoll = 3
  MinBackoff = 2
  MaxBackoff = 4
  Never = Never
  MaxRows = 3
  Horizon = 5

SYMMETRY Alike

INVARIANTS
  OnceOnly
  AdmitsJustly
  AlertsCount
  LogsAreWhole
  JobsAsStored
  ServesWhole
  WokenInTime

\* Lines, tokens and clocks come to their bounds.
CHECK_DEADLOCK FALSE
