SPECIFICATION AllSpec

CONSTANTS
  Thread = {t1, t2, t3}
  Legacy = {t1, t2}
  Wanted = {"auto", "thick"}
  Nobody = nobody
  MaxLost = 2
  Links = 3
  Budget = 6
  Grace = 3
  CancelTime = 2
  QueryEnd = 11
  MinRetry = 2
  Native = TRUE
  Attempts = 3
  Runs = 1
  Timeout = 3
  StageGrace = 2
  StageCancel = 1
  Backoff = 1
  StageEnd = 22
  Sessions = 3
  PoolMax = 2
  PoolWindow = 2
  ConnWindow = 1
  ServerFaults = 1
  Bridge = FALSE
  FailMax = 3
  Tries = 2
  Batches = 2
  MaxCalls = 5
  FetchFaults = 7

INVARIANTS
  ModeIsSound
  SessionsClosed
  AnswersAreDue
  SessionsClean
  ReadsOrRefuses

PROPERTIES
  RetriesAreJust
  EveryoneReturns

\* Statements and calls end.
CHECK_DEADLOCK FALSE
