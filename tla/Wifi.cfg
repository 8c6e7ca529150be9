SPECIFICATION FairSpec
CONSTANTS
  QueueCap = 2
  MaxSaved = 2
  CandMaxAttempts = 2
  RetryBase = 1
  RetryMax = 30
  FullRetry = 15
  StuckLimit = 2
  EvLoopCap = 2
  MaxRequests = 1
  MaxBounces = 2
  MaxDrops = 1
  MaxRecoveries = 1
CHECK_DEADLOCK FALSE
INVARIANTS
  Safety
  BackoffNeverCompounds
  ConnectedIsBacked
PROPERTIES
  LostLinkRetried
  ConnectAnswered
