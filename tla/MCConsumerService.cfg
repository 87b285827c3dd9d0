SPECIFICATION CodeSpec
CONSTANTS
  k1 = k1
  k2 = k2
  NoKey = NoKey
  NumWorkers = 2
  QueueSize = 2
  MaxAttempts = 2
  MaxFetchFailures = 2
  MaxFaults = 2
  Key <- MixedKey
  Payload <- MixedPayload
  Hash <- MCHash
INVARIANTS
  CommittedIsDisposed
  KeyOrder
PROPERTIES
  ExitCommitsAllFinished
  ImplementsTracker
  EverythingCommitted
CHECK_DEADLOCK FALSE
