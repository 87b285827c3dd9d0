SPECIFICATION CodeSpec
CONSTANTS
  k1 = k1
  k2 = k2
  NoKey = NoKey
  NumWorkers = 1
  QueueSize = 2
  MaxAttempts = 1
  MaxFetchFailures = 2
  MaxFaults = 2
  Key <- LongKey
  Payload <- LongPayload
  Hash <- MCHash
INVARIANTS
  Backpressure
  AtMostOneLateStart
PROPERTIES
  StopsWhenAsked
CHECK_DEADLOCK FALSE
