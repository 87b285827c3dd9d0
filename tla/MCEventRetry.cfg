SPECIFICATION Spec
CONSTANTS
  MaxAttempts = 4
  InitialBackoff = 2
  MaxBackoff = 7
  Multiplier = 2
INVARIANTS
  RetriesMeasuredAsMade
  LeftOnlyByShutdown
  OutagesUseEveryAttempt
PROPERTIES
  HopelessIsNotRetried
CHECK_DEADLOCK FALSE
