SPECIFICATION FairSpec
CONSTANTS
  Consumers = {c1, c2}
  NoOwner = NoOwner
  LogLen = 2
  MaxGeneration = 3
INVARIANTS
  NeverAhead
  CommitBacked
  HeadInFlightUnlessOverlapped
PROPERTIES
  EventuallyCommitted
  ImplementsCommitLog
CHECK_DEADLOCK FALSE
