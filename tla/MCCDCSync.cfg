SPECIFICATION FairSpec
CONSTANTS
  c1 = c1
  c2 = c2
  Consumers = {c1, c2}
  First = c1
  Histories <- Ordinary
  FaultKinds = {"crash", "load", "keyword", "read", "embed", "vector"}
  MaxFaults = 2
  MaxRebalances = 1
INVARIANTS
  Converged
  KeywordConverged
  VectorNeverAhead
PROPERTIES
  StaleNeverReachesVectors
  EventuallyConverged
CHECK_DEADLOCK FALSE
