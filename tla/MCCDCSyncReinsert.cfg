SPECIFICATION Spec
CONSTANTS
  c1 = c1
  c2 = c2
  Consumers = {c1}
  First = c1
  Histories <- Reinserted
  FaultKinds = {"crash"}
  MaxFaults = 1
  MaxRebalances = 0
INVARIANT Converged
CHECK_DEADLOCK FALSE
