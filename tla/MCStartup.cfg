SPECIFICATION FairSpec
CONSTANTS
  Instances = {c1, c2}
  Stages <- ConsumerStages
  Environments <- MCEnvironments
  InitialDelay = 1
  MaxDelay = 3
  MaxFaults = 2
INVARIANTS
  RunningFits
  LosingTheRaceIsNoFailure
PROPERTIES
  EventuallyRuns
CHECK_DEADLOCK FALSE
