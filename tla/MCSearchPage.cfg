SPECIFICATION PageSpec
CONSTANTS
  K = 5
  Ids = {1, 2, 3}
  Limits = {1, 2}
  Precision = 7
  One = 4096
  MaxRank = 4
  Inputs <- MCInputs
  Environments <- MCEnvironments
  MaxSearchLimit = 3
  MaxAsked = 4
INVARIANTS
  FusedByDefinition
  FullPage
CHECK_DEADLOCK FALSE
