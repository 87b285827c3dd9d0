SPECIFICATION FairLoadSpec
CONSTANTS
  r1 = r1
  r2 = r2
  RunIDs = {r1, r2}
  Plans <- MCPlans
  MaxDocuments = 3
  BatchSize = 1
  Repeats = 1
  Partitions = 2
  MaxFailures = 1
INVARIANTS
  ReportIsHonest
  ZeroLagMeansCaughtUp
PROPERTIES
  EveryRunEnds
CHECK_DEADLOCK FALSE
