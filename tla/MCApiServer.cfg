SPECIFICATION FairServerSpec
CONSTANTS
  MaxLimit = 3
  DefaultLimit = 2
  Requests <- MCRequests
  MaxOutages <- MCOutages
INVARIANTS
  NoPartialAnswer
  BlamedStageFailedItself
  StatusFollowsContext
  ClientsOutliveRequests
  MeasuredAsAnswered
PROPERTIES
  EveryRequestAnswered
  GaugeSettles
CHECK_DEADLOCK FALSE
