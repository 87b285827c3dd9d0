SPECIFICATION Spec
CONSTANTS
  Consumers = {c1}
  NoOwner = NoOwner
  LogLen = 2
  MaxGeneration = 1
INVARIANT HeadInFlight
CHECK_DEADLOCK FALSE
