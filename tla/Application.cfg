SPECIFICATION FairSpec
CONSTANTS
  Servers = 2
  MaxRequests = 2
  MaxSteps = 2
INVARIANTS
  UsedWhileOpen
  ReturnsClean
PROPERTIES
  RunReturns
CHECK_DEADLOCK FALSE
