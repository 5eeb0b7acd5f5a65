SPECIFICATION Spec
CONSTANTS
  RecoveryLimit = 2
  MaxReplies = 2
  MaxParts = 2
  MaxLoads = 1
INVARIANTS
  RecoveredTextIsNotDurable
CHECK_DEADLOCK FALSE
