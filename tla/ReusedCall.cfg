SPECIFICATION Spec
CONSTANTS
  Arguments = {"production", "staging"}
  MaxCalls = 2
  MaxMessages = 3
INVARIANTS
  ApprovalIsForThatCall
CHECK_DEADLOCK FALSE
