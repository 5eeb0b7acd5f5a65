SPECIFICATION Spec
CONSTANTS
  Messages = {m1, m2}
  PlanModeMessages = {m1}
  ExternalTools = {"read"}
  NeedsApproval = {}
  ParallelTools = {}
  ManualRecoveryTools = {}
  Replies <- PlanReplies
  MaxParallelToolCalls = 1
  MaximumAttempts = 1
  ModelHooks = TRUE
  ModelFailures = TRUE
  CompactionChoices = {TRUE, FALSE}
  MaxCalls = 2
  MaxPlanRequests = 2
  MaxRecoveryRetries = 0
INVARIANTS
  ModelSeesClosedHistory
  PlanningRunsNothing
  NoInternalError
  PlanRequestIsPending
  StalledPlanStops
PROPERTIES
  PlanStartsOnRequest
CHECK_DEADLOCK FALSE
