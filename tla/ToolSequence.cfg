SPECIFICATION Spec
CONSTANTS
  Messages = {m1, m2}
  PlanModeMessages = {}
  ExternalTools = {"read", "search", "deploy"}
  NeedsApproval = {"deploy"}
  ParallelTools = {"read", "search", "deploy"}
  ManualRecoveryTools = {"read", "deploy"}
  Replies <- ToolReplies
  MaxParallelToolCalls = 2
  MaximumAttempts = 2
  ModelHooks = FALSE
  ModelFailures = FALSE
  CompactionChoices = {FALSE}
  MaxCalls = 3
  MaxPlanRequests = 0
  MaxRecoveryRetries = 1
INVARIANTS
  TypeOK
  PairedHistory
  HonestResults
  ApprovedEffects
  BoundedEffects
  WaitsCanEnd
  PendingsMatchStep
  NoInternalError
  RequestsAreAnswered
PROPERTIES
  DeliversMessages
CHECK_DEADLOCK FALSE
