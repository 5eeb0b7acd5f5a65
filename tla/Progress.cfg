SPECIFICATION FairSpec
CONSTANTS
  Messages = {m1, m2}
  PlanModeMessages = {}
  ExternalTools = {"read", "search", "deploy"}
  NeedsApproval = {"deploy"}
  ParallelTools = {"read", "search"}
  ManualRecoveryTools = {"read", "deploy"}
  Replies <- WaitReplies
  MaxParallelToolCalls = 2
  MaximumAttempts = 1
  ModelHooks = FALSE
  ModelFailures = FALSE
  CompactionChoices = {TRUE, FALSE}
  MaxCalls = 2
  MaxPlanRequests = 1
  MaxRecoveryRetries = 0
PROPERTIES
  AcceptedMessageIsTaken
  SteeringIsApplied
  AcceptedDecisionEndsWait
CHECK_DEADLOCK FALSE
