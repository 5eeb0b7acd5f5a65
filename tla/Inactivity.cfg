SPECIFICATION FairSpec
CONSTANTS
    Calls = {send, delete}
    QueueCalls = {delete}
    RepeatedCalls = {send}
    Timeout = 2
    MinimumExtension = 1
    WaitDuration = 1
    MaximumAttempts = 2
    MaxWaits = 1
    LastActivity = 3
    MaxDelay = 1
    MaxTime = 7
INVARIANTS
    ExpiresOnlyWhenInactive
    OutcomeIsTrue
PROPERTIES
    ExpirationIsFinal
    InactiveAgentCloses
CHECK_DEADLOCK FALSE
