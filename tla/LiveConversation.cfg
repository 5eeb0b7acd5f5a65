SPECIFICATION ConversationSpec
CONSTANTS
    MaxVersion = 2
    MaxRun = 1
    MaxRound = 1
    MaxEpoch = 3
    MaxFailures = 1
INVARIANTS
    FreshWhenOpen
PROPERTIES
    RoundsAreShown
    FallbackCatchesUp
CHECK_DEADLOCK FALSE
