SPECIFICATION Spec
CONSTANTS
    Contents = {a, b}
    ChunkSize = 2
    MaxMessages = 2
    MaxSequence = 4
INVARIANTS
    NotShownTwice
    NothingVanishes
CHECK_DEADLOCK FALSE
