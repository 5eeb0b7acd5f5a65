SPECIFICATION Spec
CONSTANTS
    Contents = {a}
    ChunkSize = 1
    MaxMessages = 1
    MaxSequence = 4
INVARIANT
    HistoryHasNoHole
CHECK_DEADLOCK FALSE
