SPECIFICATION Spec
CONSTANTS
  ChunkSize = 2
  RetentionLimit = 4
  RangeLimits = {2, 4}
  MaxCallsPerReply = 2
  MaxSteered = 2
  MaxMessages = 9
INVARIANTS
  TypeOK
  RetainedIsReadable
  TrimmedIsSummarized
  SnapshotIsBounded
  ContextIsClosed
  PagesJoin
  LastPageIsFirstRetained
  MissingIsTrimmed
  LoopsAgree
CHECK_DEADLOCK FALSE
