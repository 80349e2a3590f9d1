SPECIFICATION Spec
CONSTANTS
  HistorySize = 2
  Followed <- MCFollowed
  Gaps <- MCGaps
  Samples <- MCSamples
  HistoryWired = TRUE
  MaxActions = 8
  MaxFrame = 2
  MaxWork = 4
INVARIANTS
  TypeOK
  StuckIsRefused
  DriftBounded
  NoLockOut
  NoConflictingCommands
PROPERTY
  HistoryIsRecentLog
CHECK_DEADLOCK FALSE
