SPECIFICATION Spec
CONSTANTS
  ProcessCount = 2
  RowsPerWriter = 2
  Channel = {"a"}
  HandlerKind <- MCHandlers
  Verdicts = {"skipped"}
  Posts = {"announce"}
  MaxPosts <- MCPosts31
  MaxCrashes = 1
  RacyUpdates = FALSE
INVARIANTS BitMeansComplete
PROPERTIES KeepsContract
CHECK_DEADLOCK FALSE
