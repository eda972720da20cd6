SPECIFICATION Spec
CONSTANTS
  ProcessCount = 2
  RowsPerWriter = 2
  Channel = {"a"}
  HandlerKind <- MCHandlers
  Verdicts = {"skipped"}
  Posts = {"announce"}
  MaxPosts <- MCPosts4
  MaxCrashes = 0
  RacyUpdates = FALSE
INVARIANTS RunInOrder
CHECK_DEADLOCK FALSE
