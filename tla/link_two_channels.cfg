SPECIFICATION Spec
CONSTANTS
  ProcessCount = 2
  RowsPerWriter = 2
  Channel = {"internal", "a"}
  HandlerKind <- MCHandlers
  Verdicts = {"skipped"}
  Posts = {"announce"}
  MaxPosts <- MCPosts3
  MaxCrashes = 0
  RacyUpdates = FALSE
INVARIANTS NeverAsleepOnMail
CHECK_DEADLOCK FALSE
