SPECIFICATION FairSpec
CONSTANTS
  ProcessCount = 2
  RowsPerWriter = 1
  Channel = {"a"}
  HandlerKind <- MCHandlers
  Verdicts = {"skipped", "answered", "failed", "oversized", "error"}
  Posts = {"ask", "send"}
  MaxPosts <- MCPosts2
  MaxCrashes = 0
  RacyUpdates = TRUE
INVARIANTS TypeOK NeverAsleepOnMail AnswersItsQuestion
PROPERTIES  NoOwnerIsHonest
CHECK_DEADLOCK FALSE
