CONSTANTS
  Commands = {}
  Uploads = {"u"}
  Downloads = {}
  QueueSize = 1
  MaxOpen = 1
  MaxChunks = 2
SPECIFICATION SocketSpec
INVARIANT OnlyThatSessionEnds
CHECK_DEADLOCK FALSE
