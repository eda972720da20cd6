SPECIFICATION Spec
CONSTANTS
  WorkerCount = 2
  FirstPrimary = 0
  Scaling <- MCWebFirst
  PromotionLimit = 3
  MaxFaults = 1
  MaxRefusals = 0
INVARIANTS JobsWaitForRunOnce
