SPECIFICATION Spec
CONSTANTS
  WorkerCount = 2
  FirstPrimary = 0
  Scaling <- MCWebFirst
  PromotionLimit = 3
  MaxFaults = 2
  MaxRefusals = 0
INVARIANTS OnePrimary
