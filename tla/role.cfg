SPECIFICATION FairSpec
CONSTANTS
  WorkerCount = 3
  FirstPrimary = 0
  Scaling <- MCScaling
  PromotionLimit = 2
  MaxFaults = 2
  MaxRefusals = 1
INVARIANTS TypeOK OnePrimaryUnlessMisled RoleIsNeverLost SettledAfterRunOnce NoAdapterIsLost StartedIsServed
PROPERTIES RoleIsTakenUp
