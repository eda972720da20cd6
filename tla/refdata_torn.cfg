SPECIFICATION Spec
CONSTANTS
  ProcessCount = 2
  FirstPrimary = 0
  MaxSpins = 2
  MaxPublishes = 3
  MaxCrashes = 1
  MaxGrants = 1
INVARIANTS WholeWithOneWriter
CHECK_DEADLOCK FALSE
