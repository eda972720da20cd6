CONSTANTS
  Starters = {1, 2}
SPECIFICATION TableSpec
INVARIANT OneTable
CHECK_DEADLOCK FALSE
