SPECIFICATION Spec
CONSTANTS
  Keys = {1, 2, 3, 4}
  Costs = {1021, 1022, 2042}
  Capacity = 4085
  MaxKeys = 340
  PageLimits = {1024}
  UniqueKeys = TRUE
  MaxInserts = 4
INVARIANT
  SplitsWork
CHECK_DEADLOCK FALSE
