SPECIFICATION Spec
CONSTANTS
  Keys = {1, 2}
  Costs = {4}
  Capacity = 9
  MaxKeys = 2
  PageLimits = {20}
  UniqueKeys = FALSE
  MaxInserts = 7
INVARIANT
  ScanInKeyOrder
CHECK_DEADLOCK FALSE
