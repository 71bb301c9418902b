SPECIFICATION Spec
CONSTANTS
  Keys = {1, 2, 3, 4, 5, 6, 7}
  Costs = {3, 4}
  Capacity = 9
  MaxKeys = 2
  PageLimits = {3, 6, 12}
  UniqueKeys = TRUE
  MaxInserts = 7
INVARIANTS
  TypeOK
  NothingLost
  ScanInKeyOrderUntilFull
  TreeMatchesChain
CHECK_DEADLOCK FALSE
