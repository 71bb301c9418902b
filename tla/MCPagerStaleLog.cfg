SPECIFICATION Spec
CONSTANTS
  a = a
  zero = zero
  MaxPages = 2
  Data <- MCData
  ZeroPage = zero
  Torn = torn
  NoPage = nopage
  Absent = absent
  FailureModels = {{"kill"}}
  MaxBoots = 3
  MaxTxns = 2
INVARIANT
  CrashIsSafe
CHECK_DEADLOCK FALSE
