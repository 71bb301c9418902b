SPECIFICATION FairSpec
CONSTANTS
  a = a
  zero = zero
  MaxPages = 2
  Data <- MCData
  ZeroPage = zero
  Torn = torn
  NoPage = nopage
  Absent = absent
  FailureModels = {{"kill"}, {"power"}}
  MaxBoots = 2
  MaxTxns = 2
INVARIANTS
  TypeOK
  AtomicRecovery
  ReadsCommitted
PROPERTIES
  TruncateIsCleanup
  CommitFinishes
  RecoveryFinishes
  ImplementsStore
CHECK_DEADLOCK FALSE
