SPECIFICATION FairSpec
CONSTANTS
  s1 = s1
  s2 = s2
  t1 = t1
  t2 = t2
  NoOne = noone
  Sessions <- TwoSessions
  Tables <- MCTables
  Preloaded <- MCPreloaded
  MaxInserts = 1
  MaxFaults = 1
INVARIANTS
  TypeOK
  GateMatchesTransaction
  NoLostWakeup
  RolledBackIsGone
PROPERTIES
  NobodyStuck
  GateIsReleased
