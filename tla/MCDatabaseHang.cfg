SPECIFICATION Spec
CONSTANTS
  t1 = t1
  t2 = t2
  Tables <- MCTables
  NoTable = notable
  Watched = t1
  NoLog = nolog
  MaxBoots = 2
  MaxRows = 0
  MaxFaults = 0
INVARIANT
  EveryScanEnds
CHECK_DEADLOCK FALSE
