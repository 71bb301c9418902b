SPECIFICATION FairSpec
CONSTANTS
  t1 = t1
  t2 = t2
  Tables <- MCTables
  NoTable = notable
  Watched = t1
  NoLog = nolog
  MaxBoots = 3
  MaxRows = 3
  MaxFaults = 1
INVARIANTS
  TypeOK
  OpensAsCommitted
  TransactionsAreWhole
  
  CreatedTableLoads
PROPERTIES
  StartupFinishes
  FlushFinishes
  ImplementsStore
CHECK_DEADLOCK FALSE
