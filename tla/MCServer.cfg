SPECIFICATION FairSpec
CONSTANTS
  c1 = c1
  c2 = c2
  t1 = t1
  t2 = t2
  Clients <- MCClients
  Tables <- MCTables
  NoOne = noone
  MaxQueries = 3
  MaxPanics = 1
  MaxFaults = 1
INVARIANTS
  TypeOK
  QueryIsSomewhere
  StrandedOnlyByPoison
  UncommittedHasOwner
PROPERTIES
  DisconnectReleasesGate
  EveryQueryEnds
CHECK_DEADLOCK FALSE
