SPECIFICATION Spec
CONSTANTS
  Schemas <- MCSchemas
  Rows <- MCRows
  Statements <- MCStatements
  PageSize = 15
  MaxName = 2
  MaxInserts = 4
INVARIANTS
  TypeOK
  CellsApart
  RootLeadsEverywhere
  RowsSurvive
  AnswerBetween
  AnswerArrivesWhole
CHECK_DEADLOCK FALSE
