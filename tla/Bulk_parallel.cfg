CONSTANTS
  Conns = {c1}
  Connection = c1
  NoConn = NoConn
  Rows = {1, 2, 3}
  MaxVersion = 1
  Operations = {"createEntities", "deleteEntitiesByIds"}
  DbErrors = TRUE
SPECIFICATION FairSpec
INVARIANTS
  TypeOK
  SuccessMeansAll
  ReleasedClean
PROPERTIES
  RowsChangeTogether
  BulkCallEnds
CHECK_DEADLOCK FALSE
