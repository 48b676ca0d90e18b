CONSTANTS
  Conns = {c1}
  Connection = c1
  NoConn = NoConn
  Rows = {1, 2}
  MaxVersion = 1
  Operations = {"deleteEntitiesByIds"}
  DbErrors = FALSE
SPECIFICATION FairSpec
PROPERTIES
  ReturnsNothingOrError
CHECK_DEADLOCK FALSE
