CONSTANTS
  Conns = {c1}
  Requests = {r1, r2}
  Rows = {row1}
  NoConn = NoConn
  MaxVersion = 5
  OpKinds = {"create", "read", "update", "delete", "checkedDelete"}
  Expected = {0, 1}
  MaxOps = 2
  MaxDepth = 1
  MaxRemoteCalls = 2
  OwnResources = {r1}
  NonTransactional = {r2}
  NonDistributedTransactional = {r2}
  MayThrow = TRUE
  IgnoresErrors = FALSE
  DbErrors = TRUE
SPECIFICATION Spec
INVARIANTS
  TypeOK
  ConnectionOwnership
  PooledConnectionsClean
  WriteInsideTransaction
  UnitsOfWork
\* A call that throws keeps its connection: the others wait for ever.
CHECK_DEADLOCK FALSE
