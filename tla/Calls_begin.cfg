CONSTANTS
  Conns = {c1}
  Requests = {r1}
  Rows = {row1}
  NoConn = NoConn
  MaxVersion = 3
  OpKinds = {"update"}
  Expected = {0}
  MaxOps = 2
  MaxDepth = 1
  MaxRemoteCalls = 0
  OwnResources = {}
  NonTransactional = {}
  NonDistributedTransactional = {}
  MayThrow = FALSE
  IgnoresErrors = TRUE
  DbErrors = TRUE
SPECIFICATION Spec
INVARIANTS
  WriteInsideTransaction
