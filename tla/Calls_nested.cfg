CONSTANTS
  Conns = {c1}
  Requests = {r1}
  Rows = {row1}
  NoConn = NoConn
  MaxVersion = 3
  OpKinds = {"update"}
  Expected = {0}
  MaxOps = 3
  MaxDepth = 2
  MaxRemoteCalls = 0
  OwnResources = {}
  NonTransactional = {}
  NonDistributedTransactional = {}
  MayThrow = FALSE
  IgnoresErrors = FALSE
  DbErrors = FALSE
SPECIFICATION Spec
INVARIANTS
  OpenFrameUncommitted
