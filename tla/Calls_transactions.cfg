CONSTANTS
  Conns = {c1, c2}
  Requests = {r1, r2}
  Rows = {row1, row2}
  NoConn = NoConn
  MaxVersion = 7
  OpKinds = {"update", "checkedDelete"}
  Expected = {0}
  MaxOps = 2
  MaxDepth = 1
  MaxRemoteCalls = 0
  OwnResources = {}
  NonTransactional = {}
  NonDistributedTransactional = {}
  MayThrow = FALSE
  IgnoresErrors = FALSE
  DbErrors = TRUE
SPECIFICATION FairSpec
INVARIANTS
  NoLostUpdate
  OpenFrameUncommitted
PROPERTIES
  EveryCallAnswered
  SuccessMeansCommitted
