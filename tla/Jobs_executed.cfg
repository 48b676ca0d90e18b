CONSTANTS
  Pods = {p1, p2}
  Jobs = {j1}
  Retries = 0
  PoolSize = 2
  MaxCrashes = 0
  DbErrors = FALSE
SPECIFICATION Spec
CHECK_DEADLOCK FALSE
INVARIANTS
  TakenJobIsExecuted
