CONSTANTS
  Pods = {p1, p2}
  Period = 2
  RetryIntervals <- MCRetryIntervals
  PoolSize = 1
  MaxFirings = 2
  MaxTime = 7
  MaxCrashes = 0
  Punctual = TRUE
  FunctionFails = FALSE
  EarlyErrors = TRUE
  DbErrors = FALSE
  FieldNamedAsClass = TRUE
SPECIFICATION Spec
INVARIANTS
  RunsOnceWithoutException
CHECK_DEADLOCK FALSE
