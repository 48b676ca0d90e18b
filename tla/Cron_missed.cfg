CONSTANTS
  Pods = {p1, p2}
  Period = 2
  RetryIntervals <- MCRetryIntervals
  PoolSize = 1
  MaxFirings = 2
  MaxTime = 7
  MaxCrashes = 0
  Punctual = TRUE
  FunctionFails = TRUE
  EarlyErrors = FALSE
  DbErrors = FALSE
  FieldNamedAsClass = TRUE
SPECIFICATION Spec
INVARIANTS
  RunsOnSchedule
CHECK_DEADLOCK FALSE
