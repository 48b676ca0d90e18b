CONSTANTS
  Pods = {p1, p2}
  Period = 2
  RetryIntervals <- MCRetryIntervals
  PoolSize = 1
  MaxFirings = 2
  MaxTime = 7
  MaxCrashes = 1
  Punctual = TRUE
  FunctionFails = TRUE
  EarlyErrors = TRUE
  DbErrors = TRUE
  FieldNamedAsClass = TRUE
SPECIFICATION FairSpec
INVARIANTS
  TypeOK
  RunsOncePerSchedule
  ConnectionsAccounted
  RunsWhenUndisturbed
PROPERTIES
  NextLiesAhead
  EveryFiringEnds
CHECK_DEADLOCK FALSE
