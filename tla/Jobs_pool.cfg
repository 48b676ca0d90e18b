CONSTANTS
  Pods = {p1}
  Jobs = {j1}
  Retries = 1
  PoolSize = 1
  MaxCrashes = 0
  DbErrors = FALSE
SPECIFICATION FairSpec
CHECK_DEADLOCK FALSE
PROPERTIES
  ConnectionsComeBack
