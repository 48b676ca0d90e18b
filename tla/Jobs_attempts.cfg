CONSTANTS
  Pods = {p1, p2}
  Jobs = {j1}
  Retries = 2
  PoolSize = 3
  MaxCrashes = 2
  DbErrors = TRUE
SPECIFICATION FairSpec
CHECK_DEADLOCK FALSE
INVARIANTS
  TypeOK
  JobTakenOnce
  StoredJobsHaveTimers
PROPERTIES
  TimersEnd
