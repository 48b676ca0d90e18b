CONSTANTS
  Pods = {p1}
  Jobs = {j1}
  Retries = 0
  PoolSize = 2
  MaxCrashes = 0
  DbErrors = FALSE
SPECIFICATION FairSpec
CHECK_DEADLOCK FALSE
PROPERTIES
  StoredJobIsTaken
