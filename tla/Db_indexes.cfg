CONSTANTS
  Pods = {p1}
  Parts <- UniqueEntity
  Owner <- NoOwner
  CronTable = 2
  HasCronJobs = TRUE
  MaxErrors = 0
  MaxCrashes = 0
  MayTakeLong = FALSE
SPECIFICATION Spec
CHECK_DEADLOCK FALSE
INVARIANTS
  UniqueIndexesCreated
