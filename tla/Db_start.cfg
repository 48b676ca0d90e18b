CONSTANTS
  Pods = {p1, p2}
  Parts <- TwoEntities
  Owner <- OwnedByFirst
  CronTable = 2
  HasCronJobs = TRUE
  MaxErrors = 1
  MaxCrashes = 1
  MayTakeLong = TRUE
SPECIFICATION FairSpec
CHECK_DEADLOCK FALSE
INVARIANTS
  TypeOK
  InitializedMeansSchema
  OneInitializer
PROPERTIES
  EveryPodServes
