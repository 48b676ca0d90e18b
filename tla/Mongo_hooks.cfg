SPECIFICATION Spec
CONSTANTS
  c1 = c1
  c2 = c2
  Callers = {c1}
  NoAccount = NoAccount
  EntityIds = {1, 2, 3, 4}
  MaxCalls = 3
  MaxErrors = 0
  Deviations = TRUE
  Ops <- MCOps
  InitialDocs <- MCInitialDocs
PROPERTY ErrorMeansUndone
CHECK_DEADLOCK FALSE
