SPECIFICATION Spec
SYMMETRY Symmetry
CONSTANTS
  c1 = c1
  c2 = c2
  Callers = {c1, c2}
  NoAccount = NoAccount
  EntityIds = {1, 2, 3, 4}
  MaxCalls = 3
  MaxErrors = 1
  Deviations = FALSE
  Ops <- MCOps
  InitialDocs <- MCInitialDocs
INVARIANT TypeOK
PROPERTY ImplementsEntityStore
CHECK_DEADLOCK FALSE
