SPECIFICATION Spec
CONSTANTS
  alice = alice
  bob = bob
  NoAccount = NoAccount
  EntityIds = {1, 2, 3}
  Linkable = {2, 3}
  ArrayMaxSize = 3
  MaxCalls = 3
  MaxErrors = 1
  Deviations = FALSE
  Accounts <- MCAccounts
  Ops <- MCOps
  InitialTables <- MCInitialTables
INVARIANTS TypeOK NoOrphans LeftAsFound
PROPERTY ImplementsEntityStore
CHECK_DEADLOCK FALSE
