CONSTANTS
  Tables <- MCTables
  Links <- MCLinks
  Arrays <- MCArrays
  Leaves <- MCLeaves
  Id <- MCId
  ReadDenied <- MCReadDenied
  NamePrefixes <- MCNamePrefixes
  Keys <- MCKeys
  Val <- MCVal
  Parts <- MCParts
  MayRefer <- MCMayRefer
  MaxParts = 3
SPECIFICATION Spec
INVARIANTS
  SqlAnswersAsAsked
  SqlRefusesOnly
  MongoDbAnswersAsAsked
CHECK_DEADLOCK FALSE
