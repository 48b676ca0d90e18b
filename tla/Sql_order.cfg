CONSTANTS
  Tables <- MCTables
  Links <- MCLinks
  Arrays <- MCArrays
  Leaves <- MCLeaves
  Id <- MCId
  ReadDenied <- MCReadDenied
  NamePrefixes <- MCNamePrefixes
  Keys <- MCKeys
  Val <- MCVal
  Parts <- MCParts
  MayRefer = {}
  MaxParts = 3
SPECIFICATION Spec
INVARIANT
  SqlKeepsRootOrder
CHECK_DEADLOCK FALSE
