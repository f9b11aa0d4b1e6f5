SPECIFICATION FairSpec
CONSTANTS
  a = a
  b = b
  Original = a
  None = None
  NPaths = 3
  Contents = {a, b}
  Setups <- MCSetups
  CapFloor = 1
  CapCeiling = 1
INVARIANTS
  TypeOK
  BaselineWasOnDisk
PROPERTIES
  NoBlindWrites
  NoEditLostToOwnUpload
  WipesDeleteNothing
  FlushedWorkIsSaved
  Converges
CHECK_DEADLOCK FALSE
