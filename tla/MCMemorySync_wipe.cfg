SPECIFICATION FairSpec
CONSTANTS
  a = a
  b = b
  Original = a
  None = None
  NPaths = 2
  Contents = {a, b}
  Setups <- WipeSetups
  CapFloor = 1
  CapCeiling = 1
PROPERTY
  EmptiedFolderDeletesNothing
CHECK_DEADLOCK FALSE
