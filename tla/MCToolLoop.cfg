SPECIFICATION Spec
CONSTANTS
  None = None
  Readers = {1, 2}
  Setups <- MCSetups
INVARIANTS
  CallsRunInTheirPlace
  TurnsAreWhole
PROPERTIES
  DeferIsInTime
  RunEnds
CHECK_DEADLOCK FALSE
