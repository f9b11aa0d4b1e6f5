SPECIFICATION FairSpec
CONSTANTS
  plain = plain
  gated = gated
  denied = denied
  foreign = foreign
  NoCall = NoCall
  Calls = {plain}
  Permission <- MCPermission
  Owned <- MCOwned
  MaxLog = 2
  MaxFaults = 1
  MaxMissing = 0
PROPERTIES
  TerminationEndsIteration
CHECK_DEADLOCK FALSE
