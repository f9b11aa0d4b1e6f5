SPECIFICATION FairSpec
CONSTANTS
  plain = plain
  gated = gated
  denied = denied
  foreign = foreign
  NoCall = NoCall
  Calls = {plain, gated}
  Permission <- MCPermission
  Owned <- MCOwned
  MaxLog = 3
  MaxFaults = 1
  MaxMissing = 0
PROPERTIES
  VerdictsAreApplied
  CallsAreAnswered
  IdleSessionIsReleased
  AbortEndsIteration
CHECK_DEADLOCK FALSE
