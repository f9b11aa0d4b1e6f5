SPECIFICATION Spec
CONSTANTS
  plain = plain
  gated = gated
  denied = denied
  foreign = foreign
  NoCall = NoCall
  Calls = {plain, gated, denied, foreign}
  Permission <- MCPermission
  Owned <- MCOwned
  MaxLog = 3
  MaxFaults = 2
  MaxMissing = 1
INVARIANTS
  TypeOK
  GatedCallsNeedApproval
  BlockersAreGatedWork
  CountdownOnlyWhenQuiet
  OneRunPerConnection
  NoVerdictOverlooked
  CleanTeardown
PROPERTY RefinesDispatch
CHECK_DEADLOCK FALSE
