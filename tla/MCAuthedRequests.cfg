SPECIFICATION FairSpec
CONSTANTS
  NONE = NONE
  Requests = {r1, r2}
  Slots = {1, 2, 3}
  AdvisoryThreshold = 2
  MandatoryThreshold = 1
  AdvisoryBackoff = 2
  Life = 3
  MaxRetries = 1
  MaxTime = 2
  MaxRevoked = 1
  MaxAborts = 1
  MaxFaults = 1
INVARIANTS
  TypeOK
  PendingIsInFlight
  CallsInFlightBounded
  NoInvalidationLost
PROPERTIES
  ForcedTokensAreNew
  RequestsEnd
CHECK_DEADLOCK FALSE
