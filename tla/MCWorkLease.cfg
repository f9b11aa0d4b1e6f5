SPECIFICATION Spec
CONSTANTS
  Nobody = Nobody
  Workers = {w1, w2}
  DefaultTtl = 3
  DefaultInterval = 2
  ServerTtl = 3
  MaxLatency = 0
  MaxFaults = 2
  MaxAborts = 1
  MaxStamp = 7
SYMMETRY AnyWorker
INVARIANTS
  TypeOK
  FreshLeaseIsExclusive
  KeptWhileHealthy
  GivesUpInTime
PROPERTY NoStopAfterLoss
CHECK_DEADLOCK FALSE
