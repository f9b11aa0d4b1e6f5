SPECIFICATION FairSpec
CONSTANTS
  Nobody = Nobody
  Workers = {w1, w2}
  DefaultTtl = 2
  DefaultInterval = 1
  ServerTtl = 2
  MaxLatency = 0
  MaxFaults = 1
  MaxAborts = 0
  MaxStamp = 6
PROPERTIES
  LostLeaseIsNoticed
  TeardownEnds
CHECK_DEADLOCK FALSE
