SPECIFICATION Spec
CONSTANTS
  Nobody = Nobody
  Workers = {w1, w2}
  DefaultTtl = 3
  DefaultInterval = 1
  ServerTtl = 3
  MaxLatency = 0
  MaxFaults = 0
  MaxAborts = 1
  MaxStamp = 7
PROPERTY StopOnlyHeld
CHECK_DEADLOCK FALSE
