SPECIFICATION FairSpec
CONSTANTS
  Workers = {w1}
  Requests = {r1}
  MaxCycles = 2
  MaxFaults = 0
PROPERTIES
  SendStartsCycle
CHECK_DEADLOCK FALSE
