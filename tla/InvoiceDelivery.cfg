SPECIFICATION MCSpec
CONSTANTS
  Workers = {w1, w2}
  Requests = {r1}
  MaxCycles = 2
  MaxFaults = 1
INVARIANTS
  OneMailPerAttempt
  AttemptsInOrder
PROPERTIES
  OrderlySendStartsCycle
  OrderlyPendingSettles
CHECK_DEADLOCK FALSE
