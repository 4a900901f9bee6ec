SPECIFICATION SyncSpec
CONSTANTS
  Slots = {s1, s2}
  Near <- AllNear
  Edits = {c1}
  Workers = {w1}
  MaxTasks = 2
  MaxEvents = 2
  MaxFaults = 1
INVARIANTS
  NoDuplicateEvents
CHECK_DEADLOCK FALSE
