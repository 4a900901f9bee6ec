SPECIFICATION Spec
CONSTANTS
  LastDay = 1
  Slots = {2, 5}
  LastMoment = 4
  MaxMoves = 1
  MaxEarlier = 1
  SequenceFaults = 2
  SigningFaults = 1
INVARIANTS
  TwicePerDay
  RemindedOnce
PROPERTIES
  EveryDaySent
CHECK_DEADLOCK FALSE
