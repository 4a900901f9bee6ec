SPECIFICATION AgendaSpec
CONSTANTS
  Ids = {b1, b2}
  Manual = {m1}
  Calls = {c1, c2}
  Starts <- AroundMidnight
  Services = {"GENERAL", "REFI"}
  Block <- ShortAndLong
  ManualMins = {230}
  Buffer = 15
  Open = 0
  Close = 240
  Now <- TwoDaysBefore
  Notice = 120
  Limit = 5760
  Slots = {s1, s2}
  Near <- AllNear
  Edits = {e1, e2}
  Workers = {w1, w2}
  MaxTasks = 3
  MaxEvents = 2
  MaxFaults = 2
SYMMETRY Symmetry
CONSTRAINT InOrder
INVARIANTS
  NoDoubleBooking
  OneConfirmation
  RefusedHasNoJob
  OfferedIsAccepted
  OneEvent
  CalendarShowsJob
CHECK_DEADLOCK FALSE
