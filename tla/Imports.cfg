SPECIFICATION AnySpec
CONSTANTS
  Emails = {e1}
  JobCalls = {c1, c2}
  JobWorkers = {w1, w2}
  MaxReviews = 3
  MaxFaults = 3
  short = short
  long = long
  Imports = {short, long}
  File <- TwoFiles
  Keys = {"a", "b", "x"}
  Blank = Blank
  Typed <- ByUsers
  MaxLeads = 4
  Workers = {s1, s2}
  TheSlot = s1
  Calls = {r1}
  Tasks = {1, 2}
  MaxRequeues = 1
  MaxEvents = 2
  MaxShort = 2
  MaxLong = 2
INVARIANTS
  OneJobPerImport
  ConfirmedIsParsedJob
  OneLeadPerId
PROPERTIES
  ImportSettles
  ImplementsLeadBook
CHECK_DEADLOCK FALSE
