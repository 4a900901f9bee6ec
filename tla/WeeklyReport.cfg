SPECIFICATION Spec
CONSTANTS
  Jobs = {x1, x2}
  Entries = {}
  Expenses = {}
  Acts = {}
  Days <- TwoMonths
  Rates = {1}
  Miles = {1}
  Asked <- WholeRanges
  Calls = {r1}
  MaxEdits = 1
  MaxPdfs = 1
  MaxFaults = 0
INVARIANTS
  WeeksAreWeeks
CHECK_DEADLOCK FALSE
