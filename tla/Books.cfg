SPECIFICATION BooksAlike
CONSTANTS
  j1 = j1
  j2 = j2
  j3 = j3
  ann = ann
  bob = bob
  Jobs = {j1, j2, j3}
  Owner <- TwoOwners
  Mileage <- OneMile
  Fees = {1, 2}
  Calls = {c1, c2}
  Slots = {s1, s2}
  MaxOps = 3
  MaxFaults = 1
  Signings = {x1}
  Entries = {n1}
  Expenses = {e1}
  Acts = {a1}
  Days <- MonthEnd
  Rates = {0, 1}
  Miles = {1}
  Asked <- TheLastDay
  Requests = {r1, r2}
  MaxEdits = 1
  MaxPdfs = 2
  MaxUploadFaults = 1
SYMMETRY Symmetry
INVARIANTS
  PdfCurrent
  NumbersDense
  UnpaidFollowsFee
  RebuiltIsCurrent
  PartsAddUp
PROPERTIES
  PaidAmountLocked
CHECK_DEADLOCK FALSE
