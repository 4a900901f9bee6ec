SPECIFICATION Spec
CONSTANTS
  Leads = {l1}
  Steps = {1, 2}
  Workers = {w1, w2}
  Ticks = {t1, t2}
  DailyLimit = 1
  Attempts = 2
  MaxDispatch = 2
  MaxFaults = 2
SYMMETRY Symmetry
CONSTRAINT Bounded
INVARIANTS
  MailedOnce
  NoneForgotten
  BudgetKept

  
CHECK_DEADLOCK FALSE
