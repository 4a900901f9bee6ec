SPECIFICATION Spec
CONSTANTS
  Users = {u1, u2}
  Types = {t1}
  Tokens = {k1}
  Calls = {c1}
  MaxOps = 2
  MaxFaults = 0
PROPERTIES
  DeletedIsPurged
CHECK_DEADLOCK FALSE
