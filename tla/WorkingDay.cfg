SPECIFICATION AnySpec
CONSTANTS
  Calls = {c1, c2}
  MaxOps = 3
  FaultKinds = {"journal", "invoice", "draft", "queue", "death"}
  MaxJobs = 3
  Offers <- ThreeOffers
  OtherTimes = {65}
  Home = "h"
  Drive <- Roads
  Rate = 1
  MinNet = 10
  MaxUpsets = 2
  Requests = {r1, r2}
SYMMETRY Symmetry
INVARIANTS
  CompletionOwed
  CalendarFollowsSlot
  LiveCountdown
  CheckedDayFits
  SilentPlanFits
  RouteIsDrivable
PROPERTIES
  ForwardUnlessRaced
CHECK_DEADLOCK FALSE
