SPECIFICATION AccountsSpec
CONSTANTS
  MaxSubs = 2
  Plans <- PaidPlans
  TrialPlan = "PRO"
  Calls = {c1}
  Workers = {w1}
  MaxEvents = 4
  MaxFaults = 1
  MaxOverrides = 1
  Users = {u1, u2}
  Types = {t1}
  Tokens = {k1}
  Forms = {f1, f2}
  MaxOps = 2
  MaxAccountFaults = 1
  Servers = {s1, s2}
  Requests = {r1, r2}
  MaxRedisFaults = 1
CONSTRAINT Bounded
INVARIANTS
  SubscriberKeepsPlan
  PlanFollowsSubscription
  RequestsTakeEffect
PROPERTIES
  OverdueEnds
  PurgeTakesTheDeleted
CHECK_DEADLOCK FALSE
