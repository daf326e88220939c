CONSTANTS
  Procs = {"p1", "p2"}
  Kinds <- MCKinds
  KindOf <- MCKindOfAgreement
  Chains <- MCChains
  Milestones <- MCMilestones
  Users = {"it", "edu"}
  Access <- MCAccess
  Requests = {r1}
  Workers = {"w1"}
  TicksPerDay = 1
  SweepLimit = 1
  MaxClock = 2
  MaxFailures = 1
  MaxEvents = 3
SPECIFICATION FairSpec
PROPERTIES
  OverdueReviewIsClosed
CHECK_DEADLOCK FALSE
