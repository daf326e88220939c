CONSTANTS
  Procs = {"p1"}
  Kinds <- MCKinds
  KindOf <- MCKindOf
  Chains <- MCChains
  Milestones <- MCMilestones
  Users = {"it", "edu"}
  Access <- MCAccess
  Requests = {r1, r2}
  Workers = {"w1"}
  TicksPerDay = 1
  SweepLimit = 1
  MaxClock = 4
  MaxFailures = 0
  MaxEvents = 4
SPECIFICATION Spec
INVARIANTS
  TypeOK
  SchemaChecksHold
  
PROPERTIES
  ImplementsConsent
SYMMETRY MCSymmetry
CHECK_DEADLOCK FALSE
