CONSTANTS
  root = root
  ann = ann
  p = p
  q = q
  r1 = r1
  r2 = r2
  r3 = r3
  c1 = c1
  c2 = c2
  Users <- MCUsers
  Partners <- MCPartners
  CompanyOf <- MCCompanyOf
  Calls <- MCCalls
  LastDay = 2
  MaxAssignments = 2
  Requests <- MCRequests
  Jobs <- MCJobs
  Starts <- MCStarts
  Root = root
  Kept = 1
  Limit = 2
  Steps = 1
  MaxCrashes = 1
SPECIFICATION Spec
INVARIANTS
  TypeOK
  SessionsAreSound
  SecondFactorIsSound
  AnAdministratorStays
  
SYMMETRY MCSymmetry
CHECK_DEADLOCK FALSE
