CONSTANTS
  Users = {1, 2, 3, 4}
  RolesOf <- MCRolesOf
  FirstRole <- MCFirstRole
  Permissions <- MCPermissions
  Allowed <- MCAllowed
  Delegated <- MCDelegated
  Subjects = {"internship", "directory"}
  NeedOf <- MCNeedOf
  Calls = {c1, c2}
  Workers = {"w1"}
  LastDay = 1
  SweepLimit = 2
  MaxChanges = 2
  MaxFailures = 1
SPECIFICATION FairSpec
INVARIANTS
  TypeOK
  SchemaChecksHold
  FallbackGrantsNoRights

  
CHECK_DEADLOCK FALSE
