CONSTANTS
  u1 = u1
  u2 = u2
  ann = ann
  a = a
  b = b
  Uploads <- MCUploads
  Uploader <- MCUploader
  Quota = 2
  Contents = {a, b}
  Infected = {a}
  MaxCrashes = 1
  Starts <- MCStarts
SPECIFICATION Spec
INVARIANTS
  TypeOK
  
  UploadsKeepTheRules
  CopiesAreWhole
CHECK_DEADLOCK FALSE
