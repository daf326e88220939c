CONSTANTS
  Users = {"representative", "administrator"}
  Prepares = {"administrator"}
  Reviews = {"representative", "administrator"}
  Approves = {"administrator"}
  Represents = {"representative"}
  Fact = TRUE
  OnePartner = TRUE
  Opened = TRUE
  Kinds = {"entries", "agreement", "curator", "authority"}
  Calls = {c1, c2, c3, c4}
  Writers = {w1, w2}
SPECIFICATION Spec
INVARIANTS
  TypeOK
  StampsTellStatus
  
  NoTaskBehindTheReport
SYMMETRY MCSymmetry
CHECK_DEADLOCK FALSE
