CONSTANTS
  Users = {"representative", "administrator"}
  Prepares = {"administrator"}
  Reviews = {"representative", "administrator"}
  Approves = {"administrator"}
  Represents = {"representative"}
  Fact = TRUE
  OnePartner = TRUE
  Opened = FALSE
  Kinds = {"entries"}
  Calls = {c1, c2}
  Writers = {w1}
SPECIFICATION Spec
INVARIANTS
  ChangeInvalidatesReview
SYMMETRY MCSymmetry
CHECK_DEADLOCK FALSE
