SPECIFICATION Spec
CONSTANTS
  Requests = {r1, r2}
  MaxUsers = 3
  Keys = {"trial", "team"}
  Trial = "trial"
  Seats <- TrialAndTeam
  ForeignKeys = TRUE
SYMMETRY RequestSymmetry
INVARIANTS OwnerRemains SeatLimit 
PROPERTIES RevokedForGood
CHECK_DEADLOCK FALSE
