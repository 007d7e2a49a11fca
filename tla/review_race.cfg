SPECIFICATION Spec
CONSTANTS
  User <- Users
  Requester = "u2"
  Subject = "u2"
  DefaultMaxAccess = 2
  Rules <- CountRules
  Caller = {c1, c2}
  MaxTime = 1
  MaxReviews = 2
  MaxRevision = 2
  Disturbances = {"EDIT", "DELETE"}
  MaxDisturbances = 1
SYMMETRY CallerSymmetry
INVARIANTS DecisionsHandled
PROPERTIES PassedByQuorum
CHECK_DEADLOCK FALSE
