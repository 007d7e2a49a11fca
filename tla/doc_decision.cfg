SPECIFICATION Spec
CONSTANTS
  User <- Users
  Requester = "u2"
  Subject = "u2"
  DefaultMaxAccess = 2
  Rules <- CountRules
  Caller = {c1}
  MaxTime = 1
  MaxReviews = 2
  MaxRevision = 1
  Disturbances = {"EDIT"}
  MaxDisturbances = 1
INVARIANTS EveryDecisionApplied
CHECK_DEADLOCK FALSE
