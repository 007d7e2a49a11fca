SPECIFICATION Spec
CONSTANTS
  User <- Users
  Requester = "u2"
  Subject = "u2"
  DefaultMaxAccess = 2
  Rules <- StepRules
  Caller = {c1}
  MaxTime = 2
  MaxReviews = 3
  MaxRevision = 2
  Disturbances = {"EDIT", "END", "LOCK", "METADATA", "DELETE", "FAILURE", "RESTART"}
  MaxDisturbances = 1
INVARIANTS TypeOK LastStepsConsistent
PROPERTIES OutcomeAsAssumed
CHECK_DEADLOCK FALSE
