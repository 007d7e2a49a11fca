SPECIFICATION FairSpec
CONSTANTS
  Request = {"r1"}
  DefaultMaxAccess = 2
  Rules <- CoreRules
  Durations = {0, 3}
  Deadlines = {0}
  Priorities <- TwoPriorities
  MaxTime = 2
  MaxVersion = 2
  MaxConfigs = 1
  MaxCrashes = 0
  Failing = FALSE
INVARIANTS TypeOK TriggerWithinWindow WindowCapped DeletionNotUndone ApprovedIsGranted
PROPERTIES ImplementsLifecycle ApprovedGetsAccess
CHECK_DEADLOCK FALSE
