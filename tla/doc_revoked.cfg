SPECIFICATION Spec
CONSTANTS
  Request = {"r1"}
  DefaultMaxAccess = 2
  Rules <- FewRules
  Durations = {0}
  Deadlines = {0}
  Priorities <- TwoPriorities
  MaxTime = 3
  MaxVersion = 1
  MaxConfigs = 1
  MaxCrashes = 0
  Failing = FALSE
INVARIANT RemovedOnceHandled
CHECK_DEADLOCK FALSE
