SPECIFICATION FairSpec
CONSTANTS
  Request = {"r1"}
  DefaultMaxAccess = 2
  Rules <- FewRules
  Durations = {0}
  Deadlines = {0, 2}
  Priorities <- TwoPriorities
  MaxTime = 2
  MaxVersion = 1
  MaxConfigs = 1
  MaxCrashes = 1
  Failing = TRUE
PROPERTIES EndedLosesAccess OverdueEnds
CHECK_DEADLOCK FALSE
