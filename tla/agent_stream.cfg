SPECIFICATION FairSpec
CONSTANTS
  Run <- TwoRuns
  Call = {"a", "b"}
  Result = {"completed"}
  First = 1
  Talks = {2}
  MaxShown = 1
  MaxText = 2
  MaxQueue = 1
  MaxEnters = 1
  MaxFaults = 1
INVARIANTS TypeOK LogExplainsMessage ApprovalsAreTruthful ViewIsTruthful
PROPERTIES NothingExecutedAfterCancel ViewSettles ApprovalIsShown
CHECK_DEADLOCK FALSE
