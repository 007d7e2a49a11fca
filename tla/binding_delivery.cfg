SPECIFICATION DeliverySpec
CONSTANTS
  Binding = {"ask"}
  Surface = {"ask"}
  StepOf <- FirstStep
  MaxStep = 1
  MaxRevision = 3
  Disturbances = {"FAILURE", "RESTART", "INBOUND", "DELETE", "WRITEBACK", "CONFIG", "TOGGLE"}
  MaxDisturbances = 1
INVARIANTS TypeOK OneObject NeverOverclaims
PROPERTIES NeverBackward RetriedUntilApplied
CHECK_DEADLOCK FALSE
