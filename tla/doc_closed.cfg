SPECIFICATION FairSpec
CONSTANTS
  Binding = {"ask", "tell"}
  Surface = {"ask", "tell"}
  StepOf <- FirstStep
  MaxStep = 0
  MaxRevision = 2
  Disturbances = {}
  MaxDisturbances = 0
PROPERTY OutstandingClosed
CHECK_DEADLOCK FALSE
