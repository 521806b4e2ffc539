SPECIFICATION RunsFairSpec
CONSTANTS
  Solo = {r1}
  Sweeps = {s1}
  Clients = {c1}
  Kinds = {"acp", "line"}
  Families = 2
  MaxPasses = 2
  AcpEvents = {"delta", "completed", "error"}
  LineEvents <- MCLineEvents
  Outputs <- MCOutputs
  MaxEvents = 2
  MaxStarts = 1
  MaxCancels = 2
  No = No
CHECK_DEADLOCK FALSE
INVARIANTS
  SweepTellsTruth
  CancelStopsFamilies
PROPERTIES
  RunsEnd
