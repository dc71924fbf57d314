SPECIFICATION RelevantSpec
CONSTANTS
  Tip = 6
  MaxHeaders = 4
  MaxCFHashes = 4
  CheckptInterval = 3
  Servers = {1, 2}
  Conns = {c1}
  MaxRequests = 2
  Requests <- MCRequests
  Scenarios <- AllScenarios
CHECK_DEADLOCK FALSE
INVARIANTS
  ScenarioTypeOK
  PunishedAfterFaultPasses
  ReleasedInOrder
PROPERTIES
  ScenarioEnds
