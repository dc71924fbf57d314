SPECIFICATION Spec
CONSTANTS
  Tip = 6
  MaxHeaders = 4
  MaxCFHashes = 4
  CheckptInterval = 3
  Servers = {1, 2}
  Conns = {c1}
  MaxRequests = 1
  Requests <- MCRequests
  Scenarios <- BadCFilter
CHECK_DEADLOCK FALSE
INVARIANTS
  PassOnlyIfFaultServed
