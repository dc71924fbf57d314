SPECIFICATION MCFairSpec
CONSTANTS
  Tip = 2
  MaxHeaders = 2
  MaxCFHashes = 2
  CheckptInterval = 1
  Servers = {s1}
  Conns = {c1, c2}
  MaxRequests = 2
  Requests <- MCRequests
CHECK_DEADLOCK FALSE
INVARIANTS
  PeerTypeOK
  DeliveredIsRecorded
  AnswersInOrder
  OneShotDelaysFirstReply
PROPERTIES
  RequestsAreServed
