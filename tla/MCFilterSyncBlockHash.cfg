SPECIFICATION Spec
CONSTANTS
  Nodes = {m1}
  Honest = {}
  Tip = 2
  Stored = 0
  HeadersPerRequest = 2
  FiltersPerRequest = 2
  MaxLookaheadRanges = 2
  Threads = {"connect", "message"}
CHECK_DEADLOCK FALSE
INVARIANTS
  FiltersNameTheirBlock
