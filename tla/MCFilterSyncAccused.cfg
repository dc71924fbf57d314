SPECIFICATION Spec
CONSTANTS
  Nodes = {h1}
  Honest = {h1}
  Tip = 2
  Stored = 0
  HeadersPerRequest = 2
  FiltersPerRequest = 1
  MaxLookaheadRanges = 2
  Threads = {"connect", "message", "tick"}
CHECK_DEADLOCK FALSE
INVARIANTS
  HonestNotAccused
