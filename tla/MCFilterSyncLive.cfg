SPECIFICATION FairSpec
CONSTANTS
  Nodes = {h1, m1}
  Honest = {h1}
  Tip = 1
  Stored = 0
  HeadersPerRequest = 1
  FiltersPerRequest = 1
  MaxLookaheadRanges = 2
  Threads = {"message", "tick"}
CHECK_DEADLOCK FALSE
PROPERTIES
  AllDelivered
