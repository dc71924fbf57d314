SPECIFICATION OneKindSpec
CONSTANTS
  Nodes = {h1, h2, m1}
  Honest = {h1, h2}
  Tip = 2
  Stored = 0
  HeadersPerRequest = 1
  FiltersPerRequest = 1
  MaxLookaheadRanges = 2
  Threads = {"connect", "message", "tick"}
CHECK_DEADLOCK FALSE
INVARIANTS
  FilterSyncTypeOK
  HeaderRangesFollowTip
PROPERTIES
  FeedsInOrder
