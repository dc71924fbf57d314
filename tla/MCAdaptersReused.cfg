SPECIFICATION FairSpec
CHECK_DEADLOCK FALSE
CONSTANTS
  s1 = s1
  s2 = s2
  NoScript = NoScript
  Impls <- NeutrinoOnly
  Scripts <- MCScripts
  Pays <- MCPays
  Spends <- MCSpends
  Tip = 2
  StartHeights <- MCStarts
  BadBlockRuns = {2}
  MaxConfigures = 2
  MaxWatches = 2
  MaxGivenUp = 0
INVARIANTS
  ProcessIsReused
