SPECIFICATION FairSpec
CHECK_DEADLOCK FALSE
CONSTANTS
  MaxPeers = 3
  MaxRuns = 2
  MaxPhases = 2
INVARIANTS
  LabTypeOK
  LeasesLast
  CleanAfterRun
  TorIsStopped
  DistinctIdentities
PROPERTIES
  RunsEnd
