SPECIFICATION Spec
CONSTANTS
  Tip = 5
  MaxHeaders = 2
  MaxCFHashes = 3
  CheckptInterval = 2
  Behaviors <- MCBehaviors
  Questions <- MCQuestions
CHECK_DEADLOCK FALSE
INVARIANTS
  WalkCoversChain
  FaultShowsWhereConfigured
