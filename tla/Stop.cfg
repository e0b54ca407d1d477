CONSTANTS
  NumSessions = 2
  NumBlocks = 4
SPECIFICATION FairSpec
INVARIANTS
  BlocksAccounted
PROPERTIES
  StopReturns
CHECK_DEADLOCK FALSE
