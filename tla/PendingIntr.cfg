SPECIFICATION FairSpec
CONSTANTS
  N = 4
  MaxLoops = 6
CHECK_DEADLOCK FALSE
INVARIANTS NothingMissed AckHasTarget NeverGivesUp
PROPERTY KeepsPromise
