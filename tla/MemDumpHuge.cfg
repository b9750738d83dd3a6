SPECIFICATION Spec
CONSTANTS
  Entries = 2
  NumFrames = 4
  Cr3 = 0
  Vas <- MCVas
  TssWord = 7
  TableWords <- MCHugeWords
INVARIANT NxCleared
CHECK_DEADLOCK FALSE
