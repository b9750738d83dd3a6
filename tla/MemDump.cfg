SPECIFICATION Spec
CONSTANTS
  Entries = 2
  NumFrames = 4
  Cr3 = 0
  Vas <- MCVas
  TssWord = 7
  TableWords <- MCTableWords
INVARIANTS PatchExact FailureIsClean
CHECK_DEADLOCK FALSE
