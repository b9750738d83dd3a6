SPECIFICATION Spec
CONSTANTS
  NumPages <- MCNumPages
  HoleFirst <- MCHoleFirst
  HoleEnd <- MCHoleEnd
  Dd1Count <- MCDd1Count
  Dd2Skip <- MCDd2Skip
  Dd2Count <- MCDd2Count
  Load1Size <- MCLoad1Size
  Load2Val <- MCLoad2Val
  Load2Size <- MCLoad2Size
  GDT_PAGE <- MCGdtPage
  Pages <- MCPages
  PtePage <- MCPtePage
  GuestGdt <- MCGdtPage
  MaxEpoch = 3
  Cuts <- MCCuts
  FaultSets <- MCFaultSets
INVARIANTS HandlerIsolated ResumeConsistent CleanMessagesTrue SnapshotFrozen
PROPERTIES KeepsPromise RestoreCompletes
CHECK_DEADLOCK FALSE
