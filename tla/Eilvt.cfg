SPECIFICATION FairSpec
CONSTANTS
  Cpus = {p, q}
  Offsets <- MCOffsets
  BadOffset = 1
  Vectors <- MCVectors
  Menus <- MCMenus
  Bios <- MCBios
  MaxCalls = 2
CHECK_DEADLOCK FALSE
INVARIANT ConsistentOffsets
PROPERTIES LiveRegisterKept ReservationKept CallReturns
