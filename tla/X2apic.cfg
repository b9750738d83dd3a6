SPECIFICATION Spec
CONSTANTS
  Boot = "bsp"
  Aps <- MCAps
  Dests <- MCDests
  StrayWake = FALSE
CHECK_DEADLOCK FALSE
INVARIANTS RightInterface BigIdAddressable IpiIntact
PROPERTIES LegalSwitch
