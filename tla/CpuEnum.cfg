SPECIFICATION Spec
CONSTANTS
  ApicIds <- MCApicIds
  BootApicId = 2
  DisabledApicId = 4
  NrCpuIds = 4
  MaxDisabled = 4
INVARIANTS BootSlotFree MappingInjective EnumInv
PROPERTY Persistent
