SPECIFICATION Spec
CONSTANTS
  MaxLvts <- MCMaxLvts
  Firmware <- MCFirmware
INVARIANTS TypeOK NoStrayError DownIsClean ErrorsReported ResumeRestores LegacyDelivered
PROPERTIES MaskedBeforeCleaned EnabledWhenReady SwitchedWhenQuiet
