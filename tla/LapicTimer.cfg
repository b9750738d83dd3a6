SPECIFICATION FairSpec
CONSTANTS
  Machines <- MCMachines
  L = 5
  U = 40
  Div = 2
  MinPeriod = 100
  PmWrap = 4096
  Uint = 131072
  Word = 67108864
  Ticks <- MCTicks
  Rates <- MCRates
  PmStarts <- MCPmStarts
  Stalls <- MCStalls
CHECK_DEADLOCK FALSE
INVARIANTS CalibrationHonest TickSource StrayHarmless
PROPERTIES Fires BootEnds
