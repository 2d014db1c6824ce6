CONSTANTS
  PixelMaps <- MCPixelMaps
  BankSets <- MCBankSets
  MonitorFormat <- MCMonitorFormat
  Monitors = {1, 2}
  Sections <- MCSections
  StateSections <- MCStates
  MonSections <- MCMonSections
  Stamps = {2}
  EventThresh = 2
  AncThresh = 2
  Strict = TRUE
  MaxPulses = 3
  MaxOdd = 1
  NULL = NULL
  Keys = {1, 2}
  Defs <- MCDefs
  Values = {1, 2}
  PVStamps = {1, 3}
  DefaultStart = 1
  Sawtooth = FALSE
  TimeModulus = 1000
  MaxDescs = 3
  MaxUpdates = 3
  MaxMarks = 2
  Annotations <- MCAnnotations
  MaxPackets = 4
SPECIFICATION MCSpec
CHECK_DEADLOCK FALSE
INVARIANTS IndexAligned EventsAccounted ValuesKept MarkersInOrder
