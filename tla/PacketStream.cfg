SPECIFICATION Spec
CONSTANTS
  Monitors <- MCMonitors
  BankSets <- MCBankSets
  AlwaysSend = TRUE
  Samples <- MCSamples
  Kinds <- MCKinds
  Puts <- MCPuts
  MaxScript = 3
  SmallSize = 6
  SmallMax = 13
  LargeSize = 16
  LargeMax = 256
  MaxPuts = 3
  MaxFiles = 1
  MaxRuns = 1
  MaxRestarts = 1
  MaxLosses = 1
INVARIANTS PacketsIntact PrologueCurrent
CHECK_DEADLOCK FALSE
