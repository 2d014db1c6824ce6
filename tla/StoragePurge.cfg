CONSTANTS
  OldDisks <- MCOldDisks
  BlockSize = 2
  Limits = {1, 2}
  MaxContainers = 3
  MaxSize = 1
  PrologueSize = 1
  Modulus = 1000
  MaxStack = 2
  MaxFiles = 2
  MaxDay = 1
  MaxEvents = 1
SPECIFICATION Spec
CHECK_DEADLOCK FALSE
INVARIANTS BlocksAccounted OneCommand
PROPERTY SpaceRecovered
