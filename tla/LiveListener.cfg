CONSTANTS
  MaxFiles = 3
  MaxConts = 3
  MaxModes = 3
  MaxPackets = 1
  MaxTime = 2
  IndexPeriod = 1
  Starts = {0, 3}
  Flags = {"none"}
  MaxToggles = 1
SPECIFICATION MCSpec
CHECK_DEADLOCK FALSE
INVARIANTS ListenerWoken StreamedInOrder
