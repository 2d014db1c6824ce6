CONSTANTS
  MaxModes = 3
  MaxFiles = 4
  MaxPending = 2
  MaxFileSize = 1
  MaxClients = 1
  SendPausedData = FALSE
SPECIFICATION LiveSpec
INVARIANTS
  AnnouncedInOrder StreamComplete NoMissedWakeup AllFilesAnnounced
PROPERTY DataDoneReached
CHECK_DEADLOCK FALSE
