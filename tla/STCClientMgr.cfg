CONSTANTS
  MaxRun = 2
  Copies = 2
  QueueMode = "BALANCE"
  Limits = {2}
  MaxLimit = 2
  MaxRequeue = 1
  MaxLookups = 1
  EnqueueMayFail = FALSE
  Stacking = TRUE
  Rescanned = {1}
  Crashing = TRUE
SPECIFICATION LiveSpec
INVARIANTS
  NextRunDefined RetryArmed NeverIdle NoRunLost OneClientPerRun
PROPERTY EveryRunDisposed
