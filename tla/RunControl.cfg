CONSTANTS
  MaxRun = 4
  Powers = {2, 4}
  MaxTries = 3
  StorageMayFail = TRUE
SPECIFICATION Spec
INVARIANTS
  RunNumberUnique NextRunReadable
