CONSTANTS
  Devices = {"d", "e"}
  Conns = {"x", "y"}
  Clients = {"sms"}
  Pool = 2
  None = None
  Files <- MCFiles
  Metas <- MCMetas
  Vals = {0, 1}
  MaxEvents = 3
  MaxReads = 2
SPECIFICATION Spec
CHECK_DEADLOCK FALSE
INVARIANTS ClientView ValuesDescribed VarIdsUnique
