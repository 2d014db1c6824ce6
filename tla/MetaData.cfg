\* Run metadata: see README.md.
SPECIFICATION Spec
CONSTANTS
  Sources = {1, 2}
  Devs = {1}
  Vars = {1, 2}
  Descs = {"a", "b"}
  NoDesc = ""
  FastKeys <- MCFastKeys
  Configured <- MCConfigured
  Choppers = {0}
  SavedSources = {1}
  MultLimit = 1
  ReservedId = 100
  Budgets <- MCBudgets
INVARIANTS SelfContained LostValuesInvalid
CHECK_DEADLOCK FALSE
