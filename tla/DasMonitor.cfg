SPECIFICATION Spec
CONSTANTS
    Pvs = {"p", "q"}
    NoPv = "-"
    FactNames <- MCFactNames
    Defs <- MCDefs
    FirstDefs <- MCFirstDefs
    Values = {1, 2}
    Procs = {"c"}
    Budgets <- MCBudgets
INVARIANTS FactsSettled SignalsAgree ObserversCurrent
CHECK_DEADLOCK FALSE
