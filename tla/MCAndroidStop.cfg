SPECIFICATION Spec
CONSTANTS
    Peers = {p1}
    Budgets <- StopBudget
INVARIANT CallEnds
CHECK_DEADLOCK FALSE
