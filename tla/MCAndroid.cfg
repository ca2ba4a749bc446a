SPECIFICATION MCSpec
CONSTANTS
    Peers = {p1}
    Budgets <- MCBudgets
    MaxClients = 1
    MaxCalls = 2
    MaxStarts = 2
    ann = ann
    bob = bob
    cyd = cyd
    Phoning = {ann}
    PageSize = 2
    MaxOps = 4
    Null = Null
INVARIANT DialHears  TakenOnce  PagesAddUp
CHECK_DEADLOCK FALSE
