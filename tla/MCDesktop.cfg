SPECIFICATION MCSpec
CONSTANTS
    Peers = {p1}
    Slots = {k1}
    MaxCalls = 2
    Requests = {r1}
    Caps = {1}
    KernelNat = TRUE
    ModeRequests = {h1, h2}
    Servers = {s1, s2}
    no_one = no_one
    MaxEnds = 1
INVARIANT SlotsOwned NoTightLoop 
PROPERTY EndedLeave
CHECK_DEADLOCK FALSE
