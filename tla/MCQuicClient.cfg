SPECIFICATION FairSpec
CONSTANTS
    Callers = {c1, c2}
    Dials = {d1, d2, d3, d4, d5, d6}
    NoDial = no_dial
    NoCaller = no_caller
    MaxLosses = 1
PROPERTY ReconnectsAnyhow
CHECK_DEADLOCK FALSE
