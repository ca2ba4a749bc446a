SPECIFICATION MCSpec
CONSTANTS
    Callers = {c1, c2}
    Dials = {d1, d2, d3, d4, d5, d6}
    NoDial = no_dial
    NoCaller = no_caller
    MaxLosses = 2
    Users = {u1, u2}
    Quic = TRUE
    Subscribers = TRUE
    MaxCalls = 1
INVARIANT HoldsNoMore NeverUnkept
PROPERTY StreamsAsPromised EmptyRoomEnds Reconnects
CHECK_DEADLOCK FALSE
