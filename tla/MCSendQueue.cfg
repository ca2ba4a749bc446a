SPECIFICATION MCSpec
CONSTANTS
    Waiters = {quinn}
    Droppers = {nat}
    Sizes = {1, 2}
    Cap = 3
    FrameCap = 6
    TrackCap = 1
    MAX_PENDING_TX_PKTS = 2
    MaxRx = 2
    MaxAttached = 2
INVARIANT NoLostWakeup NothingLost TunFlows
PROPERTY DrainComes
CHECK_DEADLOCK FALSE
