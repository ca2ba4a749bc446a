SPECIFICATION MCSpec
CONSTANTS
    M = 32
    CIsn = 30
    SIsn = 30
    MaxUp = 3
    MaxDown = 2
    HighWater = 1
    LowWater = 1
    MaxOoo = 2
    Wnd = 3
    RetryLimit = 2
    d1 = d1 d2 = d2 d3 = d3 d4 = d4 f1 = f1 f2 = f2 k1 = k1 k2 = k2 h1 = h1
    Datagrams = {d1, d2, d3, d4}
    SizeOf <- MCSizeOf
    FlowOf <- MCFlowOf
    FragKeyOf <- MCFragKeyOf
    UdpFlows = {f1, f2}
    HostOf <- MCHostOf
    GuestMtu = 1
    ReplySizes = {3}
    None = None
    MAX_FRAG_STREAMS = 1
    MAX_FRAG_BYTES = 3
    FRAG_EXPIRY = 0
    UDP_IDLE = 0
    MAX_FRAG_DATA = 1
    RECV_BUF = 2
    IdMod = 4
    ClockMod = 16
    ClockStart = 15
    MaxTime = 2
    MaxCopies = 1
    MaxReplies = 2
INVARIANT StreamsIntact GuestIsOwed NothingStalls DatagramsCross
CHECK_DEADLOCK FALSE
