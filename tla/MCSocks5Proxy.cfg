SPECIFICATION Spec
CONSTANTS
    a1 = a1 a2 = a2 x1 = x1 x2 = x2 u1 = u1 u2 = u2 p1 = p1 p2 = p2 l1 = l1 l2 = l2
    Apps = {a1, a2}
    ProtoOf <- MCProtoOf
    Addrs = {x1, x2}
    TargetOf <- MCTargetOf
    RequestsOf <- MCRequestsOf
    EndingsOf <- MCEndingsOf
    UpLen <- MCUpLen
    DownLen <- MCDownLen
    DialErrors = {"Refused", "Blocked"}
    Blocked = {x1}
    Callers = {u1, u2}
    Ports = {p1, p2}
    AppPort = p1
    Listeners = {l1, l2}
    None = None
    MAX_NAME = 255
    MAX_STREAMS = 1
    MaxConns = 2
    MaxFaults = 1
INVARIANT RelayFaithful NoneForgotten NobodyHangs
SYMMETRY MCSymmetry
CHECK_DEADLOCK FALSE
