SPECIFICATION MCSpec
CONSTANTS
    Callers = {c1, c2}
    Peers = {p1}
    MaxTunnels = 2
    MaxManagers = 2
    MaxStream = 2
    Calls = {k1, k2}
    MaxTasks = 2
    MaxEnds = 1
INVARIANT GateShutDuringSession ReplacedIsDown DecisionsBacked
PROPERTY NewestStays OverIsLetGo
CHECK_DEADLOCK FALSE
