SPECIFICATION FairSpec
CONSTANTS
    Carriers = {c1, c2}
    Closer = closer
    InboundCap = 2
    MaxTokens = 2
    MaxTasks = 1
INVARIANT NoStaleCall TasksAreWoken InboundIsDrained

