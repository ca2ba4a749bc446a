SPECIFICATION MCSpec
CONSTANTS
    Setters = {s1, s2}
    Loops = {l1, l2}
    Callers = {c1}
    Tokens = {tokA}
    NoToken = no_token
    NoLoop = no_loop
    NoLock = no_lock
    AttemptCap = 1
    MaxConns = 2
    MaxOps = 2
    MaxIdx = 8
    MaxInbox = 2
    Threads = {t1, t2}
    FgTask = fg
    NoThread = none
    MaxActive = 2
    MaxIntents = 4
INVARIANT NoLostIntent GateFollowsPush LoopIsTheRules DrainCovers
PROPERTY IntentSettles Settles Resubscribes
CHECK_DEADLOCK FALSE
