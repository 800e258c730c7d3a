SPECIFICATION Spec
CONSTANTS
    m1 = m1
    m2 = m2
    m3 = m3
    m4 = m4
    Message <- MCMessage
    RateLimit = 2
    MaxIdle = 3
    TicksPerSecond = 2
    MaxTime = 6
    MaxFaults = 2
SYMMETRY Symmetry
INVARIANTS
    DroppedFollowsPassed
    QuickRepeatIsExcused
CHECK_DEADLOCK FALSE
