SPECIFICATION LoopSpec
CONSTANTS
    u1 = u1
    u2 = u2
    loop = loop
    h1 = h1
    User <- MCOneUser
    Task <- MCTask
    Loop = loop
    Periods <- MCPeriods
    TrialUser <- MCNobody
    Blocked <- MCNobody
    GraceDays = 2
    TrialDays = 2
    DaysAhead = 1
    MaxLag = 1
    MaxPass = 1
    MaxFaults = 1
    Horizon = 4
    MaxRows = 1
INVARIANT OncePerSubscription
CHECK_DEADLOCK FALSE
