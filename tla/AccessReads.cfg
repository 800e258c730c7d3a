SPECIFICATION ReadSpec
CONSTANTS
    u1 = u1
    t1 = t1
    t2 = t2
    User <- MCUser
    Task <- MCTask
    Periods <- MCPeriods
    TrialUser <- MCUser
    GraceDays = 2
    TrialDays = 2
    DaysAhead = 1
    MaxLag = 1
    Horizon = 4
    MaxRows = 3
SYMMETRY Symmetry
PROPERTY AnswerWasTrue
CHECK_DEADLOCK FALSE
