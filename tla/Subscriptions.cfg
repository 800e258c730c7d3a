SPECIFICATION Spec
CONSTANTS
    u1 = u1
    u2 = u2
    t1 = t1
    t2 = t2
    User <- MCUser
    Task <- MCTask
    Periods <- MCPeriods
    TrialUser <- MCTrialUser
    GraceDays = 2
    TrialDays = 2
    DaysAhead = 1
    MaxLag = 1
    Horizon = 4
    MaxRows = 2
SYMMETRY Symmetry
INVARIANTS
    Supersession
    StatusMatchesDate
PROPERTIES
    RowsMoveForward
    SweepKeepsAccess
    KeepsPromise
CHECK_DEADLOCK FALSE
