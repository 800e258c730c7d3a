SPECIFICATION StoreSpec
CONSTANTS
    u1 = u1
    u2 = u2
    t1 = t1
    t2 = t2
    User <- OneUser
    Task <- OneTask
    Periods <- OnePeriod
    TrialUser <- NoUser
    GraceDays = 2
    TrialDays = 2
    DaysAhead = 1
    MaxLag = 1
    Horizon = 4
    MaxRows = 1
INVARIANT ContentFollowsSubscription
CHECK_DEADLOCK FALSE
