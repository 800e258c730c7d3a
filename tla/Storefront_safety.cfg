SPECIFICATION StoreSpec
CONSTANTS
    u1 = u1
    u2 = u2
    t1 = t1
    t2 = t2
    User <- OneUser
    Task <- TwoTasks
    Periods <- OnePeriod
    TrialUser <- NoUser
    GraceDays = 2
    TrialDays = 2
    DaysAhead = 1
    MaxLag = 1
    Horizon = 4
    MaxRows = 2
SYMMETRY Symmetry
INVARIANTS
    StoreTypeOK
    MembersAreListedOnce
    NoSaleBeforeLaunch
    SectionsWereEarned
    CancelWorksUntilEndDate
CHECK_DEADLOCK FALSE
