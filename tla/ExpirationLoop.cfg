SPECIFICATION FairLoopSpec
CONSTANTS
    u1 = u1
    u2 = u2
    loop = loop
    h1 = h1
    User <- MCUser
    Task <- MCTask
    Loop = loop
    Periods <- MCPeriods
    TrialUser <- MCOneUser
    Blocked <- MCOneUser
    GraceDays = 2
    TrialDays = 2
    DaysAhead = 1
    MaxLag = 1
    MaxPass = 1
    MaxFaults = 3
    Horizon = 5
    MaxRows = 2
INVARIANTS
    LoopTypeOK
    MarkedWasDelivered
    RepeatsNeedMishap
    LapseIsAnnounced
PROPERTIES
    RemindersAreTimely
    StaleOnlyWithinPass
    ReminderArrives
    LapsedLeavesTheList
CHECK_DEADLOCK FALSE
