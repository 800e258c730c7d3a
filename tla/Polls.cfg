SPECIFICATION Spec
CONSTANTS
    u1 = u1
    u2 = u2
    p1 = p1
    p2 = p2
    t1 = t1
    t2 = t2
    User <- MCUser
    Poll <- OnePoll
    Options = 2
    Task <- MCTask
    MaxFaults = 1
SYMMETRY Symmetry
INVARIANTS
    AnswersAreTrue
    ResultsAreHonest
CHECK_DEADLOCK FALSE
