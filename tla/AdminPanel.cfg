SPECIFICATION Spec
CONSTANTS
    u1 = u1
    u2 = u2
    m1 = m1
    m2 = m2
    m3 = m3
    User <- TwoUsers
    ConfigAdmin <- OneUser
    Member <- TwoUsers
    Message <- ThreeMessages
    MaxAttempts = 2
    MaxRetries = 2
    MaxFaults = 3
    MaxPrompts = 1
SYMMETRY Symmetry
INVARIANTS
    PanelTypeOK
    GuessesAreBounded
    RepeatsNeedFailedReport
PROPERTY OnlyAdminsBroadcast
CHECK_DEADLOCK FALSE
