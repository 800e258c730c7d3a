SPECIFICATION Spec
CONSTANTS
    MaxSignals = 3
    MaxFaults = 3
INVARIANTS
    TornDownInOrder
    PollingIsAlone
PROPERTIES
    StopsUnlessHalfway
    ServesAgain
CHECK_DEADLOCK FALSE
