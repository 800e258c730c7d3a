SPECIFICATION FairSpec
CONSTANT MaxFaults = 3
INVARIANTS
    TypeOK
    SchemaServesCode
    RecordedWasApplied
    RefusalNeedsFault
PROPERTY StartsUnlessTorn
CHECK_DEADLOCK FALSE
