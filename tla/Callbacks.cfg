SPECIFICATION TextSpec
CONSTANTS
    Base = 3
    MaxDigits = 2
    MaxLength = 5
INVARIANTS
    ParsesIdsExactly
    ParsersAgree
CHECK_DEADLOCK FALSE
