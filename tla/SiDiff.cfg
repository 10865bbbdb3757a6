SPECIFICATION Spec
CONSTANTS
    MaxLength = 3
    Horizon = 7
    Hour = 2
    Skew = 2
INVARIANTS TouchesOnlySurface
CHECK_DEADLOCK FALSE
