SPECIFICATION RelayFairSpec
CONSTANTS
    MaxBytes = 2
    Window = 1
INVARIANTS
    HalfCloseIsExact

    
    
CHECK_DEADLOCK FALSE
