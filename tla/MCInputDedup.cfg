SPECIFICATION FairSpec
CONSTANTS
    MaxConns = 2
    MaxTyped = 3
    MaxWrite = 2
    MaxDupInputSize = 2
    ReadSize = 3
INVARIANTS
    AtMostOnce
    InOrderNoHole
    IInv
PROPERTIES
    EveryByteArrives
CHECK_DEADLOCK FALSE
