SPECIFICATION FairSpec
CONSTANTS
    MaxSeq = 2
    MaxConns = 2
    BatchSize = 2
    OutCap = 1
    Faults = {"reconnectFails"}
INVARIANTS
    ReplayThenLive
PROPERTIES
    ShownOnceInOrder
    NewestShown
CHECK_DEADLOCK FALSE
