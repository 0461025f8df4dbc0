SPECIFICATION FairSpec
CONSTANTS
    MaxSeq = 4
    MaxLen = 2
    MaxClock = 2
    MaxData = 2
    MaxFlushers = 1
    MaxHotChunks = 2
    MaxHotBytes = 3
    MaxColdBytes = 1
    SegmentTarget = 2
    MaxAge = 1
    FlushAge = 0
    BatchBytes = 2
    CompressMayFail = TRUE
INVARIANTS
    StoreConsistent
    NothingVanishes
    ResyncExact
PROPERTIES
    Reclaimed
CHECK_DEADLOCK FALSE
