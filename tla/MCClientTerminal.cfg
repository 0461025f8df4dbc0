SPECIFICATION TerminalSpec
CONSTANTS
    MaxTyped = 4
    MaxBatch = 2
    MaxEsc = 4
    MaxWrites = 2
    MaxChunks = 4
    MaxAttach = 1
    MaxHandovers = 1
    Keep = 2
INVARIANTS
    
    ModesKnown
    TerminalKnown
PROPERTIES
    NothingLingers
CHECK_DEADLOCK FALSE
