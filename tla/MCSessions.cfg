SPECIFICATION SessionsSpec
CONSTANTS
    Ids = {1, 2}
    Creator = 1
    Races = {"kill", "attach"}
    Requests <- FourRequests
    NameOf <- FourNames
    NoName = ""
    MaxSessions = 2
INVARIANTS
    GatesAndFd
    ExitStatusIsTrue
    
    TableConsistent
    NoneLost
PROPERTIES
    
    DeadAreDeleted
CHECK_DEADLOCK FALSE
