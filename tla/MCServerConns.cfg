SPECIFICATION FairSpec
CONSTANTS
    Clients = {a, b}
    Agents = {a, b}
    MaxConns = 3
    NoClient = NoClient
    Critical = 2
INVARIANTS
    TableInOrder
PROPERTIES
    NobodyHeldForEver
CHECK_DEADLOCK FALSE
