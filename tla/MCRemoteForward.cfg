SPECIFICATION PortFairSpec
CONSTANTS
    l1 = l1
    l2 = l2
    d1 = d1
    Clients <- ThreeClients
    DeviceOf <- ThreeDevices
    SessionOf <- ThreeSessions
    NoDevice = NoDevice
    MaxConns <- OneReconnects
    MaxClock = 2
    DormantTTL = 1

    
PROPERTIES
    NeverStolen
    KeptWhileAsleep
    PortSettles
CHECK_DEADLOCK FALSE
