SPECIFICATION TrafficSpec
CONSTANTS
    c1 = c1
    c2 = c2
    Clients = {c1, c2}
    UdpFd = 2
    TcpFd = 3
    ClientFds = {1, 4}
    MaxQueue = 1
    Faults <- SomeFaults
    Nobody = Nobody
    Garbage = Garbage
INVARIANTS
    TypeOK
    WatchesOpenSockets
    TurnsOnOpenSockets
    OwnDestination
PROPERTIES
    TcpServed
CHECK_DEADLOCK FALSE
