SPECIFICATION Spec
CONSTANTS
    c1 = c1
    c2 = c2
    Clients = {c1, c2}
    UdpFd = 2
    TcpFd = 3
    ClientFds = {1, 4}
    MaxQueue = 2
    Faults <- NoFaults
    Nobody = Nobody
    Garbage = Garbage
INVARIANTS
    SourceIsSender
CHECK_DEADLOCK FALSE
