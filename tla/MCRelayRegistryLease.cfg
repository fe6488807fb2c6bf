CONSTANTS
    p1 = p1
    s1 = s1
    s2 = s2
    Peers = {p1}
    Sockets = {s1, s2}
    None = None
    MaxGeneration = 2
    MaxBatch = 2
    MaxQueue = 2
    MaxRestarts = 0
SPECIFICATION RegistrySpec
PROPERTIES
    OnlyOwnerDeletesLease
CHECK_DEADLOCK FALSE
