CONSTANTS
    p1 = p1
    s1 = s1
    s2 = s2
    Peers = {p1}
    Sockets = {s1, s2}
    None = None
    MaxGeneration = 2
    MaxBatch = 2
    MaxQueue = 2
    MaxRestarts = 1
SPECIFICATION FairRegistrySpec
PROPERTIES
    LivePeerIsRelisted
    GonePeerIsUnlisted
CHECK_DEADLOCK FALSE
