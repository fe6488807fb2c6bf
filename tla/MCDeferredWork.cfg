CONSTANTS
    p1 = p1
    p2 = p2
    Peers = {p1, p2}
    Kinds = {"negotiation", "discover"}
    ScanLimit = 3
    MaxBatch = 2
    MaxQueue = 4
    ForwardBudget = 0
    Budget = 0
    StuckAfter = 0
    g1 = g1
    g2 = g2
    g3 = g3
    h1 = h1
    h2 = h2
    Guests = {g1, g2, g3}
    Hosts = {h1, h2}
    HostOf <- RelayOf
    First = g2
    Nobody = Nobody
    MaxSlips = 1
SPECIFICATION DeferredSpec
INVARIANTS
    QueueIsSound
    RoomsAreSound
PROPERTIES
    QueueIsServed
    UrgentFirst
    DiscoverAnswered
    PeersAreTold
CHECK_DEADLOCK FALSE
