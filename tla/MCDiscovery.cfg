CONSTANTS
    h = h
    a = a
    b = b
    Relays = {h, a, b}
    Home = h
    f1 = f1
    Frames = {f1}
    None = None
    ForwardLimit = 2
    MaxMoves = 2
    MaxUpsets = 1
    Bits = 3
    BucketSize = 3
    Alpha = 2
    Replication = 2
    MaxQueries = 5
    Settled = 6
    MaxCrashes = 1
SPECIFICATION DiscoverySpec
SYMMETRY Symmetry
INVARIANTS
    DiscoveryTypeOK
    FramesAreKept
    RoomIsFound
PROPERTIES
    LiveRouteIsFound
    ReachesNearest
CHECK_DEADLOCK FALSE
