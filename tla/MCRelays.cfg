CONSTANTS
    k1 = k1
    k2 = k2
    Links = {k1, k2}
    MaxEarly = 3
    MaxLinkRequests = 2
    MaxTimeouts = 1
    Candidates = {"a", "b"}
    MaxBox = 2
    MaxMisses = 1
    Offers = {"o1", "o2"}
    MaxPending = 1
SPECIFICATION RelaysSpec
SYMMETRY Symmetry
INVARIANTS
    LinksAreSound
    PunchingIsSound
CHECK_DEADLOCK FALSE
