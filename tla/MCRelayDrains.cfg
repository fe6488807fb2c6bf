CONSTANTS
    p1 = p1
    p2 = p2
    s1 = s1
    s2 = s2
    m1 = m1
    m2 = m2
    d1 = d1
    d2 = d2
    Peers = {p1}
    Sockets = {s1, s2}
    None = None
    MaxGeneration = 2
    Frames = {m1, m2}
    Byes = {}
    Drains = {d1, d2}
    FetchLimit = 1
    D1Fails = FALSE
SPECIFICATION FairForwardingSpec
PROPERTIES
    HandoverBeforeDelete
    StoredIsCollected
