CONSTANTS
    s1 = s1
    s2 = s2
    s3 = s3
    Sockets = {s1, s2, s3}
    None = None
    Impolite = Impolite
    Polite = Polite
    Nothing = Nothing
    Names = {1, 2}
    MaxRetries = 1
    MaxBurst = 1
    MaxQueue = 2
    MaxDials = 2
    MaxTroubles = 1
SPECIFICATION SessionSpec
INVARIANTS
    OneSocket
    DiscoveryIsPursued
    ConnsAreSound
PROPERTIES
    CutOffIsWoken
    LinkIsKept
    DialIsNotRefused
CHECK_DEADLOCK FALSE
