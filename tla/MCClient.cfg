CONSTANTS
    a = a
    b = b
    Ends = {a, b}
    PongTimeout = 2
    PingRetry = 1
    Fresh = 4
    DormantMax = 4
    MaxDelay = 0
    StallAfter = 2
    MaxBacklog = 1
    MaxBreaks = 1
    MaxUpsets = 1
    Dialers = {"a", "b"}
    MaxAsks = 2
    MaxWoes = 2
    Sockets = {1, 2}
    JoinTTL = 6
    FullTTL = 24
    Beat = 8
    MaxUnderway = 4
    MaxLost = 2
    DialNames = {1, 2, 3}
    MaxSlips = 2
    Wires = {1, 2, 3}
    MaxMishaps = 2
SPECIFICATION ClientSpec
INVARIANTS
    ClientTypeOK
    LinkedAtBothOrNeither
    ListedOnceBeaten
PROPERTIES
    IsPlainSocket
    HealthyIsKept
    HalfDeadChannelIsGivenUp
    HealthyChannelIsUsable
    RelayedIsLinkedInTheEnd
    DemoRecovers
    ChannelIsSpared
CHECK_DEADLOCK FALSE
