CONSTANTS
    Homes = 2
    MaxSockets = 6
    p1 = p1
    q1 = q1
    Peers = {p1}
    Requests = {q1}
    MaxUpsets = 1
    Slots = {1, 2}
    EntryIds = {1, 2, 3, 4, 5}
    MaxVersion = 2
    MaxSlips = 1
SPECIFICATION AddressSpec
INVARIANTS
    AddressesAreSound
PROPERTIES
    TimeoutSparesSuccessor
    ReachedInTheEnd
CHECK_DEADLOCK FALSE
