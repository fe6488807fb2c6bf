CONSTANTS
    Wires = {1, 2, 3}
    MaxMishaps = 2
SPECIFICATION FairPageSpec
PROPERTY StaysConnected
CHECK_DEADLOCK FALSE
