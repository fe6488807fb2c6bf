CONSTANTS
    s1 = s1
    s2 = s2
    s3 = s3
    Sockets = {s1, s2, s3}
    None = None
SPECIFICATION Spec
INVARIANTS
    KeepsItsRelay
