CONSTANTS
    p1 = p1
    p2 = p2
    s1 = s1
    s2 = s2
    s3 = s3
    s4 = s4
    Pids = {p1}
    Sockets = {s1, s2, s3}
    Owner <- OneEach
    None = None
    MaxId = 2
    MaxDisturbances = 6
SPECIFICATION FairSpec
CHECK_DEADLOCK FALSE
INVARIANTS RegisteredMeansKnown
PROPERTIES EventuallyRegistered
