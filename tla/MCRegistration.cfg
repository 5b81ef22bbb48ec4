CONSTANTS
    p1 = p1
    p2 = p2
    s1 = s1
    s2 = s2
    s3 = s3
    s4 = s4
    Pids = {p1, p2}
    Sockets = {s1, s2, s3, s4}
    Owner <- TwoEach
    None = None
    MaxId = 2
    MaxDisturbances = 4
SPECIFICATION Spec
CHECK_DEADLOCK FALSE
INVARIANTS NoDanglingSocket NeverForgotten
PROPERTIES ClosingNeverReturns
