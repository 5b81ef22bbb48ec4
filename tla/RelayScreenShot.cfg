CONSTANTS
    Requesters = {s1}
    Clients = {c1}
    Requests = {r1, r2}
    Ids = {i1, i2}
    MaxOutstanding = 1
    Services = {"screen_shot"}
    None = None
SPECIFICATION FairSpec
PROPERTIES
    ScreenShotAnswered
CHECK_DEADLOCK FALSE
