CONSTANTS
    Requesters = {s1, s2}
    Clients = {c1}
    Requests = {r1, r2}
    Ids = {i1, i2}
    MaxOutstanding = 1
    Services = {"ui_state", "close"}
    None = None
SPECIFICATION FairSpec
PROPERTIES
    EveryRequestEnds
    ImplementsRequestReply
CHECK_DEADLOCK FALSE
