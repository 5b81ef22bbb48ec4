CONSTANTS
    Requesters = {s1, s2}
    Clients = {c1, c2}
    Requests = {r1, r2}
    Ids = {i1, i2}
    MaxOutstanding = 1
    Services = {"ui_state", "close", "screen_shot", "other"}
    None = None
SPECIFICATION Spec
SYMMETRY Symmetry
INVARIANTS
    QueueHoldsLiveWaiters
    AtMostOneAnswer
    AnswerIsForTheRequest
    NativeStateComplete
    CloseAnsweredClientGone
CHECK_DEADLOCK FALSE
