CONSTANTS
    Ids = {main, other}
    DefaultId = main
    Pids = {p1, p2}
    main = main
    other = other
    p1 = p1
    p2 = p2
    Retries = 2
    LaunchTime = 1
    SyncTime = 4
    ResponseTimeout = 4
    None = None
    Empty = Empty
    Connections = {c1}
    c1 = c1
    Invoked <- MCInvoked
SPECIFICATION FairSpec
INVARIANTS RetriedIsAwaited AnswersItsOwnStep
PROPERTY EveryRequestAnswered
CHECK_DEADLOCK FALSE
