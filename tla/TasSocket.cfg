CONSTANTS
    Header = 2
    Body = 1
    Ids = {i1, i2}
    MaxRequests = 2
    MaxTimeouts = 1
SPECIFICATION FairSpec
INVARIANTS NothingGarbled NothingLost ReplyIsOwn
PROPERTIES EveryMessageIsRead
CHECK_DEADLOCK FALSE
