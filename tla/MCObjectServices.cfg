CONSTANTS
    n = n
    Objects = {a1, a2, a3}
    Names = {n}
    NoObject = NoObject
    MaxCreated = 3
    Toolkits <- MCToolkits
    Commands <- MCCommands
    FindRequests <- MCFindRequests
    MaxTargets = 2
    MaxRequests = 2
    Frames = {f1, f2}
    NoFrame = NoFrame
    Texts = {a, b}
    NoWidth = {b}
    NoHeight = {a}
    Outside = {a}
    Holders = {"NestedGraphicsWebView", "NestedWebView", "QGraphicsWebView", "WebChromeItem"}
    MaxElements = 3
    MaxNumber = 1
    MaxIndex = 1
SPECIFICATION MCSpec
CHECK_DEADLOCK FALSE
INVARIANTS IdIsGood ActsOnLive NameFound PagesServed
SYMMETRY Alike
