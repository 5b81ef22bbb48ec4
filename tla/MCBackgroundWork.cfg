CONSTANTS
    v = v
    w = w
    App = App
    NoTrack = NoTrack
    Together = Together
    Steps = 3
    FrameTime = 10
    Beyond = 30
    Ids <- MCIds
    Command <- MCCommand
    Scripts <- MCScripts
    Targets = {v, w}
    MaxLives = 2
    EventNames = {"press", "show"}
    MouseEvents = {"press"}
    EventRequests <- MCEventRequests
    Signals = {"s"}
    GraphicsItems = {w}
    Properties = {"p", "q"}
    QuickWindows = {w}
    Classes = {"c", "d"}
    FixtureRequests <- MCFixtureRequests
    MaxQueue = 2
    Resources = {"cpu", "mem"}
    LogCommands <- MCLogCommands
    MaxLines = 2
    LogThreads = {"main", "worker"}
    Main = "main"
    Folders = {"a", "b", "r"}
    ReadOnly = {"r"}
    Configurations <- MCConfigurations
    NotGiven = NotGiven
    LogPath = "a"
    LogSize = 0
    Suites <- MCSuites
    MaxRequests = 3
    MaxSteps = 3
SPECIFICATION Spec
CHECK_DEADLOCK FALSE
INVARIANTS GesturesAreTrue NothingMissed NothingDangles FramesAddUp
           FixturesFit LogsGoOn
