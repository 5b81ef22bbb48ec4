CONSTANTS
    Apps = {a}
    MaxLaunches = 2
    MaxPolls = 2
    Tasks = {t1, t2}
    ShellPids = {1, 2}
    MaxOutput = 2
    NoTask = NoTask
    LogRequests = {r1, r2}
    Resources = {m}
    Loggers = {l1, l2}
    NoLogger = NoLogger
    MaxRequests = 2
SPECIFICATION Spec
CHECK_DEADLOCK FALSE
INVARIANTS PidIsOfItsLaunch NoSegmentLeft TasksAreAlive ReportedOnce
SYMMETRY Alike
PROPERTIES PassedOnce
