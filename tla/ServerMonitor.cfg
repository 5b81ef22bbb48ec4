CONSTANTS
    MaxDue = 2
    MaxServers = 3
SPECIFICATION MonitorSpec
CHECK_DEADLOCK FALSE
INVARIANTS NoneBesides
PROPERTIES ButtonsComeBack
