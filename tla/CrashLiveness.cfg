SPECIFICATION FairSpec
CONSTANTS
    Ext = {e1, e2}
    Debug = {}
    HeartbeatInterval = 1
    CheckInterval = 2
    Buffer = 0
    MaxSleep = 0
    MaxFaults = 1
    MaxLaunches = 1
    MaxReboots = 0
    MaxEnds = 1
INVARIANT ReportedOnce
PROPERTY CrashHandled
CHECK_DEADLOCK FALSE
