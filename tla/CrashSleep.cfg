SPECIFICATION Spec
CONSTANTS
    Ext = {e1, e2}
    Debug = {}
    HeartbeatInterval = 1
    CheckInterval = 2
    Buffer = 0
    MaxSleep = 1
    MaxFaults = 1
    MaxLaunches = 1
    MaxReboots = 1
    MaxEnds = 0
SYMMETRY Symmetry
INVARIANTS GuardedCheckSound OldStateGone
CHECK_DEADLOCK FALSE
