SPECIFICATION FairSpec
CONSTANTS
    c1 = c1
    c2 = c2
    NoCall = NoCall
    Calls = {c1, c2}
    MaxSessions = 2
    MaxRefreshes = 1
    Fails = TRUE
INVARIANTS
    OneRequest
    NotOverridden
    FlagIsHeld
PROPERTIES
    CallEnds
    EditingEnds
CHECK_DEADLOCK FALSE
