SPECIFICATION Spec
CONSTANTS
    w1 = w1
    s1 = s1
    s2 = s2
    s3 = s3
    Windows = {w1}
    Slots = {s1, s2, s3}
    Ops = {"get", "login", "logout"}
    Rotates = TRUE
    Bare = {"refresh"}
    MaxTokens = 3
    MaxRegs = 2
    MaxFaults = 1
    MaxEnds = 2
    MaxReloads = 1
SYMMETRY Symmetry
INVARIANTS
    RefreshesInFlight
    NoStaleAnswer
CHECK_DEADLOCK FALSE
