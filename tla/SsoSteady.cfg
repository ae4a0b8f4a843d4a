SPECIFICATION FairSpec
CONSTANTS
    w1 = w1
    w2 = w2
    s1 = s1
    s2 = s2
    Windows = {w1, w2}
    Slots = {s1, s2}
    Ops = {"get", "login"}
    Rotates = FALSE
    Bare = {}
    MaxTokens = 2
    MaxRegs = 1
    MaxFaults = 1
    MaxEnds = 0
    MaxReloads = 0
INVARIANTS
    SessionKept
PROPERTIES
    GetTokenEnds
CHECK_DEADLOCK FALSE
