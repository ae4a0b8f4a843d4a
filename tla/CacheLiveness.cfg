SPECIFICATION FairSpec
CONSTANTS
    w1 = w1
    w2 = w2
    s1 = s1
    w3 = w3
    a1 = a1
    NoAccount = NoAccount
    Windows = {w1, w2, w3}
    Slots = {s1}
    Accounts = {a1}
    Impatient = TRUE
    MaxPulls = 2
    MaxFails = 0
    MaxChanges = 0
    MaxCrashes = 1
INVARIANTS
    NoLockLeft
PROPERTIES
    CallEnds
    LockHeals
CHECK_DEADLOCK FALSE
