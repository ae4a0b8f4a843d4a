SPECIFICATION Spec
CONSTANTS
    w1 = w1
    s1 = s1
    s2 = s2
    s3 = s3
    a1 = a1
    a2 = a2
    NoAccount = NoAccount
    Windows = {w1}
    Slots = {s1, s2, s3}
    Accounts = {a1, a2}
    Impatient = FALSE
    MaxPulls = 2
    MaxFails = 1
    MaxChanges = 2
    MaxCrashes = 0
SYMMETRY Symmetry
INVARIANTS
    LockIsSound
    RightAccount
PROPERTY
    LockRefined
CHECK_DEADLOCK FALSE
