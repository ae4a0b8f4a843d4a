SPECIFICATION FairSpec
CONSTANTS
    w1 = w1
    s1 = s1
    e1 = e1
    Windows = {w1}
    StartUpIds = {s1}
    EmergencyIds = {e1}
    Feed <- MCFeed
    MaxOpens = 2
    MaxFails = 2
    MaxTurns = 2
INVARIANTS
    ToastedOnce
    DismissedHidden
    NewsKept
PROPERTY
    EmergencyIsToasted
CHECK_DEADLOCK FALSE
