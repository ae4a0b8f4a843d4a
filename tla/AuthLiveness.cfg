SPECIFICATION FairSpec
CONSTANTS
    Conns = {c1}
    Tasks = {t1, t2}
    Called = {"start", "reload", "get", "check", "reauth", "connect", "create", "signout"}
    MaxRestarts = 1
PROPERTIES
    LoginShared
    Restored
    TaskEnds
    StateHeals
CHECK_DEADLOCK FALSE
