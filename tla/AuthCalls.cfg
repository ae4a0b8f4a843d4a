SPECIFICATION Spec
CONSTANTS
    Conns = {c1, c2}
    Tasks = {t1, t2}
    Called = {"start", "reload", "get", "connect", "create", "signout"}
    MaxRestarts = 1
SYMMETRY Symmetry
INVARIANTS
    ActiveAgrees
    KeptAtStart
CHECK_DEADLOCK FALSE
