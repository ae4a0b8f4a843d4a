SPECIFICATION FairSpec
CONSTANTS
    Windows = {w1}
    MaxVersion = 3
    Files <- MCFiles
    Main = "servers"
    MaxStarts = 4
INVARIANTS
    LaunchesAll
    FallsBack
    DiskBounded
PROPERTIES
    UnpackedIntact
    Settles
CHECK_DEADLOCK FALSE
