SPECIFICATION FairSpec
CONSTANTS
    Files <- MCFiles
    MaxScans = 2
    MaxText = 2
    MaxPolls = 1
    MaxOpen = 1
INVARIANTS
    OneProjectScan
    StoppedHidden
    LastRequestKept
PROPERTIES
    AutoInOrder
    ScanEnds
    CatchesUp
