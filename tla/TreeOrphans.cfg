SPECIFICATION FairSpec
CONSTANTS
    Size = 1
    Grace = 2
    ClusterWait = 6
    NodeWait = 3
    Boot = 3
    Busy = 2
    Leftover = FALSE
    Unwritable = FALSE
CHECK_DEADLOCK FALSE
INVARIANTS
    NoOrphans
