SPECIFICATION FairSpec
CONSTANTS
    Size = 3
    Grace = 2
    ClusterWait = 6
    NodeWait = 3
    Boot = 3
    Busy = 2
    Leftover = TRUE
    Unwritable = TRUE
CHECK_DEADLOCK FALSE
INVARIANTS
    TypeOK
    NoOrphansOnceUp
PROPERTIES
    AskedIsHeard
    TreeEnds
