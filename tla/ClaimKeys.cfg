SPECIFICATION FairSpec
CONSTANTS
    p1 = p1
    p2 = p2
    r1 = r1
    Process <- TwoProcesses
    Reader <- OneReader
    Key <- OneKey
    PerKey = 2
    Ordered = TRUE
    Shared = TRUE
    MaxRound = 1
    Scans = 2
    Pressured <- OneProcess
    Mortal <- OneProcess
    Faulty <- Nobody
    Writable <- ShortLane
CHECK_DEADLOCK FALSE
INVARIANTS
    TypeOK
    KeyOrderWhileOpen
    ConsumedIsSigned
    ContentionIsInjected
PROPERTIES
    EveryRoundJudged
