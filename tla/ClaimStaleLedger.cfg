SPECIFICATION Spec
CONSTANTS
    p1 = p1
    p2 = p2
    r1 = r1
    Process <- TwoProcesses
    Reader <- OneReader
    Key <- OneKey
    PerKey = 2
    Ordered = FALSE
    Shared = TRUE
    MaxRound = 1
    Scans = 1
    Pressured <- Nobody
    Mortal <- Nobody
    Faulty <- Nobody
    Writable <- WholeLane
CHECK_DEADLOCK FALSE
INVARIANTS
    DrainedLedgerIsWhole
