SPECIFICATION FairSpec
CONSTANTS
    Size = 1
    Rounds = 2
    Silence = 1
    Starting = 2
    Suspended <- FirstNode
    Mortal <- FirstNode
    MaxLife = 2
    StartFails = TRUE
INVARIANTS
    TypeOK
    ViewIsCurrent
    RestartStays
PROPERTIES
    OnlySilentRestarted
    HungIsEnded
    LastRoundRead
