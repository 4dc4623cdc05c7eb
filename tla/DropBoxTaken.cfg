SPECIFICATION FairSpec
CONSTANTS
    n1 = n1
    n2 = n2
    Node <- TwoNodes
    Locations = 1
    Remote <- FirstLocation
    BurstsEvery <- EverySecond
    Burst = 2
    Faulty = TRUE
    Mortal <- OneNode
    MaxRound = 2
INVARIANTS
    TypeOK
    OnlyOneWins
    JudgedOnce
    SplitIsTaken
PROPERTIES
    EveryFileJudged
