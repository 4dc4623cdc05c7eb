SPECIFICATION FairSpec
CONSTANTS
    Size = 1
    Rounds = 1
    Silence = 1
    Starting = 2
    Suspended <- FirstNode
    Mortal <- NoNode
    MaxLife = 2
    StartFails = FALSE
PROPERTIES
    LastRoundNeverLost
