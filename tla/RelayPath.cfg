SPECIFICATION FairSpec
CONSTANTS
    r1 = r1
    p1 = p1
    s1 = s1
    json = json
    csv = csv
    u1 = u1
    Node <- PathNodes
    Pair <- BothPairs
    Subscription <- OneSubscription
    Serves <- PathServes
    Share <- PathShare
    Hashed <- PathHashed
    Executing <- Nobody
    SubOf <- PickedByOne
    PerRound = 1
    Faulty = TRUE
    Restartable <- ProcessNode
    MaxRound = 2
    MaxLife = 2
    MaxOrders = 2
    MaxTries = 2
CHECK_DEADLOCK FALSE
INVARIANTS
    TypeOK
    AccountedFor
    SentOnce
PROPERTIES
    HeldUntilHandedOn
    EverySettles
