SPECIFICATION Spec
CONSTANTS
    Rolls <- MCRolls
    Transports <- MCTransports
    Contracts <- MCContracts
    PartyCount = 2
    Resolve <- MCResolve
    Mix <- MCMix
    RecentItems = 5
    Answers <- MCAnswers
    Draws <- MCDraws
    Seconds <- MCSeconds
    MaxRound = 2
    Workers = 2
    Shapes <- MCShapes
    RING = 3
    WARMUP = 1
    LatencyStress = "realistic"
    LatencyPerRound = 2
    LatencyMax = 11
    Spikes <- MCSpikes
    Reply <- MCReply
    LoadBytes = 1048576
    LoadStress = "realistic"
    LoadPerRound = 1
    LoadMax = 12
    Drops <- MCSpikes
    Limit <- MCLimit
    Load <- MCLoad
    SECONDS_PER_DAY = 2
    KEEP_DAYS = 2
    MAX_DAYS_PER_TICK = 1
    KeepStress = "harsh"
    Misses <- MCMisses
    Horizon = 9
    MaxStep = 5
    Cabinets = {"parquet", "sqlite"}
    FilingStress = "harsh"
    Skips <- MCSkips
    Stores <- MCStores
    FilingMax = 3
    StormLevel = "harsh"
    Cores = 8
    Free = 100
    StormDraws <- MCStormDraws
    Weather <- MCWeather
    Took <- MCTook
    TIMEOUT = 2
    StormMax = 2
    Feeder = {f1, f2}
    ARRIVAL = 3
    Landing = {2, 3}
    PER_READER = 1
    BASE_READERS = 1
    TWEAK_READERS = 2
    TWEAK_AT = 1
    SCALE_AT = 2
    CEILING = 3
    BacklogMax = 2
    Served = {s1, s2}
    CAPACITY = 2
    MaxFailing = 2
    EventMax = 2
    Nodes = {"L", "R", "S"}
    Roles <- MCRoles
    Typed = {"R"}
    Locations = 1
    GRACE = 1
    LOST = 2
    MaxFiles = 2
    MaxCrashes = 1
INVARIANTS
    TurnsAreEven
    SteadyStaysGreen
    FiguresAgree
    SpikesFade
    CeilingShows
    NothingLost
    LeaksAreTold
    TickTellsAll
    DrainedOnce
    HeardIsCurrent
    LeavesInOrder
    RedIsRemembered
PROPERTY
    Sequential
CHECK_DEADLOCK FALSE
