CONSTANTS
    StartingCash = 1000
    NBars = 2
    HeartbeatEvery = 1
    BarVolume = 0
    Prices = {80, 100}
    Brokers = {"paper", "live_stub"}
    StrategyMayRaise = FALSE
    DiskMayFail = FALSE
    MaxProcesses = 3
    MaxSessions = 2
    MayCrash = TRUE
    ReadsMayFail = FALSE
    RiskCfg <- MCRisk
    CostCfg <- MCCost
    OrderLists <- MCOrderLists

SPECIFICATION RecoverySpec

INVARIANTS
    RecoveryTypeOK
    RestoreRebuildsBook
    TicksAdvance
    LiveNeverTrades
    RestoredPeakWasReached

PROPERTIES
    BooksAreGuarded

\* No process is started after the last one has gone.
CHECK_DEADLOCK FALSE
