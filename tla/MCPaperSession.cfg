CONSTANTS
    StartingCash = 1000
    NBars = 3
    HeartbeatEvery = 2
    BarVolume = 0
    Prices = {0, 80, 200}
    Brokers = {"paper", "live_stub"}
    StrategyMayRaise = TRUE
    DiskMayFail = TRUE
    RiskCfg <- MCRisk
    CostCfg <- MCCost
    OrderLists <- MCOrderLists

SPECIFICATION Spec

INVARIANTS
    TypeOK
    RiskBeforeBroker
    PeakDominatesCurve
    RestoreRebuildsBook
    EquityRowsMatchCurve
    JournalTellsSession
    JournalIsPrefix
    StubNeverTrades

PROPERTIES
    ImplementsGuardedBook
    KillIsFinal
    EndsDisconnected
