CONSTANTS
    StartingCash = 1000
    NBars = 3
    HeartbeatEvery = 1
    BarVolume = 0
    Prices = {80, 100}
    Brokers = {"paper"}
    StrategyMayRaise = FALSE
    DiskMayFail = TRUE
    MaxProcesses = 2
    MaxSessions = 1
    MayCrash = FALSE
    ReadsMayFail = TRUE
    RiskCfg <- MCRisk
    CostCfg <- MCCost
    OrderLists <- MCOrderLists

SPECIFICATION RecoverySpec

INVARIANTS
    ResumeRefusesKilled

CHECK_DEADLOCK FALSE
