CONSTANTS
    StartingCash = 1000
    NBars = 3
    HeartbeatEvery = 2
    BarVolume = 0
    Prices = {80, 100}
    Brokers = {"paper"}
    StrategyMayRaise = FALSE
    DiskMayFail = FALSE
    MaxProcesses = 2
    MaxSessions = 1
    MayCrash = FALSE
    ReadsMayFail = FALSE
    RiskCfg <- MCRisk
    CostCfg <- MCCost
    OrderLists <- MCOrderLists

SPECIFICATION RecoverySpec

INVARIANTS
    ContinuesAfterLastBar

CHECK_DEADLOCK FALSE
