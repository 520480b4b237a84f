CONSTANTS
    StartingCash = 1000
    NBars = 3
    HeartbeatEvery = 0
    BarVolume = 16
    MaxOrders = 2
    Prices = {80, 120}
    Brokers = {"paper"}
    StrategyMayRaise = FALSE
    DiskMayFail = FALSE
    RiskCfg <- MCRisk
    CostCfg <- MCCost
    OrderLists <- MCOrderLists

SPECIFICATION ResearchSpec

INVARIANTS
    EngineTradesLikeSession
    SegmentAgreesWithinDay

PROPERTIES
    KillHaltsEngine
