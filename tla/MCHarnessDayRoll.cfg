CONSTANTS
    StartingCash = 1000
    NBars = 3
    HeartbeatEvery = 0
    BarVolume = 16
    MaxOrders = 1
    Prices = {80, 100}
    Brokers = {"paper"}
    StrategyMayRaise = FALSE
    DiskMayFail = FALSE
    RiskCfg <- MCRisk
    CostCfg <- MCCost
    OrderLists <- MCOrderLists

SPECIFICATION ResearchSpec

INVARIANTS
    SegmentTradesLikeEngine

