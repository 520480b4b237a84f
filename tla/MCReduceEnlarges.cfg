CONSTANTS
    StartingCash = 1000
    NBars = 2
    HeartbeatEvery = 1
    BarVolume = 16
    Prices = {80, 100, 200}
    Brokers = {"paper"}
    StrategyMayRaise = FALSE
    DiskMayFail = FALSE
    RiskCfg <- MCRisk
    CostCfg <- MCCost
    OrderLists <- MCSingleOrders

SPECIFICATION Spec

INVARIANTS
    ReduceNeverEnlarges
