CONSTANTS
    StartingCash = 1000
    NBars = 2
    HeartbeatEvery = 1
    BarVolume = 0
    Prices = {60, 100}
    StrategyMayRaise = FALSE
    DiskMayFail = FALSE
    RiskCfg <- MCRisk
    CostCfg <- MCCost
    OrderLists <- MCOrderLists
    EnabledValues = {TRUE, FALSE}
    WaitSteps = 1
    VenuePrices = {100}
    CommissionReport <- MCCommissionReport

SPECIFICATION Spec

INVARIANTS
    NothingForgotten

