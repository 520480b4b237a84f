CONSTANTS
    StartingCash = 500
    NBars = 3
    HeartbeatEvery = 2
    BarVolume = 0
    Prices = {60, 100}
    StrategyMayRaise = FALSE
    DiskMayFail = FALSE
    RiskCfg <- MCRisk
    CostCfg <- MCCost
    OrderLists <- MCOrderLists
    EnabledValues = {TRUE, FALSE}
    WaitSteps = 1
    VenuePrices = {100}
    CommissionReport <- MCCommissionReport

SPECIFICATION Spec

INVARIANTS
    TypeOK
    RiskBeforeBroker
    RestoreRebuildsBook
    DisabledNeverTrades
    EachPathDeliversOnce
    BookIsWhatWasDelivered

PROPERTIES
    KillIsFinal
    ImplementsGuardedBook
    DropsWhatItDelivers
    EndsUnlessUnanswered
