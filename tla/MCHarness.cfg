CONSTANTS
    StartingCash = 1000
    BarVolume = 16
    MaxBars = 7
    MaxBarsExpanding = 12
    RiskCfg <- MCRisk
    CostCfg <- MCCost
    OrderLists <- MCOrderLists
    Frames <- MCFrames
    Settings <- MCSettings

SPECIFICATION HarnessSpec

INVARIANTS
    WindowsInFrame
    TestsAreFresh
    CurveStartsAtWindow
    KillStaysInFold

PROPERTIES
    EvaluationEnds
