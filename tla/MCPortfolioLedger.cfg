CONSTANTS
    StartingCash = 100
    Fills <- MCFills
    MaxFills = 4

SPECIFICATION Spec

INVARIANTS
    TypeOK
    PositionIsNetTraded
    PnlExplainsBook
    RealizedLessCommissions

\* A run stops at MaxFills.
CHECK_DEADLOCK FALSE
