SPECIFICATION Spec
CONSTANTS
    Half = 0
    MaxSlip = 0
    StopsLevel = 1
    Commission = 1
    Prices <- FivePrices
    MaxRange = 2
    Gaps = TRUE
    MinutesMissing = FALSE
    MaxBars = 2
    BarsPerDay = 2
    Tags = {"t1"}
    MaxConcurrent = 1
    MaxTrades = 1
    MaxSlippage = 1
    MinRR <- RewardOf
    HoldLimit <- HoldOf
    RUnit = 2
    BreakEvenAt = 2
    BreakEvenOffset = 1
    TrailAt = 3
    TimeStopMin = 1
INVARIANTS
    NeverFlatters
CHECK_DEADLOCK FALSE
