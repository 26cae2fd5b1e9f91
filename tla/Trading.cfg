SPECIFICATION TradingSpec
CONSTANTS
    flatten = flatten
    Halts <- NoHalt
    Flattens <- FlattenOnce
    MaxTickets = 2
    MaxConcurrent = 2
    MaxTrades = 1
    Flaky <- SecondFlaky
    SeesAll = FALSE
    Periods <- DayAndWeek
    DaysIn <- LengthOf
    Limit <- LimitOf
    Manual <- WeekByHand
    Scale = 10
    TradeCap = 5
    AutoReasons <- SelfClearing
    HandReasons <- Manually
    MaxDay = 2
    MinEquity = 1
    MaxEquity = 3
    aplus = aplus
    scalp = scalp
    Tags <- BothTags
    MainMagic <- OnlyAPlus
    MaxAttempts = 2
    MaxPolls = 1
    MaxRuns = 2
    MaxCrashes = 1
    LateLanding = FALSE
    FindFails = FALSE
    Durable = FALSE
INVARIANTS
    LimitsHold
    LateEntriesBounded
    DoneClosesListed
    FilledIsManaged
    NothingStranded
    PastLimitBounded
    AtMostOneOpen
PROPERTIES
    LocksLast
    BudgetCoversStop
    ImplementsTradeIntent
CHECK_DEADLOCK FALSE
