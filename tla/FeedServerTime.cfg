SPECIFICATION FeedSpec
CONSTANTS
    Ahead = 4
    BarLength = 2
    Count = 3
    MaxQuoteAge = 1
    MaxBarAge = 2
    Quarter = 4
    DayLength = 5
    MaxTrades = 1
    MaxPause = 2
    Horizon = 7
INVARIANTS
    DecidedOnTheMarket
CHECK_DEADLOCK FALSE
