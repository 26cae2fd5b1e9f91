SPECIFICATION Spec
CONSTANTS
    ClockAhead = 0
    BarLength = 2
    Count = 3
    MaxQuoteAge = 1
    MaxBarAge = 2
    Quarter = 4
    DayLength = 5
    MaxTrades = 1
    MaxPause = 2
    FeedHorizon = 7
    Calendar <- Releases
    WindowBefore <- QuietBefore
    WindowAfter <- QuietAfter
    CalendarHour = 12
    Refreshed = 1
    Late = 1
    WorldHorizon = 25
    AsiaStart = 46
    AsiaEnd = 14
    LondonStart = 16
    LondonEnd = 33
    NewYorkStart = 16
    NewYorkEnd = 34
    TradedSessions <- AllSessions
    Weekdays = {0, 1, 2, 3, 4}
    BlockFirst = 2
    BlockLast = 4
    Chunk = 3
    Wanted = {4, 6}
    HigherRatio = 2
    MaxBar = 9
    MaxHistory = 2
    MaxJobs = 3
    Readers = {"decision", "scan"}
    Length <- BarLengths
    Lag = 1
    Start = 21
    CacheHorizon = 26
    MaxAge = 2
    Controlled = TRUE
    FillRaises = TRUE
    MaxNow = 4
    MaxRestarts = 1
    ScalpSights <- ScalpFeatures
    MostSights = 3
    ScalpSettings <- ScalpConditions
    ScalpModels <- ScalpTraders
    RefusedLive = {}
    MaxSpread = 10
    SlipCost = 3
    CommissionCost = 1
    MinScore = 65
    Reach = 168
    SideCap = 2
    ScalpLimit = 1
    MedianSpread = 2
    SetupSights <- SetupFeatures
    MostSetupSights = 4
    SetupSettings <- SetupConditions
    SetupStrategies <- AllStrategies
    ChartLookback = 1
    LeastLeg = 1
    ChartAtrs = {1, 2}
    ChartPrices <- FourPrices
    ChartWicks <- NoWicks
    ChartBars = 6
    ChartStill = FALSE
    BreakBeyond = 1
    ShiftBeyond = 2
    LeastGap = 1
    LeastBody = 1
    LeastBlock = 1
    BlockReach = 3
    BlockTests = 2
    PoolAtrs = {1, 2}
    PoolPrices <- ThreePrices
    PoolWicks <- ShortWicks
    PoolBars = 5
    PoolStill = FALSE
    EqualWithin = 0
    KnownDays <- DayBefore
    KnownWeeks = {}
    KnownAsia = {}
    LeastBeyond = 1
    MostBeyond = 3
    LeastReject = 33
    LatestReject = 2
    ScannedBars = 3
    FewestBars = 2
    LessonPrices <- TwoPrices
    LessonWicks <- LongWicks
    LessonBars = 5
    LessonStill = FALSE
    StopAway = 2
    TargetInRisks = 1
    LessonHorizon = 4
    Folds = 2
    EmbargoShare = 1
    HigherBar = 3
    HistoryLengths = {7, 9, 10}
    SampleBars = {2, 3}
    TestBars = {1, 2, 3}
    MostWindows = 3
    HalfSpread = 0
    WorstSlip = 1
    StopsLevel = 1
    SideCost = 1
    TopPrice = 4
    BarRange = 3
    Gapped = FALSE
    Lacking = FALSE
    ReplayedBars = 3
    BarsPerDay = 2
    PlanTags = {"t1", "t2"}
    OpenLimit = 2
    DayLimit = 2
    SlipLimit = 1
    LeastRR <- RewardOf
    HoldLimit <- HoldOf
    RUnit = 2
    BreakEvenAt = 2
    BreakEvenOffset = 1
    TrailAt = 3
    TimeStopMin = 1
    EvidenceGrades <- Evidence
    BaseEvidence <- NearMiss
    VariedFields <- Varied
    HintShare = 20
INVARIANTS
    TradedOnce
    StructureSound
    LiveIsReplay
    DecidedOnTheMarket
    HistorySound
    JobsSerialised
    ScalpMirror
    PlansSound
    ScalpMonotone
    SessionsSound
    LessonsSound
    BooksBalance
    QuietAtNews
PROPERTIES
    WorseNeverBetter
    MissingNeverHelps
    ZonesOnlyDecay
    SweepStays
CHECK_DEADLOCK FALSE
