SPECIFICATION CallsSpec
CONSTANTS
    Clients = {"e1", "e2"}
    Callers = {"loop", "m5"}
    ClientOf <- FirstEngine
    Engines = {"e1", "e2"}
    UserOf <- TwoUsers
    MaxCalls = 2
    MaxConns = 2
    MaxDeaths = 1
    MaxStarts = 2
    t1 = t1
    t2 = t2
    Tickets <- TwoTickets
    MaxLevel = 5
    PlanStop = 1
    BreakEven = 2
    BreakEvenAt = 3
    PartialAt = 4
    TrailAt = 4
    Lots = 4
    PartialTP = TRUE
    Trailed <- TheFirst
    Naked <- TheSecond
    Unconfirmed <- TheSecond
    scalp = scalp
    Tags <- OneTag
    MainMagic <- NoTag
    MaxAttempts = 3
    MaxPolls = 2
    MaxRuns = 2
    MaxCrashes = 2
    LateLanding = TRUE
    FindFails = TRUE
    Durable = TRUE
INVARIANTS
    CallsAnswered
    BookIsTrue
    RulesHold
    FilledIsFounded
    UnknownHalts
    AmbiguousNeverResent
PROPERTIES
    LockReleased
    StopNeverWidens
    OrdersEnd
CHECK_DEADLOCK FALSE
