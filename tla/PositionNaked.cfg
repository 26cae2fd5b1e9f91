SPECIFICATION PositionFairSpec
CONSTANTS
    t1 = t1
    Tickets <- MCTickets
    MaxLevel = 5
    PlanStop = 1
    BreakEven = 2
    BreakEvenAt = 3
    PartialAt = 4
    TrailAt = 4
    Lots = 4
    PartialTP = FALSE
    Trailed <- MCNone
    Naked <- MCTickets
    Unconfirmed <- MCNone
PROPERTIES
    NakedNotKept
CHECK_DEADLOCK FALSE
