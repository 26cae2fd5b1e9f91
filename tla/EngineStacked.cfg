SPECIFICATION EngineSpec
CONSTANTS
    halt = halt
    flatten = flatten
    Halts <- MCNone
    Flattens <- MCNone
    MaxTickets = 2
    MaxConcurrent = 2
    MaxTrades = 2
    Flaky <- MCNone
    SeesAll = FALSE
INVARIANTS
    NoAveraging
CHECK_DEADLOCK FALSE
