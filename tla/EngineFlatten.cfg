SPECIFICATION EngineSpec
CONSTANTS
    halt = halt
    flatten = flatten
    Halts <- MCHalts
    Flattens <- MCFlattens
    MaxTickets = 3
    MaxConcurrent = 2
    MaxTrades = 1
    Flaky <- MCNone
    SeesAll = FALSE
INVARIANTS
    DoneIsFlat
CHECK_DEADLOCK FALSE
