SPECIFICATION WalkSpec
CONSTANTS
    Ratio = 3
    Lengths = {7, 10}
    Samples = {2, 3}
    Tests = {1, 2}
    MaxWindows = 3
INVARIANTS
    NothingStraddles
CHECK_DEADLOCK FALSE
