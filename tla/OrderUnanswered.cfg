SPECIFICATION Spec
CONSTANTS
    aplus = aplus
    Tags <- MCTags
    MainMagic <- MCTags
    MaxAttempts = 3
    MaxPolls = 1
    MaxRuns = 1
    MaxCrashes = 0
    LateLanding = FALSE
    FindFails = TRUE
    Durable = TRUE
INVARIANTS
    AtMostOneOpen
CHECK_DEADLOCK FALSE
