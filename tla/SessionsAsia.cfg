SPECIFICATION SessionsSpec
CONSTANTS
    AsiaStart = 46
    AsiaEnd = 14
    LondonStart = 16
    LondonEnd = 33
    NewYorkStart = 16
    NewYorkEnd = 34
    Sessions = {"ASIA", "LONDON", "OVERLAP", "NEW_YORK", "OFF"}
    Weekdays = {0, 1, 2, 3, 4}
    BlockFirst = 2
    BlockLast = 4
INVARIANTS
    AsiaKnownInLondon
CHECK_DEADLOCK FALSE
