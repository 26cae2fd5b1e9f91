SPECIFICATION RuntimeSpec
CONSTANTS
    Clients = {"e1", "e2"}
    Callers = {"loop", "m5"}
    ClientOf <- MCClientOf
    Engines = {"e1", "e2"}
    UserOf <- MCOneUser
    MaxCalls = 0
    MaxConns = 2
    MaxDeaths = 0
    MaxStarts = 2
INVARIANTS
    AtMostOneEngine
CHECK_DEADLOCK FALSE
