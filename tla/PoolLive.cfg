SPECIFICATION FairSpec
CONSTANTS
    Callers = {a, b}
    Conns = {k1, k2}
    Chans = {w1}
    MaxConns = 1
    MinIdle = 1
    LifetimeCheck = TRUE
    Calls = {"Drain", "WaitIdle", "Close"}
    MaxRetries = 1
    MaxCancels = 1
PROPERTIES
    ShutdownFreesWaiters
    CloseStopsGoroutines
