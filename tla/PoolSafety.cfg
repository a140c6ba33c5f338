SPECIFICATION Spec
CONSTANTS
    Callers = {a, b, c}
    Conns = {k1, k2}
    Chans = {w1, w2}
    MaxConns = 1
    MinIdle = 0
    LifetimeCheck = TRUE
    Calls = {"Drain", "Close"}
    MaxRetries = 2
    MaxCancels = 1
SYMMETRY Symmetry
INVARIANTS
    ExclusiveUse
    OwnedIsLive
    NoIdleWhileWaiting
    InUseExact
    NoLostWaiter
    OneAnswer
    ShutIsFinal
    OpenAccounting
