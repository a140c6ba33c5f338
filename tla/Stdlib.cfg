SPECIFICATION StdlibFairSpec
CONSTANTS
    MaxRows = 2
    Window = 2
    MaxInFlight = 1
    MaxCalls = 2
    Paths = {"iterator", "cached", "ping"}
    Writers = {"stream"}
    MaxAttempts = 1
    RetryOnSerialization = FALSE
    MaxResponseRows = 0
    CapsBytes = FALSE
    Reuse = {"ok", "pg", "cap", "noplan", "args", "broken"}
INVARIANTS
    RowsInOrder
    EOFIsComplete
    DoneFreesClient
PROPERTIES
    CancelReturns
    SqlCancelReturns
