SPECIFICATION ScanSpec
CONSTANTS
    MaxRows = 3
    Window = 2
    MaxInFlight = 1
    MaxCalls = 2
    Paths = {"scan", "batched"}
    Writers = {"buffer"}
    MaxAttempts = 1
    RetryOnSerialization = FALSE
    MaxResponseRows = 0
    CapsBytes = FALSE
    Reuse = {"ok", "pg", "noplan", "args", "shape", "callback", "broken"}
    InitialCap = 1
    BatchSize = 2
    NullRows = {3}
    CallbackErrors = {"other"}
INVARIANTS
    ScanInOrder
    NullIsZero
    ScanIsComplete
    ScanLeavesWireClean
PROPERTIES
    RefusalIsFinal
