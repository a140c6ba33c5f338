SPECIFICATION Spec
CONSTANTS
    MaxRows = 2
    Window = 2
    MaxInFlight = 1
    MaxCalls = 2
    Paths = {"cached", "simple", "ping"}
    Writers = {"buffer", "stream"}
    MaxAttempts = 2
    RetryOnSerialization = TRUE
    MaxResponseRows = 2
    CapsBytes = TRUE
    Reuse = {"ok", "pg", "cap", "lost", "noplan", "args", "broken"}
INVARIANTS
    OutputIsOnePass
    SuccessIsComplete
    ReturnLeavesWireClean
    IdleIsUnwatched
PROPERTIES
    ImplementsCall
