SPECIFICATION StdlibSpec
CONSTANTS
    MaxRows = 1
    Window = 2
    MaxInFlight = 1
    MaxCalls = 1
    Paths = {"iterator"}
    Writers = {"stream"}
    MaxAttempts = 1
    RetryOnSerialization = FALSE
    MaxResponseRows = 0
    CapsBytes = FALSE
    Reuse = {"ok", "pg", "cap", "noplan", "args", "broken"}
INVARIANTS
    CloseLeavesUsable
