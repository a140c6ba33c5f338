SPECIFICATION CodecSpec
CONSTANTS
    MinPerHour = 2
    SecPerMin = 3
    TicksPerSec = 2
    Int64Max = 268435455
    Int32Max = 1048575
    Width = 2
    WordBytes = 2
    ByteBase = 4
    IntSize = 8
    Callers = {1, 2}
    Arrays = {1, 2, 3, 4}
    MaxWrites = 1
    Cap = 1
    Inputs <- MCInputs
INVARIANTS
    TimeTextDenotes
    NumbersDenote
    StringsDenote
    RowRoundTrip
    ContainerRoundTrip
    FormatsAgree
    ViewsAgree
    OuterFieldWins
    BytesArePrivate
