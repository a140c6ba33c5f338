------------------------------ MODULE MCCodec ------------------------------
(* The inputs of Codec for TLC: the boundaries of every function, and enough *)
(* around them. *)
EXTENDS Codec

\* All days of the years around leap days, centuries, eras, the epochs and 0.
MCYears == {-401, -400, -5, -4, -1, 0, 1, 4, 100, 1600, 1900, 1904, 1969, 1970, 1999, 2000,
            2001, 2100, 2400, 4000}
MCDays ==
    UNION {LET first == DayNumber([year |-> y, month |-> 1, day |-> 1]) - 10957
           IN  first - 1 .. first + 366 : y \in MCYears}

\* Days at the limits of int32 and of an int64 of microseconds.
MCEdgeDays ==
    (Int64Max \div TicksPerDay) - 1 .. (Int64Max \div TicksPerDay) + 1
        \cup {-(Int64Max \div TicksPerDay), Int32Max, Int32Max - 1, -Int32Max, Int32Min}

MCNumerics ==
    [sign : {"pos", "neg", "NaN"}, weight : -2..2, dscale : 0..3,
     digits : {d \in BoundedSeq({0, 1, 10, 57, 99}, 3) : d = <<>> \/ d[1] # 0}]

MCNumberTexts ==
    BoundedSeq({"-", "+", "0", "7", ".", "e", "N"}, 5)
        \cup {<<"N", "a", "N">>, <<"I", "n", "f", "i", "n", "i", "t", "y">>,
              <<"-", "I", "n", "f", "i", "n", "i", "t", "y">>}

MCBytes == {10, 31, 32, 34, 92, 97, 128, 255}

MCCells == {Null, <<>>, <<0>>, <<2>>, <<1, 255>>}

MCColumns ==
    [name : BoundedSeq({10, 34, 44, 92, 97, 125}, 2), oid : {0, 23}, format : {0}]

MCArrays ==
    [val : BoundedSeq(MCCells, 3), ndim : {1}]
        \cup [val : {<<>>} \cup UNION {[1..m -> [1..n -> MCCells]] : m, n \in 1..2}, ndim : {2}]

MCBounds == {<<>>, <<5>>, <<1, 2>>}
MCRanges ==
    {[flags |-> 1, lower |-> Null, upper |-> Null], [flags |-> 24, lower |-> Null, upper |-> Null]}
        \cup [flags : {0, 2, 4, 6}, lower : MCBounds, upper : MCBounds]
        \cup [flags : {8, 12}, lower : {Null}, upper : MCBounds]
        \cup [flags : {16, 18}, lower : MCBounds, upper : {Null}]

\* Every type alone, and the ones that differ in their formats in any mix.
MCTypes ==
    DOMAIN Binary \cup DOMAIN ArrayElem \cup Ranges \cup Strings \cup {"JSON", "Numeric", "Custom"}
MCColumnTypes ==
    BoundedSeq({"Int4", "Text", "Numeric", "Int4Range", "NumericArray", "Custom"}, 3)
        \cup {<<o>> : o \in MCTypes}

\* Cells of a type: for the sized ones, bytes at the extremes of each position.
MCRaw(oid, format) ==
    IF format = 1 /\ oid \in DOMAIN WireLen
    THEN {[i \in 1..WireLen[oid] |-> IF i = 1 THEN a ELSE IF i = WireLen[oid] THEN c ELSE b] :
            a \in {0, 1, ByteBase \div 2, ByteBase - 1}, b, c \in {0, 1, ByteBase - 1}}
    ELSE {<<>>, <<1>>, <<0, 1>>, <<1, 2>>, <<2>>}

MCTargets ==
    [wrap : {"plain", "pointer"}, kind : Kinds] \cup [wrap : {"null"}, kind : NullKinds]

MCCellInputs ==
    UNION {[oid : {o}, format : {f}, target : MCTargets, raw : MCRaw(o, f)] :
            o \in DOMAIN WireLen \cup {"Text", "Bytea", "JSON", "JSONB", "Numeric", "Interval",
                  "Time", "TextArray", "NumericArray", "Int4Range", "Custom"},
            f \in {0, 1}}

\* Trees of embedded structs three deep: a struct embeds up to two, and the i-th of
\* these n[i].
MCFields == {<<>>, <<"a">>, <<"b">>, <<"a", "b">>}
MCPaths(n) == {<<>>} \cup {<<i>> : i \in 1..Len(n)} \cup UNION {{<<i, j>> : j \in 1..n[i]} : i \in 1..Len(n)}
MCStructsOf(n) ==
    {[p \in MCPaths(n) |->
        [fields |-> f[p],
         embeds |-> CASE Len(p) = 0 -> Len(n) [] Len(p) = 1 -> n[p[1]] [] Len(p) = 2 -> 0]] :
        f \in [MCPaths(n) -> MCFields]}
MCStructs == UNION {MCStructsOf(n) : n \in BoundedSeq(0..2, 2) \ {<<2, 2>>}}

MCInputs(p) ==
    CASE p = "timestamp" -> {d * TicksPerDay + t : d \in MCDays, t \in {0, 1, TicksPerDay - 1}}
      [] p = "date" -> MCDays \cup MCEdgeDays
      [] p = "time" -> 0..TicksPerDay
      [] p = "timetz" -> {0, 1, TicksPerDay} \X (-16 * SecPerHour .. 16 * SecPerHour)
      [] p = "interval" -> (-100..100) \X {-2, 0, 3} \X {-25, -12, -11, -1, 0, 1, 12, 13}
      [] p = "numeric" -> MCNumerics
      [] p = "number" -> MCNumberTexts
      [] p = "string" -> BoundedSeq(MCBytes, 5)
      [] p = "row" -> BoundedSeq(MCCells, 3)
      [] p = "description" -> BoundedSeq(MCColumns, 2)
      [] p = "array" -> MCArrays
      [] p = "composite" -> BoundedSeq(MCCells, 3)
      [] p = "range" -> MCRanges
      [] p = "formats" -> [cols : MCColumnTypes, binaryOIDs : SUBSET {"Custom", "Numeric"}]
      [] p = "cell" -> MCCellInputs
      [] p = "struct" -> [type : MCStructs, columns : {<<"a", "b", "c">>}]
      [] p = "buffers" -> {0}
=============================================================================
