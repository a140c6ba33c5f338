------------------------------- MODULE Codec -------------------------------
(***************************************************************************)
(* What happens to the bytes of a result between the wire and the program: *)
(* the pure functions of Framing, Dispatch, FieldIndex, Temporal, Numeric  *)
(* and Escape, each on the inputs it may be given, and the buffers their   *)
(* output goes through (BufferPool).                                       *)
(*                                                                         *)
(* A behaviour is about one part.  For a pure function it is one input:    *)
(* the functions keep no state, so a step changes nothing.  For "buffers"  *)
(* the callers of the buffer pool run.                                     *)
(***************************************************************************)
EXTENDS Temporal, Numeric, Framing, Dispatch, FieldIndex, BufferPool

CONSTANT Inputs(_)      \* the inputs a part is given

Parts == {"timestamp", "date", "time", "timetz", "interval", "numeric", "number", "string",
          "row", "description", "array", "composite", "range", "formats", "cell", "struct",
          "buffers"}

\* What a part can be given: x is something the server can send, or a type the
\* program can define.
IsInput(p, x) ==
    CASE p \in {"timestamp", "date", "time"} -> x \in Int
      [] p = "timetz" -> x \in Nat \X Int
      [] p = "interval" -> x \in Int \X Int \X Int
      [] p = "numeric" -> IsNumeric(x)
      [] p = "number" -> x \in Seq(STRING)
      [] p = "string" -> x \in Seq(Byte)
      [] p \in {"row", "composite"} -> x \in Seq(CellValues)
      [] p = "description" -> x \in Seq(ColumnValues)
      [] p = "array" -> IsArray(x.val, x.ndim)
      [] p = "range" -> IsRange(x)
      [] p = "formats" -> x \in [cols : Seq(TypeNames), binaryOIDs : SUBSET TypeNames]
      [] p = "cell" -> IsCell(x)
      [] p = "struct" -> IsStructType(x.type) /\ x.columns \in Seq(STRING)
      [] OTHER -> TRUE

ASSUME InputsAssumption == \A p \in Parts : \A x \in Inputs(p) : IsInput(p, x)

VARIABLES part, in

codecVars == <<part, in, bufVars>>

CodecInit ==
    /\ BufferInit
    /\ part \in Parts
    /\ in \in Inputs(part)

CodecNext ==
    \/ part = "buffers" /\ BufferNext /\ UNCHANGED <<part, in>>
    \/ part # "buffers" /\ UNCHANGED codecVars

CodecSpec == CodecInit /\ [][CodecNext]_codecVars

-----------------------------------------------------------------------------
(* Properties *)

\* What the encoders of date and time types print, and what a scan stores, is
\* the instant, day, time or interval the server sent: before and after both
\* epochs, across leap years and centuries and before the year 0, where Go's
\* division and floor division differ.
TimeTextDenotes ==
    /\ part = "timestamp" => TimestampDenotesItself(in)
    /\ part = "date" => DateDenotesItself(in)
    /\ part = "time" => TimeDenotesItself(in)
    /\ part = "timetz" => TimeTZDenotesItself(in[1], in[2])
    /\ part = "interval" => IntervalDenotesItself(in[1], in[2], in[3])

\* encodeNumericBinary prints the value that was sent, in JSON's grammar.  The
\* validators of the text encoders take every JSON number, and of the rest only
\* numbers that JSON writes in another way (Lax): these they leave unquoted.
NumbersDenote ==
    /\ part = "numeric" => NumericDenotesItself(in)
    /\ part = "number" => ValidatorsTakeNumbers(in)

\* Both builds of the escaper write the same JSON string, which reads back as
\* the bytes that went in; so do the column names from the TOON header.
StringsDenote ==
    /\ part = "string" => EscapeIsFaithful(in)
    /\ part = "description" => HeaderArrives(in)

\* Rows and their descriptions arrive as the server sent them; what was cut
\* short is refused.
RowRoundTrip ==
    /\ part = "row" => RowArrives(in)
    /\ part = "description" => DescriptionArrives(in)

\* So do the containers inside a cell, for each of their readers.
ContainerRoundTrip ==
    /\ part = "array" => ArrayArrives(in.val, in.ndim)
    /\ part = "composite" => CompositeArrives(in)
    /\ part = "range" => RangeArrives(in)

\* The formats asked for in Bind, the encoders of the plan and the bytes of the
\* server agree on every column.
FormatsAgree == part = "formats" => FormatsMatch(in.cols, in.binaryOIDs)

\* The JSON, the struct field, by fast path and by setter, and the driver value
\* of a cell are the same value, for the cells that have one value everywhere.
ViewsAgree == part = "cell" => CellHasOneValue(in.oid, in.format, in.target, in.raw)

\* A field of an outer struct is not hidden by one of the structs it embeds, and
\* no column that has a field is skipped.
OuterFieldWins == part = "struct" => OuterWins(in.type, in.columns)
=============================================================================
