------------------------------ MODULE Dispatch ------------------------------
(***************************************************************************)
(* Which code reads a column, and what it makes of it: the encoder tables  *)
(* of internal/types, the negotiation of result formats between            *)
(* prepareAndDescribe, Bind and ApplyFormats, and the four readers of a    *)
(* cell: the JSON encoder, the setter and the inlined fast path of a       *)
(* struct scan (pg2json/scan.go), the driver value of database/sql and its *)
(* own fast path (pg2json/stdlib).                                         *)
(*                                                                         *)
(* OIDs, encoders and opcodes have the names of the code.  A byte is a     *)
(* digit below ByteBase (256 in the code), which keeps the widths of the   *)
(* integers and their sign bit.                                            *)
(***************************************************************************)
EXTENDS Digits, SequencesExt

CONSTANTS
    ByteBase,       \* values of a byte, even
    IntSize         \* bytes of Go's int

ASSUME DispatchAssumption ==
    ByteBase \in Nat \ {0} /\ ByteBase % 2 = 0 /\ IntSize \in {4, 8}

-----------------------------------------------------------------------------
(* internal/protocol, internal/types *)

ArrayElem ==
    [BoolArray |-> "Bool", Int2Array |-> "Int2", Int4Array |-> "Int4", Int8Array |-> "Int8",
     Float4Array |-> "Float4", Float8Array |-> "Float8", TextArray |-> "Text",
     VarcharArray |-> "Varchar", BPCharArray |-> "BPChar", UUIDArray |-> "UUID",
     JSONArray |-> "JSON", JSONBArray |-> "JSONB", TimestampArray |-> "Timestamp",
     TimestampTZArray |-> "TimestampTZ", DateArray |-> "Date", OIDArray |-> "OID",
     ByteaArray |-> "Bytea", NumericArray |-> "Numeric"]

Ranges == {"Int4Range", "Int8Range", "NumRange", "TsRange", "TsTzRange", "DateRange"}
Strings == {"Text", "Varchar", "BPChar", "Name"}
Ints == {"Int2", "Int4", "Int8", "OID"}
Floats == {"Float4", "Float8"}
Instants == {"Timestamp", "TimestampTZ", "Date"}
Clocks == {"Date", "Time", "TimeTZ", "Timestamp", "TimestampTZ", "Interval"}

\* Types have other names than the forms below.
TypeNames == STRING \ {"text", "range"}

\* The text encoder; every other type is a string.
Pick(oid) ==
    CASE oid = "Bool" -> "EncodeBool"
      [] oid \in Ints -> "EncodeInt"
      [] oid \in Floats -> "EncodeFloat"
      [] oid = "Numeric" -> "EncodeNumeric"
      [] oid \in {"JSON", "JSONB"} -> "EncodeJSONPassthrough"
      [] oid = "Bytea" -> "EncodeBytea"
      [] oid = "UUID" -> "EncodeUUID"
      [] oid \in Clocks -> "EncodeQuotedASCII"
      [] OTHER -> "EncodeString"

\* The binary encoders that are named after the form they read.
Binary ==
    [Bool |-> "bool", Int2 |-> "int2", Int4 |-> "int4", OID |-> "int4", Int8 |-> "int8",
     Float4 |-> "float4", Float8 |-> "float8", UUID |-> "uuid", Timestamp |-> "timestamp",
     TimestampTZ |-> "timestamp", Date |-> "date", JSONB |-> "jsonb", Interval |-> "interval",
     Time |-> "time", TimeTZ |-> "timetz", Bytea |-> "bytes"]

PickBinary(oid) ==
    LET scalar(o) ==
            IF o \in DOMAIN Binary THEN Binary[o]
            ELSE IF o = "JSON" THEN "EncodeJSONPassthrough"
            ELSE IF o \in Ranges \cup Strings THEN "EncodeString"
            ELSE "nil"
    IN  IF oid \notin DOMAIN ArrayElem THEN scalar(oid)
        ELSE IF scalar(ArrayElem[oid]) = "nil" THEN "nil" ELSE "array"

HasBinary(oid) == PickBinary(oid) # "nil"

-----------------------------------------------------------------------------
(* Formats *)

\* PickResultFormats, and the columns Config.BinaryOIDs upgrades.
ResultFormats(cols, binaryOIDs) ==
    [i \in 1..Len(cols) |-> IF HasBinary(cols[i]) \/ cols[i] \in binaryOIDs THEN 1 ELSE 0]

\* Variant for a mutation run: one binary column is enough.
allBinaryAny(fmts) == \E i \in 1..Len(fmts) : fmts[i] = 1

allBinary(fmts) == fmts # <<>> /\ \A i \in 1..Len(fmts) : fmts[i] = 1

\* The format codes of Bind.
BindFormats(fmts) == IF allBinary(fmts) THEN <<1>> ELSE fmts

\* ApplyFormats, and with it ParseRowDescriptionForFormats.
ApplyFormats(cols, fmts) ==
    [i \in 1..Len(cols) |->
        LET f == IF Len(fmts) = 1 THEN fmts[1] ELSE IF Len(fmts) = Len(cols) THEN fmts[i] ELSE 0
        IN  [format |-> f,
             encoder |-> IF f = 0 THEN Pick(cols[i])
                         ELSE IF HasBinary(cols[i]) THEN PickBinary(cols[i])
                         ELSE "EncodeOpaqueBinary"]]

\* The server's reading of the codes: none means text, one is for every column.
ServerFormat(codes, i) ==
    IF codes = <<>> THEN 0 ELSE IF Len(codes) = 1 THEN codes[1] ELSE codes[i]

\* The form in which the server sends a type in binary.
ServerForm(oid) ==
    IF oid \in DOMAIN Binary THEN Binary[oid]
    ELSE IF oid \in Strings \cup {"JSON"} THEN "text"
    ELSE IF oid \in Ranges THEN "range"
    ELSE IF oid \in DOMAIN ArrayElem THEN "array"
    ELSE oid

\* The forms an encoder makes sense of.  A range goes into the JSON as a string
\* of its bytes, and what no encoder knows as the hexadecimal of its bytes.
Reads(encoder, form) ==
    CASE encoder = "EncodeString" -> form \in {"text", "range"}
      [] encoder = "EncodeOpaqueBinary" -> form \notin {"text", "range"}
      [] encoder = "EncodeJSONPassthrough" -> form = "text"
      [] OTHER -> encoder = form

\* Every column is read in the format the server sends it in, by an encoder for
\* that format of that type: whatever mix of columns makes Bind use the short
\* form, and for the types the program asked to have in binary.
FormatsMatch(cols, binaryOIDs) ==
    LET fmts == ResultFormats(cols, binaryOIDs)
        codes == BindFormats(fmts)
        plan == ApplyFormats(cols, fmts)
    IN  \A i \in 1..Len(cols) :
            /\ plan[i].format = ServerFormat(codes, i)
            /\ IF ServerFormat(codes, i) = 0 THEN plan[i].encoder = Pick(cols[i])
               ELSE Reads(plan[i].encoder, ServerForm(cols[i]))

-----------------------------------------------------------------------------
(* Values *)

\* A big-endian two's complement integer.
Unsigned(raw) == Value(raw, ByteBase)
SignedOf(v, bytes) ==
    LET span == Power(ByteBase, bytes) IN IF v >= span \div 2 THEN v - span ELSE v
Signed(raw) == SignedOf(Unsigned(raw), Len(raw))

\* Bytes of a fixed-size type.
WireLen == [Bool |-> 1, Int2 |-> 2, Int4 |-> 4, OID |-> 4, Int8 |-> 8, Float4 |-> 4,
            Float8 |-> 8, Timestamp |-> 8, TimestampTZ |-> 8, Date |-> 4, UUID |-> 16]

Val(kind, v) == [kind |-> kind, v |-> v]

\* The largest and the smallest integer stand for infinity and -infinity.
Infinite(oid, raw) ==
    /\ oid \in Instants /\ Len(raw) = WireLen[oid]
    /\ LET half == Power(ByteBase, WireLen[oid]) \div 2 IN Signed(raw) \in {half - 1, -half}

\* The JSON that no other reader makes of a cell: the clock types, the intervals
\* and the arrays are printed, and a boolean in text becomes JSON's.
OwnText(oid, format) ==
    IF format = 0 THEN oid = "Bool"
    ELSE oid \in {"Time", "TimeTZ", "Interval"} \/ PickBinary(oid) = "array"

\* What the encoder of a column prints.  "hex" and "uuid" are the hexadecimal of
\* the bytes, "text" a text of its own; a cell of the wrong length is a string.
JSONValue(oid, format, raw) ==
    IF OwnText(oid, format) THEN Val("text", <<oid, raw>>)
    ELSE IF format = 0 THEN Val("bytes", raw)
    ELSE CASE oid = "Bool" -> Val("bool", Len(raw) = 1 /\ raw[1] # 0)
           [] oid \in Ints /\ Len(raw) = WireLen[oid] -> Val("int", Signed(raw))
           [] oid \in Floats /\ Len(raw) = WireLen[oid] -> Val("float", raw)
           [] oid \in Instants /\ Len(raw) = WireLen[oid] ->
                 Val(IF Infinite(oid, raw) THEN "infinity" ELSE "time", Signed(raw))
           [] oid = "UUID" /\ Len(raw) = WireLen[oid] -> Val("uuid", raw)
           [] oid = "Bytea" \/ ~HasBinary(oid) -> Val("hex", raw)
           [] oid = "JSONB" /\ raw # <<>> /\ raw[1] = 1 -> Val("bytes", Tail(raw))
           [] OTHER -> Val("bytes", raw)

-----------------------------------------------------------------------------
(* Struct scan.  A target is a Go kind: plain, behind a pointer, or in one   *)
(* of the sql.Null types, whose setters wrap the setter of the kind.         *)

KindSize == [Int |-> IntSize, Int8 |-> 1, Int16 |-> 2, Int32 |-> 4, Int64 |-> 8,
             Uint |-> IntSize, Uint8 |-> 1, Uint16 |-> 2, Uint32 |-> 4, Uint64 |-> 8]
SignedKinds == {"Int", "Int8", "Int16", "Int32", "Int64"}
Kinds == DOMAIN KindSize \cup {"Bool", "Float32", "Float64", "String", "Bytes", "Array16", "Time"}
NullKinds == {"String", "Int16", "Int32", "Int64", "Float64", "Bool", "Time", "Uint8"}

\* An int64 stored in a field of some bytes: the low bytes are kept, and the
\* fields behind it are not touched.
StoreInt(v, bytes, signed) ==
    LET low == v % Power(ByteBase, bytes)
    IN  [kind |-> "int", v |-> IF signed THEN SignedOf(low, bytes) ELSE low, bytes |-> bytes]

\* pickBinarySetter and pickTextSetter: whether there is one.
HasSetter(oid, format, kind) ==
    IF format = 0 THEN kind \in {"String", "Bytes"}
    ELSE CASE oid = "Bool" -> kind = "Bool"
           [] oid \in Ints -> kind \in DOMAIN KindSize
           [] oid = "Float4" -> kind \in {"Float32", "Float64"}
           [] oid = "Float8" -> kind = "Float64"
           [] oid \in Strings \cup {"JSON", "JSONB"} -> kind \in {"String", "Bytes"}
           [] oid = "UUID" -> kind \in {"String", "Array16"}
           [] oid = "Bytea" -> kind = "Bytes"
           [] oid \in Instants -> kind = "Time"
           [] OTHER -> FALSE

\* byteSliceSetter(true) and the setter of a jsonb string.
WithoutVersion(raw) == IF raw # <<>> /\ Head(raw) = 1 THEN Tail(raw) ELSE raw

\* What the setter of a field stores: intSetter, stringSetter, byteSliceSetter,
\* uuidStringSetter and the closures of pickBinarySetter; "kept" is a field that
\* is left as it was, "refused" an error.
SetterStores(oid, format, kind, raw) ==
    LET sized == Len(raw) = WireLen[oid]
    IN  IF format = 0 \/ oid \notin DOMAIN WireLen
        THEN Val("bytes", IF format = 1 /\ oid = "JSONB" THEN WithoutVersion(raw) ELSE raw)
        ELSE IF oid = "Bool" THEN Val("bool", sized /\ Head(raw) # 0)
        ELSE IF ~sized THEN Val(IF oid \in Ints \/ kind = "String" THEN "refused" ELSE "kept", <<>>)
        ELSE IF Infinite(oid, raw) THEN Val("kept", <<>>)
        ELSE IF oid \in Ints THEN StoreInt(Signed(raw), KindSize[kind], kind \in SignedKinds)
        ELSE IF oid \in Floats THEN Val("float", raw)
        ELSE IF oid = "UUID" THEN Val(IF kind = "String" THEN "uuid" ELSE "bytes", raw)
        ELSE Val("time", Signed(raw))

\* Variant for a mutation run: int2 goes into an int32 through the int4 store.
inlineOpForWide(oid, format, target) ==
    IF format = 1 /\ target.wrap = "plain" /\ oid \in {"Int2", "Int4", "OID"}
       /\ target.kind \in {"Int16", "Int32"}
    THEN [len |-> IF oid = "Int2" THEN 2 ELSE 4, bytes |-> 4]
    ELSE [len |-> 0, bytes |-> 0]

\* inlineOpFor: the length of the cell the opcode takes, -1 for any, 0 for
\* opFallback, and the bytes it stores.
inlineOpFor(oid, format, target) ==
    LET k == target.kind
        bytes == IF k \in {"Int64", "Int"} THEN 8 ELSE IF k = "Int32" THEN 4 ELSE 2
        op(len) == [len |-> len, bytes |-> bytes]
    IN  IF format # 1 \/ target.wrap # "plain" THEN op(0)
        ELSE CASE oid = "Bool" /\ k = "Bool" -> op(1)
               [] oid = "Int2" /\ k \in {"Int16", "Int32", "Int64", "Int"} -> op(2)
               [] oid \in {"Int4", "OID"} /\ k \in {"Int32", "Int64", "Int"} -> op(4)
               [] oid = "Int8" /\ k \in {"Int64", "Int"} -> op(8)
               [] oid = "Float4" /\ k \in {"Float32", "Float64"} -> op(4)
               [] oid = "Float8" /\ k = "Float64" -> op(8)
               [] oid \in Strings /\ k \in {"String", "Bytes"} -> op(-1)
               [] oid \in {"Bytea", "JSON"} /\ k = "Bytes" -> op(-1)
               [] OTHER -> op(0)

\* What a row of fillStructRow stores in the field.
FieldStores(oid, format, target, raw) ==
    LET op == inlineOpFor(oid, format, target)
    IN  IF op.len = -1 THEN Val("bytes", raw)
        ELSE IF op.len = 0 \/ op.len # Len(raw) THEN SetterStores(oid, format, target.kind, raw)
        ELSE CASE oid = "Bool" -> Val("bool", raw[1] # 0)
               [] oid \in Floats -> Val("float", raw)
               [] OTHER -> StoreInt(Signed(raw), op.bytes, TRUE)

-----------------------------------------------------------------------------
(* database/sql *)

\* scannerDecoderFor: the value of a type it knows, the bytes of any other.
DriverDecodes(oid, format, raw) ==
    IF format # 1 THEN Val("bytes", raw)
    ELSE CASE oid = "Bool" -> Val("bool", Len(raw) = 1 /\ raw[1] # 0)
           [] oid \in Ints -> Val("int", SignedOf(Unsigned(raw), WireLen[oid]))
           [] oid \in Floats -> Val("float", raw)
           [] oid \in Instants /\ Len(raw) = WireLen[oid] -> Val("time", Signed(raw))
           [] oid = "JSONB" -> Val("bytes", WithoutVersion(raw))
           [] OTHER -> Val("bytes", raw)

\* pgRows.Next with the opcode of opForNext.
NextYields(oid, format, raw) ==
    IF format # 1 THEN DriverDecodes(oid, format, raw)
    ELSE CASE oid \in Ints /\ Len(raw) = WireLen[oid] -> Val("int", Signed(raw))
           [] oid = "Bool" /\ Len(raw) = 1 -> Val("bool", raw[1] # 0)
           [] oid \in Floats /\ Len(raw) = WireLen[oid] -> Val("float", raw)
           [] oid \in Strings \cup {"JSON", "Bytea"} -> Val("bytes", raw)
           [] oid = "JSONB" /\ raw # <<>> /\ raw[1] = 1 -> Val("bytes", Tail(raw))
           [] OTHER -> DriverDecodes(oid, format, raw)

-----------------------------------------------------------------------------
(* Properties *)

\* A cell of a fixed-size type has that size when the server sends it in binary.
IsCell(c) ==
    /\ c \in [oid : TypeNames, format : {0, 1}, target : [wrap : STRING, kind : STRING],
              raw : Seq(0..ByteBase - 1)]
    /\ c.format = 1 /\ c.oid \in DOMAIN WireLen => Len(c.raw) = WireLen[c.oid]

\* The field can represent the integer.
Fits(kind, v) ==
    LET half == Power(ByteBase, KindSize[kind]) \div 2
    IN  IF kind \in SignedKinds THEN v \in -half..half - 1 ELSE v \in 0..2 * half - 1

\* The bytes that a hexadecimal text names.
Meaning(x) == IF x.kind \in {"hex", "uuid"} THEN Val("bytes", x.v) ELSE x

\* encodeInt4Binary, the setters and the decoders take the upper half of the oids
\* for negative integers (binary.go:21, scan.go:823, scan.go:1739).
HighOid(oid, raw) == oid = "OID" /\ Signed(raw) < 0

\* The fast paths do what the setters and the decoders do, and write the memory of
\* the field and no more.  A uint32 holds any oid.  A cell has one value: in the
\* JSON, in the field of a struct that can hold it, through the driver.  Three
\* kinds of cell do not: what the driver hands out as it came (OwnText); the
\* infinities, which JSON names, a setter passes over and the driver takes for
\* instants; and the oids from 2^31 on, negative everywhere but in a uint32.
\* Where there is no setter nothing is said: README.md:144-146 lists targets for
\* time, timetz and interval that pickBinarySetter refuses.
CellHasOneValue(oid, format, target, raw) ==
    LET json == JSONValue(oid, format, raw)
        field == FieldStores(oid, format, target, raw)
        driver == NextYields(oid, format, raw)
        stored == HasSetter(oid, format, target.kind)
    IN  /\ driver = DriverDecodes(oid, format, raw)
        /\ inlineOpFor(oid, format, target).len # 0 => stored
        /\ stored => field = SetterStores(oid, format, target.kind, raw)
        /\ format = 1 /\ oid = "OID" /\ target.kind = "Uint32" => field.v = Unsigned(raw)
        /\ OwnText(oid, format) \/ (format = 1 /\ (Infinite(oid, raw) \/ HighOid(oid, raw)))
           \/ /\ driver = Meaning(json)
              /\ stored /\ json.kind # "int" => Meaning(field) = Meaning(json)
              /\ stored /\ json.kind = "int" =>
                   field.kind = "int" /\ (Fits(target.kind, json.v) => field.v = json.v)
=============================================================================
