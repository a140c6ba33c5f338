------------------------------- MODULE Framing -------------------------------
(***************************************************************************)
(* How the client takes the server's messages apart: RowDescription        *)
(* (internal/rows/plan.go), DataRow (datarow.go, toon.go, and the copies   *)
(* of its loop in scan.go and stdlib.go), and the containers inside a      *)
(* cell: arrays (internal/types/array.go, scan.go), composites and ranges  *)
(* (scan.go).                                                              *)
(*                                                                         *)
(* A body is a sequence of symbols.  A count, a length, an OID or another  *)
(* fixed field of several bytes is one symbol, and so is a byte: that the  *)
(* reader stays in step with the writer is what is checked here.  The      *)
(* writers, which are the server's, are external.                          *)
(***************************************************************************)
EXTENDS Escape

\* A cell is its bytes; SQL NULL is no sequence of bytes.
Null == <<-1>>
CellValues == Seq(Nat) \cup {Null}

\* What a reader makes of a body: the value it read and the rest, or not ok.
Took(val, rest) == [ok |-> TRUE, val |-> val, rest |-> rest]
Refused(body) == [ok |-> FALSE, val |-> <<>>, rest |-> body]

\* Variant for a mutation run: NULL is taken for an empty cell.
CellNullEmpty(body) ==
    IF body = <<>> THEN Refused(body)
    ELSE LET l == Head(body)
             rest == Tail(body)
         IN  IF l < -1 \/ l > Len(rest) THEN Refused(rest)
             ELSE IF l <= 0 THEN Took(<<>>, rest)
             ELSE Took(SubSeq(rest, 1, l), SubSeq(rest, l + 1, Len(rest)))

\* One cell off the front of a body: a length, -1 for NULL, and the bytes.  The
\* same code stands in the loops of AppendObject, AppendArray, AppendTOONRow,
\* fillStructRow and pgRows.Next, and in readArrayElem.
Cell(body) ==
    IF body = <<>> THEN Refused(body)
    ELSE LET l == Head(body)
             rest == Tail(body)
         IN  IF l = -1 THEN Took(Null, rest)
             ELSE IF l < 0 \/ l > Len(rest) THEN Refused(rest)
             ELSE Took(SubSeq(rest, 1, l), SubSeq(rest, l + 1, Len(rest)))

Bodies == Seq(Int)
cellReader == [b \in Bodies |-> Cell(b)]

\* n items off the front of a body, stopping at the first that is not there.
Items(reader, body, n) ==
    LET got[i \in Nat] ==
            IF i = 0 THEN Took(<<>>, body)
            ELSE IF ~got[i - 1].ok THEN got[i - 1]
            ELSE LET item == reader[got[i - 1].rest]
                 IN  [ok |-> item.ok, val |-> Append(got[i - 1].val, item.val), rest |-> item.rest]
    IN  got[n]

\* AppendObject, AppendArray, AppendTOONRow, fillStructRow and pgRows.Next: the
\* number of columns must be the plan's.  The cells go to the encoders, or
\* setters, of their columns in order.
DataRow(body, ncols) ==
    IF body = <<>> \/ Head(body) # ncols THEN Refused(body)
    ELSE Items(cellReader, Tail(body), ncols)

-----------------------------------------------------------------------------
(* RowDescription *)

\* Position of the first zero byte; 0 when there is none.
indexZero(b) ==
    LET zeros == {i \in 1..Len(b) : b[i] = 0}
    IN  IF zeros = {} THEN 0 ELSE CHOOSE i \in zeros : \A j \in zeros : i <= j

\* The fields after the name: table, attribute, type, size, modifier, format.
DescriptorLen == 6

\* One column off the front of a body.
ColumnOf(body) ==
    LET end == indexZero(body)
        rest == SubSeq(body, end + 1, Len(body))
    IN  IF end = 0 \/ Len(rest) < DescriptorLen THEN Refused(body)
        ELSE Took([name |-> SubSeq(body, 1, end - 1), oid |-> rest[3], format |-> rest[6]],
                  SubSeq(rest, DescriptorLen + 1, Len(rest)))

columnReader == [b \in Bodies |-> ColumnOf(b)]

ParseRowDescription(body) ==
    IF body = <<>> \/ Head(body) < 0 THEN Refused(body)
    ELSE Items(columnReader, Tail(body), Head(body))

-----------------------------------------------------------------------------
(* The TOON header *)

Comma == 44
Open == 123
Shut == 125

nameNeedsQuote(s) ==
    s = <<>> \/ \E i \in 1..Len(s) : s[i] <= 32 \/ s[i] \in {Comma, Quote, Slash, Open, Shut, 91, 93}

HeaderName(s) ==
    IF nameNeedsQuote(s) THEN <<Quote>> \o AppendStringBody(s) \o <<Quote>> ELSE s

\* "[?]{", the names with commas between them, "}\n"; only the part between the
\* braces is kept here.
buildTOONHeader(names) ==
    FlattenSeq([i \in 1..Len(names) |->
        IF i > 1 THEN <<Comma>> \o HeaderName(names[i]) ELSE HeaderName(names[i])]) \o <<Shut>>

\* What a consumer of the header reads: a quoted name runs to the next quote
\* that is not escaped, a bare one to the next comma or brace.
EndOfName(h, i) ==
    IF h[i] = Quote
    THEN LET inside[j \in i + 1 .. Len(h) + 1] ==
                IF j > Len(h) \/ h[j] = Quote THEN j + 1 ELSE inside[j + Denoted(h, j)[2]]
         IN  inside[i + 1]
    ELSE LET ends == {j \in i..Len(h) : h[j] \in {Comma, Shut}} \cup {Len(h) + 1}
         IN  CHOOSE j \in ends : \A k \in ends : j <= k

NameAt(h, i) ==
    IF h[i] = Quote THEN Decode(SubSeq(h, i + 1, EndOfName(h, i) - 2))
    ELSE SubSeq(h, i, EndOfName(h, i) - 1)

ReadHeader(h) ==
    LET names[i \in 1..Len(h)] ==
            LET end == EndOfName(h, i)
            IN  <<NameAt(h, i)>> \o (IF end < Len(h) /\ h[end] = Comma THEN names[end + 1] ELSE <<>>)
    IN  names[1]

-----------------------------------------------------------------------------
(* Containers inside a cell *)

\* An element of an array for appendArrayDim: any negative length is NULL here.
Elem(body) == IF body # <<>> /\ Head(body) < 0 THEN Took(Null, Tail(body)) ELSE Cell(body)

elemReader == [b \in Bodies |-> Elem(b)]

\* appendArrayDim, and the two loops of pickArraySetter: the elements in row-major
\* order, the last dimension innermost.
Nested(leaf, dims) ==
    LET reader[d \in 0..Len(dims)] ==
            IF d = 0 THEN leaf
            ELSE [b \in Bodies |-> Items(reader[d - 1], b, dims[Len(dims) - d + 1])]
    IN  reader[Len(dims)]

\* Variant for a mutation run: the lower bounds are taken for the sizes.
DimsBounds(raw, ndim) == [i \in 1..ndim |-> raw[3 + 2 * i]]

\* The sizes of the dimensions, each followed by its lower bound.
Dims(raw, ndim) == [i \in 1..ndim |-> raw[3 + 2 * i - 1]]

\* The elements after a header of ndim dimensions, none of a negative size.
Elements(leaf, raw, ndim) ==
    IF Len(raw) < 3 + 2 * ndim \/ \E i \in 1..ndim : Dims(raw, ndim)[i] < 0 THEN Refused(raw)
    ELSE Nested(leaf, Dims(raw, ndim))[SubSeq(raw, 4 + 2 * ndim, Len(raw))]

\* The JSON of a binary array; a malformed one falls back to a string.
ArrayJSON(raw) ==
    IF Len(raw) < 3 THEN Refused(raw)
    ELSE IF raw[1] <= 0 THEN Took(<<>>, <<>>)
    ELSE Elements(elemReader, raw, raw[1])

\* pickArraySetter for a target of goDepth nested slices.
ArrayScan(raw, goDepth) ==
    IF Len(raw) < 3 THEN Refused(raw)
    ELSE IF raw[1] = 0 THEN Took(<<>>, <<>>)
    ELSE IF raw[1] # goDepth THEN Refused(raw)
    ELSE Elements(cellReader, raw, goDepth)

\* A field of a composite: its OID and its cell.
fieldReader == [b \in Bodies |-> IF Len(b) < 2 THEN Refused(b) ELSE Cell(Tail(b))]

\* pickCompositeSetter: the count and the fields.  Those beyond the ngo of the Go
\* struct are read and skipped.
CompositeScan(raw, ngo) ==
    IF raw = <<>> \/ Head(raw) < 0 THEN Refused(raw)
    ELSE LET fields == Items(fieldReader, Tail(raw), Head(raw))
         IN  IF ~fields.ok THEN Refused(raw)
             ELSE Took(SubSeq(fields.val, 1, Min({ngo, Len(fields.val)})), fields.rest)

Bit(flags, b) == (flags \div b) % 2 = 1

\* pickRangeSetter: a bound that the flags say is there is read, and is not NULL.
Bound(flags, infinite, body) ==
    IF Bit(flags, 1) \/ Bit(flags, infinite) THEN Took(Null, body)
    ELSE LET c == Cell(body) IN IF c.val = Null THEN Refused(body) ELSE c

RangeScan(raw) ==
    IF raw = <<>> THEN Refused(raw)
    ELSE LET lower == Bound(Head(raw), 8, Tail(raw))
             upper == Bound(Head(raw), 16, lower.rest)
         IN  IF ~lower.ok \/ ~upper.ok THEN Refused(raw)
             ELSE Took(<<lower.val, upper.val>>, upper.rest)

-----------------------------------------------------------------------------
(* The server's side *)

SendCell(c) == IF c = Null THEN <<-1>> ELSE <<Len(c)>> \o c
SendCells(cells) == FlattenSeq([i \in 1..Len(cells) |-> SendCell(cells[i])])
SendRow(cells) == <<Len(cells)>> \o SendCells(cells)
SendColumn(col) == (col.name \o <<0>>) \o <<0, 0, col.oid, 0, 0, col.format>>
SendDescription(cols) ==
    <<Len(cols)>> \o FlattenSeq([i \in 1..Len(cols) |-> SendColumn(cols[i])])
SendArray(val, ndim) ==
    IF val = <<>> THEN <<0, 0, 23>>
    ELSE IF ndim = 1 THEN <<1, 0, 23, Len(val), 1>> \o SendCells(val)
    ELSE <<2, 0, 23, Len(val), 1, Len(val[1]), 1>>
             \o FlattenSeq([i \in 1..Len(val) |-> SendCells(val[i])])
SendComposite(cells) ==
    <<Len(cells)>> \o FlattenSeq([i \in 1..Len(cells) |-> <<23>> \o SendCell(cells[i])])
SendRange(r) ==
    <<r.flags>> \o (IF r.lower = Null THEN <<>> ELSE SendCell(r.lower))
                \o (IF r.upper = Null THEN <<>> ELSE SendCell(r.upper))

\* What there is to send.
ColumnValues == [name : Seq(Nat \ {0}), oid : Int, format : Int]
IsArray(val, ndim) ==
    \/ ndim = 1 /\ val \in Seq(CellValues)
    \/ /\ ndim = 2 /\ val \in Seq(Seq(CellValues))
       /\ \A i, j \in 1..Len(val) : Len(val[i]) = Len(val[j])
IsRange(r) ==
    /\ r \in [flags : Nat, lower : CellValues, upper : CellValues]
    /\ r.lower = Null <=> Bit(r.flags, 1) \/ Bit(r.flags, 8)
    /\ r.upper = Null <=> Bit(r.flags, 1) \/ Bit(r.flags, 16)

\* Everything a message that was cut short can look like.
Cut(body) == {SubSeq(body, 1, k) : k \in 0..Len(body) - 1}

-----------------------------------------------------------------------------
(* Properties *)

\* What was read is the value, all of it, and nothing is left.
Got(val) == Took(val, <<>>)

\* A row arrives cell by cell as the server wrote it, NULL apart from empty and
\* whatever the bytes look like; a row cut short, or with another number of
\* columns, is refused, never read past its end.
RowArrives(cells) ==
    LET body == SendRow(cells)
    IN  /\ DataRow(body, Len(cells)) = Got(cells)
        /\ \A b \in Cut(body) : ~DataRow(b, Len(cells)).ok
        /\ \A n \in 0..Len(cells) + 1 : n # Len(cells) => ~DataRow(body, n).ok

\* So does the description of the columns.
DescriptionArrives(cols) ==
    LET body == SendDescription(cols)
    IN  /\ ParseRowDescription(body) = Got(cols)
        /\ \A b \in Cut(body) : ~ParseRowDescription(b).ok

\* From the TOON header a consumer reads back the names, whatever characters they
\* contain.
HeaderArrives(cols) ==
    LET names == [i \in 1..Len(cols) |-> cols[i].name]
    IN  cols # <<>> => ReadHeader(buildTOONHeader(names)) = names

\* An array has the same elements in the same places in JSON and in a slice, in
\* one dimension and in two; a slice of another depth refuses it, and no reader
\* takes a body cut short for an array.
ArrayArrives(val, ndim) ==
    LET raw == SendArray(val, ndim)
    IN  /\ ArrayJSON(raw).ok /\ ArrayJSON(raw).val = val
        /\ ArrayScan(raw, ndim).ok /\ ArrayScan(raw, ndim).val = val
        /\ val # <<>> => ~ArrayScan(raw, 3 - ndim).ok
        /\ \A b \in Cut(raw) : ~ArrayJSON(b).ok /\ ~ArrayScan(b, ndim).ok

\* The fields of a composite go to the fields of the struct by position, also
\* when the struct has fewer.
CompositeArrives(cells) ==
    LET raw == SendComposite(cells)
    IN  /\ \A ngo \in 0..Len(cells) + 1 :
            CompositeScan(raw, ngo) = Got(SubSeq(cells, 1, Min({ngo, Len(cells)})))
        /\ \A b \in Cut(raw) : ~CompositeScan(b, Len(cells)).ok

\* The bounds of a range stay on their side: an infinite bound has no bytes, and
\* the other one's are not taken for its.
RangeArrives(r) ==
    LET raw == SendRange(r)
    IN  /\ RangeScan(raw) = Got(<<r.lower, r.upper>>)
        /\ \A b \in Cut(raw) : ~RangeScan(b).ok
==============================================================================
