------------------------------- MODULE Numeric -------------------------------
(***************************************************************************)
(* The number encoders of internal/types: the binary numeric of            *)
(* numeric_bin.go, and the text validators of numeric.go that decide       *)
(* whether the server's text goes into the JSON as it is or as a string.   *)
(*                                                                         *)
(* A base digit carries Width decimal digits (4 in the code).  A text is a *)
(* sequence of characters; a printed number is a sequence of decimal       *)
(* digits.                                                                 *)
(***************************************************************************)
EXTENDS Digits, SequencesExt

CONSTANT Width

ASSUME WidthAssumption == Width \in Nat \ {0}

-----------------------------------------------------------------------------
(* encodeNumericBinary *)

\* The Width decimal digits of a base digit (appendNumericPad4).
appendNumericPad4(v) == [k \in 1..Width |-> (v \div Power(10, Width - k)) % 10]

\* The decimal digits of strconv.AppendInt.
AppendInt(v) ==
    LET pad == appendNumericPad4(v)
        first == {k \in 1..Width : k = Width \/ \E j \in 1..k : pad[j] # 0}
    IN  SubSeq(pad, CHOOSE k \in first : \A j \in first : k <= j, Width)

\* Digits beyond the ones sent are zero.
digitAt(n, i) == IF i < 0 \/ i >= Len(n.digits) THEN 0 ELSE n.digits[i + 1]

\* Variant for a mutation run: the index of the fraction ignores the units digit.
FractionIndexShifted(weight, p) == weight + (p \div Width)

\* The base digit that holds decimal position p after the point.
FractionIndex(weight, p) == weight + 1 + (p \div Width)

IntegerPart(n) ==
    IF n.weight < 0 THEN <<0>>
    ELSE FlattenSeq(<<AppendInt(digitAt(n, 0))>>
                    \o [i \in 1..n.weight |-> appendNumericPad4(digitAt(n, i))])

FractionPart(n) ==
    [k \in 1..n.dscale |->
        LET p == k - 1
        IN  (digitAt(n, FractionIndex(n.weight, p)) \div Power(10, Width - 1 - (p % Width))) % 10]

Zeros(k) == [i \in 1..k |-> 0]

encodeNumericBinary(n) ==
    IF n.sign \notin {"pos", "neg"} THEN n.sign
    ELSE IF n.digits = <<>> THEN [neg |-> FALSE, int |-> <<0>>, frac |-> Zeros(n.dscale)]
    ELSE [neg |-> n.sign = "neg", int |-> IntegerPart(n), frac |-> FractionPart(n)]

\* What the server can send: no leading zeros, whatever the weight and the scale.
IsNumeric(n) ==
    /\ n \in [sign : STRING, weight : Int, dscale : Nat, digits : Seq(0..Power(10, Width) - 1)]
    /\ n.digits # <<>> => n.digits[1] # 0

\* v * 10^e, towards zero.
Shift(v, e) == IF e > 0 THEN v * Power(10, e) ELSE v \div Power(10, -e)

\* The text of a binary numeric is its value cut at dscale digits after the
\* point, whatever the weight and however many digits the server left out, and
\* is a JSON number: no leading zero, no minus without digits.
NumericDenotesItself(n) ==
    LET text == encodeNumericBinary(n)
        exponent == Width * (n.weight - Len(n.digits) + 1)
    IN  IF n.sign \notin {"pos", "neg"} THEN text = n.sign
        ELSE /\ Len(text.frac) = n.dscale
             /\ Value(text.int \o text.frac, 10)
                  = Shift(Value(n.digits, Power(10, Width)), exponent + n.dscale)
             /\ text.neg <=> n.sign = "neg" /\ n.digits # <<>>
             /\ text.int # <<>> /\ (Head(text.int) = 0 => Len(text.int) = 1)

-----------------------------------------------------------------------------
(* The text validators *)

Digit == {"0", "7"}
Sign == {"-", "+"}
Exp == {"e", "E"}

\* The first position at which a number is not signed any more.
AfterSign(b) == IF b[1] \in Sign THEN 2 ELSE 1

validInt(b) ==
    /\ b # <<>>
    /\ AfterSign(b) <= Len(b)
    /\ \A i \in AfterSign(b)..Len(b) : b[i] \in Digit

isNonFiniteFloat(b) ==
    \/ b = <<"N", "a", "N">>
    \/ Len(b) = 8 /\ (b[1] = "I" \/ (b[1] = "-" /\ b[2] = "I"))
    \/ Len(b) = 9 /\ b[1] = "-" /\ b[2] = "I"

\* The rest of an exponent whose letter is at i: an optional sign, and digits to
\* the end.
ValidExponent(b, i) ==
    LET j == IF b[i + 1] \in Sign THEN i + 2 ELSE i + 1
    IN  j <= Len(b) /\ \A k \in j..Len(b) : b[k] \in Digit

\* Where the loop of validFloat stops: at what is neither a digit nor the first
\* point, or at the end.
ScanStop(b) ==
    LET point(k) == b[k] = "." /\ \A j \in AfterSign(b)..k - 1 : b[j] # "."
        stops == {k \in AfterSign(b)..Len(b) : b[k] \notin Digit /\ ~point(k)} \cup {Len(b) + 1}
    IN  CHOOSE k \in stops : \A j \in stops : k <= j

validFloat(b) ==
    /\ b # <<>>
    /\ LET stop == ScanStop(b)
       IN  /\ \E k \in AfterSign(b)..stop - 1 : b[k] \in Digit
           /\ stop <= Len(b) => b[stop] \in Exp /\ stop < Len(b) /\ ValidExponent(b, stop)

EncodeInt(b) == IF validInt(b) THEN "number" ELSE "string"
EncodeFloat(b) ==
    IF isNonFiniteFloat(b) \/ ~validFloat(b) THEN "string" ELSE "number"
EncodeNumeric(b) ==
    IF b = <<"N", "a", "N">> \/ ~validFloat(b) THEN "string" ELSE "number"

\* b[i..j] is one or more digits.
Digits(b, i, j) == i <= j /\ \A k \in i..j : b[k] \in Digit

\* b[i..] is empty, or an exponent; JSON and PostgreSQL agree on it.
ExponentShape(b, i) ==
    \/ i = Len(b) + 1
    \/ /\ i < Len(b) /\ b[i] \in Exp
       /\ Digits(b, i + 1, Len(b)) \/ (b[i + 1] \in Sign /\ Digits(b, i + 2, Len(b)))

\* The grammar of a JSON number.
JSONNumber(b) ==
    \E i \in {1, 2} :
        /\ i = 2 => b # <<>> /\ b[1] = "-"
        /\ \E j \in i..Len(b) :
            /\ Digits(b, i, j) /\ (b[i] = "0" => i = j)
            /\ \/ ExponentShape(b, j + 1)
               \/ \E k \in j + 2 .. Len(b) :
                    b[j + 1] = "." /\ Digits(b, j + 2, k) /\ ExponentShape(b, k + 1)

\* The grammar of validFloat's comment: digits, an optional sign, one point, one
\* exponent.
LooseNumber(b) ==
    \E i \in {1, 2} :
        /\ i = 2 => b # <<>> /\ b[1] \in Sign
        /\ \E m \in i..Len(b) :
            /\ \A k \in i..m : b[k] \in Digit \cup {"."}
            /\ \E k \in i..m : b[k] \in Digit
            /\ \A j, k \in i..m : b[j] = "." /\ b[k] = "." => j = k
            /\ ExponentShape(b, m + 1)

\* What JSON does not allow in it: a plus in front, a zero in front of another
\* digit, a point without a digit on each side.
Lax(b) ==
    \/ b # <<>> /\ b[1] = "+"
    \/ \E k \in 1..Len(b) - 1 :
         /\ b[k] = "0" /\ b[k + 1] \in Digit
         /\ k = 1 \/ (k = 2 /\ b[1] \in Sign)
    \/ \E k \in 1..Len(b) :
         /\ b[k] = "."
         /\ ~(1 < k /\ k < Len(b) /\ b[k - 1] \in Digit /\ b[k + 1] \in Digit)

\* What the text encoders leave unquoted is a number: the validators take every
\* JSON number and, with them, exactly what Lax names, +7, 07, 7. and .7, which
\* numeric.go:49-51 calls valid JSON numbers too.  The server prints none of
\* these, but nothing here refuses them.
ValidatorsTakeNumbers(b) ==
    /\ EncodeFloat(b) = "number" <=> LooseNumber(b)
    /\ EncodeNumeric(b) = "number" <=> LooseNumber(b)
    /\ EncodeInt(b) = "number"
         <=> LooseNumber(b) /\ \A k \in 1..Len(b) : b[k] \in Digit \cup Sign
    /\ EncodeFloat(b) = "number" /\ ~Lax(b) <=> JSONNumber(b)
==============================================================================
