------------------------------- MODULE Escape -------------------------------
(***************************************************************************)
(* String escaping in internal/jsonwriter: the scalar loop of the default  *)
(* build, and the word-at-a-time loop of the pg2json_simd build, on bytes. *)
(* A word holds WordBytes bytes (8 in the code), least significant first;  *)
(* its arithmetic is modulo 2^(8 * WordBytes).                             *)
(***************************************************************************)
EXTENDS Digits, SequencesExt

CONSTANT WordBytes

ASSUME WordAssumption == WordBytes \in Nat \ {0}

Byte == 0..255
Quote == 34
Slash == 92

\* escapeFlag[b]
escapeFlag(c) == c < 32 \/ c = Quote \/ c = Slash

Hex(d) == IF d < 10 THEN 48 + d ELSE 87 + d

\* The letter of the short escapes: \b \t \n, none for 11, \f \r.
Short == [c \in 8..13 \ {11} |-> <<98, 116, 110, 0, 102, 114>>[c - 7]]

appendEscape(c) ==
    IF c \in {Quote, Slash} THEN <<Slash, c>>
    ELSE IF c \in DOMAIN Short THEN <<Slash, Short[c]>>
    ELSE <<Slash, 117, 48, 48, Hex(c \div 16), Hex(c % 16)>>

-----------------------------------------------------------------------------
(* escape_scalar.go *)

\* The loop keeps what it has written and the start of the span it has not.
AppendStringBody(s) ==
    LET st[i \in 0..Len(s)] ==
            IF i = 0 THEN [dst |-> <<>>, start |-> 1]
            ELSE IF ~escapeFlag(s[i]) THEN st[i - 1]
            ELSE [dst |-> st[i - 1].dst \o SubSeq(s, st[i - 1].start, i - 1) \o appendEscape(s[i]),
                  start |-> i + 1]
        end == st[Len(s)]
    IN  end.dst \o SubSeq(s, end.start, Len(s))

-----------------------------------------------------------------------------
(* escape_swar.go *)

Modulus == Power(256, WordBytes)

\* A word made of one byte repeated.
Repeat(b) == Value([k \in 1..WordBytes |-> b], 256)

\* Exclusive or, bit by bit.
XorWith ==
    [mask \in {Quote, Slash} |-> [b \in Byte |->
        Value([k \in 1..8 |-> (b \div Power(2, 8 - k) + mask \div Power(2, 8 - k)) % 2], 2)]]

\* The little-endian load of WordBytes bytes of s from position i.
Word(s, i) == Value([k \in 1..WordBytes |-> s[i + WordBytes - k]], 256)

\* The same load of the bytes of s XORed with a mask.
XorWord(s, i, mask) == Word([k \in DOMAIN s |-> XorWith[mask][s[k]]], i)

\* (x - Repeat(n)) & ^x & swarHigh is not zero: some byte has its high bit set in
\* the difference and clear in x.
HighBit(x, k) == (x \div (128 * Power(256, k))) % 2
HasLess(x, n) ==
    LET diff == (x - Repeat(n)) % Modulus
    IN  \E k \in 0..WordBytes - 1 : HighBit(diff, k) = 1 /\ HighBit(x, k) = 0

\* Variant for a mutation run: the threshold of the control bytes is one too low.
CtrlLow == 31

\* The threshold below which a byte is a control byte (swarCtrl).
Ctrl == 32

swarHasEscapable(s, i) ==
    \/ HasLess(Word(s, i), Ctrl)
    \/ HasLess(XorWord(s, i, Quote), 1)
    \/ HasLess(XorWord(s, i, Slash), 1)

\* Where the word loop stops: at the first word from i on that does not fit or
\* has something to escape.
SkipWords(s, i) ==
    LET stops == {k \in 0..Len(s) :
                    LET p == i + k * WordBytes
                    IN  p + WordBytes - 1 > Len(s) \/ swarHasEscapable(s, p)}
    IN  i + WordBytes * (CHOOSE k \in stops : \A j \in stops : k <= j)

\* Where the scalar scan stops: at an escapable byte or at the end.
ScanBytes(s, i) ==
    LET stops == {p \in i..Len(s) : escapeFlag(s[p])} \cup {Len(s) + 1}
    IN  CHOOSE p \in stops : \A q \in stops : p <= q

appendStringBodySWAR(s) ==
    LET body[i \in 1..Len(s) + 1] ==
            IF i > Len(s) THEN <<>>
            ELSE LET stop == ScanBytes(s, SkipWords(s, i))
                 IN  SubSeq(s, i, stop - 1)
                     \o (IF stop > Len(s) THEN <<>>
                         ELSE appendEscape(s[stop]) \o body[stop + 1])
    IN  body[1]

-----------------------------------------------------------------------------
(* What the text denotes *)

Unhex(c) == IF c \in 48..57 THEN c - 48 ELSE c - 87

\* The byte that the text at position i stands for, and how many characters
\* stand for it; -1 is anything JSON does not allow between the quotes, and
\* anything the escapers do not write.
Denoted(t, i) ==
    IF t[i] # Slash THEN <<IF t[i] < 32 \/ t[i] = Quote THEN -1 ELSE t[i], 1>>
    ELSE IF i = Len(t) THEN <<-1, 1>>
    ELSE IF t[i + 1] \in {Quote, Slash} THEN <<t[i + 1], 2>>
    ELSE IF t[i + 1] = 117 /\ i + 5 <= Len(t) /\ t[i + 2] = 48 /\ t[i + 3] = 48
        THEN <<Unhex(t[i + 4]) * 16 + Unhex(t[i + 5]), 6>>
    ELSE LET from == {c \in DOMAIN Short : Short[c] = t[i + 1]}
         IN  <<IF from = {} THEN -1 ELSE CHOOSE c \in from : TRUE, 2>>

\* The bytes of a JSON string body.
Decode(t) ==
    LET dec[i \in 1..Len(t) + 1] ==
            IF i > Len(t) THEN <<>>
            ELSE <<Denoted(t, i)[1]>> \o dec[i + Denoted(t, i)[2]]
    IN  dec[1]

\* Both builds write the same text, wherever the escapes lie in a word and
\* whatever borrows they cause between its bytes, and a JSON reader gets the
\* string back byte for byte.
EscapeIsFaithful(s) ==
    /\ appendStringBodySWAR(s) = AppendStringBody(s)
    /\ Decode(AppendStringBody(s)) = s
=============================================================================
