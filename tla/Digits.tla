------------------------------- MODULE Digits -------------------------------
(* Numbers in a base: the bytes of a big-endian integer, the digits of a     *)
(* decimal text.                                                             *)
EXTENDS Integers, Sequences

Power(base, n) ==
    LET p[k \in Nat] == IF k = 0 THEN 1 ELSE p[k - 1] * base IN p[n]

\* The value of a sequence of digits in a base.
Value(digits, base) ==
    LET v[k \in 0..Len(digits)] == IF k = 0 THEN 0 ELSE v[k - 1] * base + digits[k]
    IN  v[Len(digits)]
=============================================================================
