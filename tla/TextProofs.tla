------------------------------ MODULE TextProofs ------------------------------
(* Proofs about the text that Codec writes, for every input there is: strings  *)
(* through both builds of the escaper, and numbers through the encoder of      *)
(* binary numerics and the validators of text ones.  The strings and the       *)
(* binary numerics denote what was sent and are JSON; which texts the          *)
(* validators pass is said exactly.  The reference definitions are those of    *)
(* Escape and Numeric.                                                         *)
EXTENDS CodecProofs

-----------------------------------------------------------------------------
(* Strings *)

(* A number in a base around its j-th digit, when the digits after it are     *)
(* digits: what they are worth is less than one of the j-th.                  *)
LEMMA ValueAt ==
    ASSUME NEW b \in Nat \ {0}, NEW u \in Seq(Int), NEW j \in 1..Len(u),
           \A k \in j + 1..Len(u) : 0 <= u[k] /\ u[k] < b
    PROVE  \E A \in Int, e \in Nat :
              /\ e < Power(b, Len(u) - j)
              /\ Value(u, b) = (A * b + u[j]) * Power(b, Len(u) - j) + e
<1>0. b \in Int /\ Len(u) \in Nat /\ \A k \in 1..Len(u) : u[k] \in Int
  OBVIOUS
<1>1. PICK v \in [0..Len(u) -> Int] :
              /\ Value(u, b) = v[Len(u)] /\ v[0] = 0
              /\ \A k \in 1..Len(u) : v[k] = v[k - 1] * b + u[k]
  BY <1>0, ValueDef, Zenon
<1> DEFINE Holds(d) == \E e \in Nat : e < Power(b, d) /\ v[j + d] = v[j] * Power(b, d) + e
           T == {d \in Nat : j + d <= Len(u) => Holds(d)}
<1>2. 0 \in T /\ T \in SUBSET Nat
  <2>0. Power(b, 0) = 1
    BY <1>0, PowerDef
  <2>1. v[j + 0] = v[j] /\ v[j] \in Int
    BY <1>0
  <2>2. v[j + 0] = v[j] * 1 + 0
    BY <2>1
  <2>3. Holds(0)
    BY <2>0, <2>2
  <2> QED BY <2>3
<1>3. ASSUME NEW d \in T PROVE d + 1 \in T
  <2> SUFFICES ASSUME j + (d + 1) <= Len(u) PROVE Holds(d + 1)
    OBVIOUS
  <2>0. d \in Nat /\ j + d <= Len(u)
    BY <1>0
  <2>1. PICK e \in Nat : e < Power(b, d) /\ v[j + d] = v[j] * Power(b, d) + e
    BY <2>0
  <2> DEFINE i == j + (d + 1)
             P == Power(b, d)
             Q == Power(b, d + 1)
             y == v[j]
             x == v[j + d]
             c == u[i]
  <2>2. i \in 1..Len(u) /\ i - 1 = j + d /\ i \in j + 1..Len(u)
    BY <2>0
  <2>3. v[i] = x * b + c
    <3>1. v[i] = v[i - 1] * b + u[i]
      BY <1>1, <2>2
    <3> QED BY <2>2, <3>1
  <2>9. P \in Int /\ Q = P * b
    BY <1>0, <2>0, PowerDef
  <2>4. y \in Int /\ x \in Int /\ e \in Nat /\ e < P /\ x = y * P + e
    <3>1. j \in 0..Len(u) /\ j + d \in 0..Len(u)
      BY <1>0, <2>0
    <3> QED BY <1>1, <2>1, <3>1
  <2>5. c \in Int /\ 0 <= c /\ c < b
    BY <1>0, <2>2
  <2> HIDE DEF P, Q, y, x, c, i, T
  <2>6. c \in Int /\ 0 <= c /\ c < b /\ b \in Nat
    BY <2>5
  <2>7. e * b + c \in Nat /\ e * b + c < Q /\ x * b + c = y * Q + (e * b + c)
    <3>1. (e + 1) * b <= P * b
      BY <2>4, <2>6, <2>9, SMT
    <3>2. (e + 1) * b = e * b + b /\ e * b \in Nat
      BY <2>4, <2>6, <2>9, SMT
    <3>3. x * b = (y * P) * b + e * b /\ (y * P) * b = y * (P * b) /\ y * (P * b) \in Int
      BY <2>4, <2>6, <2>9, SMT
    <3> QED BY <2>4, <2>6, <2>9, <3>1, <3>2, <3>3, SMTT(30)
  <2>8. v[i] = y * Q + (e * b + c)
    BY <2>3, <2>7
  <2> QED BY <2>7, <2>8 DEF i, y, Q
<1>4. T = Nat
  <2> HIDE DEF T
  <2> QED BY <1>2, <1>3, Induction
<1> DEFINE d == Len(u) - j
<1>5. d \in Nat /\ j + d = Len(u) /\ j + d <= Len(u)
  BY <1>0
<1>6. PICK e \in Nat : e < Power(b, d) /\ v[j + d] = v[j] * Power(b, d) + e
  <2>1. d \in T
    BY <1>4, <1>5
  <2> QED BY <1>5, <2>1
<1>7. v[j] = v[j - 1] * b + u[j] /\ v[j - 1] \in Int
  <2>1. j - 1 \in 0..Len(u)
    BY <1>0
  <2> QED BY <1>1, <2>1
<1> HIDE DEF T, Holds, d
<1>8. Value(u, b) = (v[j - 1] * b + u[j]) * Power(b, d) + e
  BY <1>1, <1>5, <1>6, <1>7
<1> QED BY <1>6, <1>7, <1>8 DEF d

(* The difference of two numbers is the number of the differences.            *)
LEMMA ValueDifference ==
    ASSUME NEW b \in Int, NEW s \in Seq(Int), NEW t \in Seq(Int), NEW u \in Seq(Int),
           Len(s) = Len(t), Len(u) = Len(s), \A k \in 1..Len(s) : u[k] = s[k] - t[k]
    PROVE  Value(u, b) = Value(s, b) - Value(t, b)
<1> DEFINE n == Len(s)
<1>0. n \in Nat /\ (\A k \in 1..n : s[k] \in Int /\ t[k] \in Int) /\ Len(t) = n /\ Len(s) = n
  OBVIOUS
<1>1. Len(u) = n /\ \A k \in 1..n : u[k] = s[k] - t[k]
  OBVIOUS
<1>2. PICK v \in [0..n -> Int] : /\ Value(s, b) = v[n] /\ v[0] = 0
                                 /\ \A k \in 1..n : v[k] = v[k - 1] * b + s[k]
  BY ValueDef, Zenon
<1>3. PICK w \in [0..n -> Int] : /\ Value(t, b) = w[n] /\ w[0] = 0
                                 /\ \A k \in 1..n : w[k] = w[k - 1] * b + t[k]
  <2>1. n = Len(t)
    BY <1>0
  <2> HIDE DEF n
  <2> QED BY <2>1, ValueDef
<1> HIDE DEF n
<1>4. PICK z \in [0..n -> Int] : /\ Value(u, b) = z[n] /\ z[0] = 0
                                 /\ \A k \in 1..n : z[k] = z[k - 1] * b + u[k]
  BY <1>1, ValueDef
<1> DEFINE T == {k \in Nat : k <= n => z[k] = v[k] - w[k]}
<1>5. 0 \in T /\ T \in SUBSET Nat
  BY <1>2, <1>3, <1>4
<1>6. ASSUME NEW k \in T PROVE k + 1 \in T
  <2> SUFFICES ASSUME k + 1 <= n PROVE z[k + 1] = v[k + 1] - w[k + 1]
    OBVIOUS
  <2> DEFINE j == k + 1
  <2>0. j \in 1..n /\ j - 1 = k /\ k \in 0..n /\ z[k] = v[k] - w[k]
    BY <1>0
  <2> HIDE DEF j, T
  <2>1. v[j] = v[k] * b + s[j] /\ w[j] = w[k] * b + t[j] /\ z[j] = z[k] * b + u[j]
        /\ u[j] = s[j] - t[j]
    BY <1>1, <1>2, <1>3, <1>4, <2>0
  <2>2. v[k] \in Int /\ w[k] \in Int /\ s[j] \in Int /\ t[j] \in Int
    BY <1>0, <1>2, <1>3, <2>0
  <2> DEFINE x == v[k]
             y == w[k]
             p == s[j]
             q == t[j]
  <2>3. (x - y) * b = x * b - y * b /\ x * b \in Int /\ y * b \in Int
    BY <2>2, SMTT(30)
  <2>5. z[j] = (x - y) * b + (p - q) /\ v[j] = x * b + p /\ w[j] = y * b + q
    BY <2>0, <2>1
  <2>6. p \in Int /\ q \in Int
    BY <2>2
  <2> HIDE DEF x, y, p, q
  <2>4. z[j] = v[j] - w[j]
    BY <2>3, <2>5, <2>6
  <2> QED BY <2>4 DEF j
<1>7. T = Nat
  <2> HIDE DEF T
  <2> QED BY <1>5, <1>6, Induction
<1>8. n \in T
  BY <1>0, <1>7
<1>9. z[n] = v[n] - w[n]
  BY <1>0, <1>8
<1> QED BY <1>2, <1>3, <1>4, <1>9 DEF n

(* Division by a number of times it goes into and a remainder.                *)
LEMMA QuotientIs ==
    ASSUME NEW b \in Nat \ {0}, NEW q \in Int, NEW r \in Int, 0 <= r, r < b
    PROVE  (q * b + r) \div b = q /\ (q * b + r) % b = r
<1> DEFINE x == q * b + r
           d == x \div b
           m == x % b
<1>1. x \in Int
  BY SMT
<1> HIDE DEF x
<1>2. d \in Int /\ m \in Int /\ 0 <= m /\ m < b /\ x = d * b + m
  BY <1>1, SMT
<1> HIDE DEF d, m
<1>3. d = q /\ m = r
  BY <1>2, DivisionUnique DEF x
<1> QED BY <1>3 DEF d, m, x

(* The number x is c at its k-th byte, H above it and less than one below.    *)
AtByte(x, k, H, c) ==
    \E e \in Nat : e < Power(256, k) /\ x = (H * 256 + c) * Power(256, k) + e

(* The high bit of a byte of a number, which may be negative: then the byte   *)
(* borrows from the one above.                                                *)
LEMMA HighBitIs ==
    ASSUME NEW k \in Nat, NEW H \in Int, NEW c \in Int, NEW x, AtByte(x, k, H, c)
    PROVE  /\ 0 <= c /\ c < 128 => HighBit(x, k) = 0
           /\ -128 <= c /\ c < 0 => HighBit(x, k) = 1
<1> DEFINE P == Power(256, k)
           b == 128 * P
<1>p. P \in Nat \ {0}
  BY PowerPositive
<1>0. PICK e \in Nat : e < P /\ x = (H * 256 + c) * P + e
  BY DEF AtByte
<1>1. HighBit(x, k) = (x \div b) % 2
  BY DEF HighBit
<1> HIDE DEF P
<1>2. b \in Nat \ {0}
  BY <1>p
<1>3. ASSUME 0 <= c, c < 128 PROVE HighBit(x, k) = 0
  <2> DEFINE r == c * P + e
             q == 2 * H
  <2>1. r \in Int /\ 0 <= r /\ r < b
    <3>1. 0 <= c * P /\ (c + 1) * P <= 128 * P /\ (c + 1) * P = c * P + P /\ c * P \in Int
      BY <1>p, <1>3, SMT
    <3> QED BY <1>p, <1>0, <3>1
  <2>2. x = q * b + r
    BY <1>p, <1>0, SMT
  <2>3. q \in Int /\ q % 2 = 0
    BY SMT
  <2> HIDE DEF r, q, b
  <2>4. (q * b + r) \div b = q
    BY <1>2, <2>1, <2>3, QuotientIs
  <2> QED BY <1>1, <2>2, <2>3, <2>4
<1>4. ASSUME -128 <= c, c < 0 PROVE HighBit(x, k) = 1
  <2> DEFINE r == (128 + c) * P + e
             q == 2 * H - 1
  <2>1. r \in Int /\ 0 <= r /\ r < b
    <3>1. 0 <= (128 + c) * P /\ (128 + c + 1) * P <= 128 * P
          /\ (128 + c + 1) * P = (128 + c) * P + P /\ (128 + c) * P \in Int
      BY <1>p, <1>4, SMT
    <3> QED BY <1>p, <1>0, <3>1
  <2>2. x = q * b + r
    BY <1>p, <1>0, SMT
  <2>3. q \in Int /\ q % 2 = 1
    BY SMT
  <2> HIDE DEF r, q, b
  <2>4. (q * b + r) \div b = q
    BY <1>2, <2>1, <2>3, QuotientIs
  <2> QED BY <1>1, <2>2, <2>3, <2>4
<1> QED BY <1>3, <1>4

(* A remainder, as a difference.                                              *)
LEMMA RemainderIs ==
    ASSUME NEW M \in Nat \ {0}, NEW z \in Int
    PROVE  z \div M \in Int /\ z % M = z - (z \div M) * M
BY SMT

(* A number keeps its bytes modulo a power above them.                        *)
LEMMA ByteOfRemainder ==
    ASSUME NEW k \in Nat, NEW j \in Nat, NEW B \in Int, NEW g \in Int, NEW y, AtByte(y, k, B, g)
    PROVE  \E H \in Int : AtByte(y % Power(256, k + (j + 1)), k, H, g)
<1> DEFINE P == Power(256, k)
           C == Power(256, j)
           M == Power(256, k + (j + 1))
           t == y \div M
           H == B - t * C
<1>0. 256 \in Int /\ 256 \in Nat \ {0}
  OBVIOUS
<1>1. P \in Nat \ {0} /\ C \in Nat \ {0} /\ M \in Nat \ {0} /\ M = P * (C * 256)
  <2>1. j + 1 \in Nat /\ k + (j + 1) \in Nat
    OBVIOUS
  <2>2. Power(256, k + (j + 1)) = Power(256, k) * Power(256, j + 1)
    BY <1>0, <2>1, PowerAdd
  <2>3. Power(256, j + 1) = Power(256, j) * 256
    BY <1>0, PowerDef
  <2> QED BY <1>0, <2>1, <2>2, <2>3, PowerPositive
<1>2. PICK f \in Nat : f < P /\ y = (B * 256 + g) * P + f
  BY DEF AtByte
<1> HIDE DEF P, C, M
<1>4. y \in Int
  <2>1. B * 256 + g \in Int /\ P \in Int
    BY <1>1
  <2>2. \A p, q \in Int : p * q \in Int
    BY SMT
  <2> QED BY <1>2, <2>1, <2>2
<1>5. t \in Int /\ y % M = y - t * M
  <2>1. M \in Nat \ {0}
    BY <1>1
  <2> QED BY <1>4, <2>1, RemainderIs, Zenon
<1> HIDE DEF t
<1>6. H \in Int /\ y % M = (H * 256 + g) * P + f
  <2>1. t * (P * (C * 256)) = (t * C * 256) * P
    BY <1>1, <1>5, SMT
  <2>2. H \in Int /\ H * 256 = B * 256 - t * C * 256
    BY <1>1, <1>5, SMT
  <2> DEFINE a == B * 256 + g
             b == t * C * 256
  <2>3. a \in Int /\ b \in Int /\ P \in Int
    BY <1>1, <1>5, SMT
  <2>4. H * 256 + g = a - b
    BY <2>2, <2>3
  <2>5. y % M = (a * P + f) - b * P
    BY <1>1, <1>2, <1>5, <2>1
  <2> HIDE DEF a, b
  <2>6. (a - b) * P = a * P - b * P /\ a * P \in Int /\ b * P \in Int
    BY <2>3, SMT
  <2> HIDE DEF H
  <2>7. y % M = (a - b) * P + f
    BY <2>5, <2>6
  <2> QED BY <2>2, <2>4, <2>7
<1> HIDE DEF H
<1>7. AtByte(y % M, k, H, g)
  BY <1>2, <1>6 DEF AtByte, P
<1> QED BY <1>6, <1>7 DEF M

(* ValueAt for the bytes of a word.                                           *)
LEMMA ByteAt ==
    ASSUME NEW u \in Seq(Int), NEW j \in 1..Len(u),
           \A k \in j + 1..Len(u) : 0 <= u[k] /\ u[k] < 256
    PROVE  \E A \in Int : AtByte(Value(u, 256), Len(u) - j, A, u[j])
<1> DEFINE b == 256
<1>0. b = 256
  OBVIOUS
<1>1. b \in Nat \ {0}
  OBVIOUS
<1> HIDE DEF b
<1>2. \A k \in j + 1..Len(u) : 0 <= u[k] /\ u[k] < b
  BY <1>0
<1>3. \E A \in Int, e \in Nat :
         /\ e < Power(b, Len(u) - j)
         /\ Value(u, b) = (A * b + u[j]) * Power(b, Len(u) - j) + e
  <2> DEFINE x == u
  <2>1. x \in Seq(Int) /\ j \in 1..Len(x)
    OBVIOUS
  <2>2. \A k \in j + 1..Len(x) : 0 <= x[k] /\ x[k] < b
    BY <1>2
  <2> HIDE DEF x
  <2>3. \E A \in Int, e \in Nat :
           /\ e < Power(b, Len(x) - j)
           /\ Value(x, b) = (A * b + x[j]) * Power(b, Len(x) - j) + e
    BY <1>1, <2>1, <2>2, ValueAt
  <2> QED BY <2>3 DEF x
<1> QED BY <1>0, <1>3 DEF AtByte

(* Of the digits that are small, the last one.                                *)
LEMMA LastSmall ==
    ASSUME NEW W \in Nat, NEW u, \A k \in 1..W : u[k] \in Int, NEW n \in Int,
           NEW m \in 1..W, u[m] < n
    PROVE  \E j \in 1..W : u[j] < n /\ \A k \in j + 1..W : u[k] >= n
<1> DEFINE below == {d \in 0..W - 1 : u[W - d] < n}
<1>1. PICK d \in below : \A c \in below : d <= c
  <2>1. W - m \in below
    <3>1. W - m \in 0..W - 1 /\ W - (W - m) = m
      OBVIOUS
    <3> QED BY <3>1
  <2>2. below \in SUBSET Nat
    OBVIOUS
  <2> HIDE DEF below
  <2> QED BY <2>1, <2>2, LeastNat
<1>2. W - d \in 1..W /\ u[W - d] < n /\ d \in 0..W - 1
  BY <1>1
<1>3. ASSUME NEW k \in W - d + 1..W, ~(u[k] >= n) PROVE FALSE
  <2>1. k \in 1..W /\ u[k] < n
    BY <1>2, <1>3
  <2>2. W - k \in below
    <3>1. W - k \in 0..W - 1 /\ W - (W - k) = k
      BY <2>1
    <3> QED BY <2>1, <3>1
  <2> HIDE DEF below
  <2>3. d <= W - k
    BY <1>1, <2>2
  <2> QED BY <1>2, <1>3, <2>3
<1> QED BY <1>2, <1>3

(* The word has a byte below n if one of its bytes is: the lowest of them     *)
(* borrows, and nothing below it does.                                        *)
LEMMA HasLessFacts ==
    ASSUME NEW n \in Int, 0 < n, n <= 128, NEW u \in Seq(Int), Len(u) = WordBytes,
           \A k \in 1..WordBytes : 0 <= u[k] /\ u[k] < 256, NEW m \in 1..WordBytes, u[m] < n
    PROVE  HasLess(Value(u, 256), n)
<1> DEFINE W == WordBytes
           x == Value(u, 256)
           rep == [k \in 1..W |-> n]
           dif == [k \in 1..W |-> u[k] - rep[k]]
           R == Repeat(n)
<1>1. W \in Nat \ {0} /\ Len(u) = W
  BY WordAssumption
<1>2. \A k \in 1..W : 0 <= u[k] /\ u[k] < 256 /\ u[k] \in Int
  BY <1>1
<1>3. m \in 1..W /\ u[m] < n
  OBVIOUS
<1> HIDE DEF W
<1>4. PICK j \in 1..W : u[j] < n /\ \A k \in j + 1..W : u[k] >= n
  BY <1>1, <1>2, <1>3, LastSmall, ZenonT(40)
<1> DEFINE d == W - j
           c == u[j]
<1>5. j \in Nat /\ d \in Nat /\ d \in 0..W - 1 /\ W = d + (j - 1 + 1) /\ j - 1 \in Nat
  BY <1>1
<1>6. \A k \in j + 1..W : k \in 1..W
  BY <1>1
<1>7. c \in Int /\ 0 <= c /\ c < n
  BY <1>2, <1>4
<1>8. dif \in Seq(Int)
  BY <1>1, <1>2
<1>9. Len(dif) = W /\ \A k \in 1..W : dif[k] = u[k] - n
  BY <1>1
<1>10. Value(dif, 256) = x - R
  <2>1. rep \in Seq(Int)
    BY <1>1
  <2>2. Len(rep) = W /\ R = Value(rep, 256)
    BY <1>1 DEF Repeat, W
  <2>3. 256 \in Int
    OBVIOUS
  <2>5. Len(u) = Len(rep)
    BY <1>1, <2>2
  <2>6. Len(dif) = Len(u) /\ \A k \in 1..Len(u) : dif[k] = u[k] - rep[k]
    BY <1>1
  <2> HIDE DEF rep, R, x, dif
  <2>4. Value(dif, 256) = Value(u, 256) - Value(rep, 256)
    <3> DEFINE b == 256
               s == u
    <3>1. b \in Int /\ s \in Seq(Int) /\ Len(s) = Len(rep) /\ Len(dif) = Len(s)
          /\ \A k \in 1..Len(s) : dif[k] = s[k] - rep[k]
      BY <2>3, <2>5, <2>6
    <3> HIDE DEF b, s
    <3>2. Value(dif, b) = Value(s, b) - Value(rep, b)
      BY <1>8, <2>1, <3>1, ValueDifference, ZenonT(40)
    <3> QED BY <3>2 DEF b, s
  <2> QED BY <2>2, <2>4 DEF x
<1> HIDE DEF dif, rep, x, R
<1>11. PICK A \in Int : AtByte(x, d, A, c)
  <2>0. j \in 1..Len(u) /\ \A k \in j + 1..Len(u) : 0 <= u[k] /\ u[k] < 256
    BY <1>1, <1>2, <1>6
  <2>1. Len(u) - j = d
    BY <1>1
  <2> HIDE DEF d, c
  <2>2. \E A \in Int : AtByte(Value(u, 256), Len(u) - j, A, u[j])
    BY <2>0, ByteAt, ZenonT(40)
  <2> QED BY <2>1, <2>2 DEF x, c
<1>12. PICK B \in Int : AtByte(x - R, d, B, c - n)
  <2>0. j \in 1..Len(dif)
    BY <1>9
  <2>1. Len(dif) - j = d
    BY <1>9
  <2>2. ASSUME NEW k \in j + 1..Len(dif) PROVE 0 <= dif[k] /\ dif[k] < 256
    <3>1. k \in j + 1..W /\ k \in 1..W
      BY <1>6, <1>9, <2>2
    <3>2. u[k] \in Int /\ u[k] < 256 /\ dif[k] = u[k] - n /\ u[k] >= n
      BY <1>2, <1>4, <1>9, <3>1
    <3> HIDE DEF d, c
    <3> QED BY <3>2, SMTT(30)
  <2>3. dif[j] = c - n
    BY <1>9
  <2> HIDE DEF d, c
  <2>4. \E B \in Int : AtByte(Value(dif, 256), Len(dif) - j, B, dif[j])
    BY <1>8, <2>0, <2>2, ByteAt, ZenonT(40)
  <2> QED BY <1>10, <2>1, <2>3, <2>4
<1> HIDE DEF d, c
<1>13. HighBit(x, d) = 0
  <2>1. 0 <= c /\ c < 128 /\ c \in Int
    BY <1>7
  <2> QED BY <1>5, <1>11, <2>1, HighBitIs
<1>14. HighBit((x - R) % Power(256, W), d) = 1
  <2> DEFINE i == j - 1
             g == c - n
             y == x - R
  <2>0. g \in Int /\ -128 <= g /\ g < 0
    BY <1>7
  <2>1. i \in Nat /\ W = d + (i + 1)
    BY <1>5
  <2>2. AtByte(y, d, B, g)
    BY <1>12
  <2> HIDE DEF i, g, y
  <2>3. PICK H \in Int : AtByte(y % Power(256, d + (i + 1)), d, H, g)
    BY <1>5, <2>0, <2>1, <2>2, ByteOfRemainder, ZenonT(40)
  <2> DEFINE z == y % Power(256, d + (i + 1))
  <2>4. AtByte(z, d, H, g)
    BY <2>3
  <2>5. z = (x - R) % Power(256, W)
    BY <2>1 DEF y
  <2> HIDE DEF z
  <2>6. HighBit(z, d) = 1
    BY <1>5, <2>0, <2>4, HighBitIs
  <2> QED BY <2>5, <2>6
<1> QED BY <1>5, <1>13, <1>14 DEF HasLess, x, R, W, Modulus

(* Bytes of a word, as the bytes of what it was loaded from.                  *)
LEMMA WordHas ==
    ASSUME NEW t, NEW i \in Int, NEW n \in Int, 0 < n, n <= 128,
           \A p \in i..i + WordBytes - 1 : t[p] \in Int /\ 0 <= t[p] /\ t[p] < 256,
           NEW q \in i..i + WordBytes - 1, t[q] < n
    PROVE  HasLess(Word(t, i), n)
<1> DEFINE W == WordBytes
           u == [k \in 1..W |-> t[i + W - k]]
           m == i + W - q
<1>1. W \in Nat \ {0}
  BY WordAssumption
<1>2. q \in i..i + W - 1 /\ \A p \in i..i + W - 1 : t[p] \in Int /\ 0 <= t[p] /\ t[p] < 256
  OBVIOUS
<1>3. Word(t, i) = Value(u, 256)
  BY DEF Word
<1>4. m \in 1..W /\ i + W - m = q
  <2> HIDE DEF W
  <2> QED BY <1>1, <1>2
<1>5. ASSUME NEW k \in 1..W PROVE u[k] \in Int /\ 0 <= u[k] /\ u[k] < 256
  <2>1. i + W - k \in i..i + W - 1
    <3> HIDE DEF W
    <3> QED BY <1>1
  <2> HIDE DEF W
  <2>2. u[k] = t[i + W - k]
    OBVIOUS
  <2> HIDE DEF u
  <2> QED BY <1>2, <2>1, <2>2
<1>6. u[m] < n
  <2> HIDE DEF W, m
  <2> QED BY <1>4
<1>7. u \in Seq(Int) /\ Len(u) = W
  <2> HIDE DEF W
  <2>1. \A k \in 1..W : t[i + W - k] \in Int
    BY <1>5
  <2> QED BY <1>1, <2>1
<1> HIDE DEF m, u
<1>8. HasLess(Value(u, 256), n)
  BY <1>4, <1>5, <1>6, <1>7, HasLessFacts, ZenonT(40)
<1> QED BY <1>3, <1>8

(* Eight bits.                                                                *)
LEMMA TwoToEight == Power(2, 8) = 256
<1> DEFINE P(k) == Power(2, k)
<1>1. 2 \in Int
  OBVIOUS
<1>2. P(0) = 1 /\ \A n \in Nat : P(n) \in Int /\ P(n + 1) = P(n) * 2
  BY <1>1, PowerDef
<1> HIDE DEF P
<1>3. P(1) = 2
  <2>1. P(0 + 1) = P(0) * 2
    BY <1>2
  <2> QED BY <1>2, <2>1
<1>4. P(2) = 4
  <2>1. P(1 + 1) = P(1) * 2
    BY <1>2
  <2> QED BY <1>3, <2>1
<1>5. P(3) = 8
  <2>1. P(2 + 1) = P(2) * 2
    BY <1>2
  <2> QED BY <1>4, <2>1
<1>6. P(4) = 16
  <2>1. P(3 + 1) = P(3) * 2
    BY <1>2
  <2> QED BY <1>5, <2>1
<1>7. P(5) = 32
  <2>1. P(4 + 1) = P(4) * 2
    BY <1>2
  <2> QED BY <1>6, <2>1
<1>8. P(6) = 64
  <2>1. P(5 + 1) = P(5) * 2
    BY <1>2
  <2> QED BY <1>7, <2>1
<1>9. P(7) = 128
  <2>1. P(6 + 1) = P(6) * 2
    BY <1>2
  <2> QED BY <1>8, <2>1
<1>10. P(8) = 256
  <2>1. P(7 + 1) = P(7) * 2
    BY <1>2
  <2> QED BY <1>9, <2>1
<1> QED BY <1>10 DEF P

(* A number whose digits are zero.                                            *)
LEMMA ValueZero ==
    ASSUME NEW b \in Int, NEW u \in Seq(Int), \A k \in 1..Len(u) : u[k] = 0
    PROVE  Value(u, b) = 0
<1>1. Len(u) \in Nat
  OBVIOUS
<1>2. PICK v \in [0..Len(u) -> Int] : /\ Value(u, b) = v[Len(u)] /\ v[0] = 0
                                      /\ \A k \in 1..Len(u) : v[k] = v[k - 1] * b + u[k]
  BY ValueDef
<1> DEFINE T == {k \in Nat : k <= Len(u) => v[k] = 0}
<1>3. 0 \in T /\ T \in SUBSET Nat
  BY <1>2
<1>4. ASSUME NEW k \in T PROVE k + 1 \in T
  <2> SUFFICES ASSUME k + 1 <= Len(u) PROVE v[k + 1] = 0
    OBVIOUS
  <2> DEFINE j == k + 1
  <2>1. j \in 1..Len(u) /\ j - 1 = k /\ v[k] = 0
    BY <1>1
  <2> HIDE DEF j, T
  <2>2. v[j] = v[k] * b + u[j] /\ u[j] = 0
    BY <1>2, <2>1
  <2>3. v[j] = 0
    BY <2>1, <2>2
  <2> QED BY <2>3 DEF j
<1>5. T = Nat
  <2> HIDE DEF T
  <2> QED BY <1>3, <1>4, Induction
<1>6. Len(u) \in T
  BY <1>1, <1>5
<1> QED BY <1>2, <1>6

(* XorWith gives a byte, which is zero for the byte that it looks for.        *)
LEMMA XorFacts ==
    ASSUME NEW mask \in {Quote, Slash}, NEW b \in Byte
    PROVE  /\ XorWith[mask][b] \in Int /\ 0 <= XorWith[mask][b] /\ XorWith[mask][b] < 256
           /\ b = mask => XorWith[mask][b] = 0
<1> DEFINE d == [k \in 1..8 |-> (b \div Power(2, 8 - k) + mask \div Power(2, 8 - k)) % 2]
<1>1. XorWith[mask][b] = Value(d, 2)
  BY DEF XorWith
<1>2. b \in Int /\ mask \in Int
  BY DEF Byte, Quote, Slash
<1>3. ASSUME NEW k \in 1..8
      PROVE  d[k] \in 0..1 /\ (b = mask => d[k] = 0)
  <2> DEFINE P == Power(2, 8 - k)
             x == b \div P
             y == mask \div P
  <2>1. P \in Nat \ {0}
    <3>1. 8 - k \in Nat /\ 2 \in Nat \ {0}
      OBVIOUS
    <3> QED BY <3>1, PowerPositive
  <2> HIDE DEF P
  <2>2. x \in Int /\ y \in Int /\ (b = mask => x = y)
    BY <1>2, <2>1, SMT
  <2> HIDE DEF x, y
  <2>3. (x + y) % 2 \in 0..1 /\ (b = mask => (x + y) % 2 = 0)
    BY <2>2, SMT
  <2> QED BY <2>3 DEF x, y, P
<1>4. d \in Seq(0..1) /\ Len(d) = 8
  <2> DEFINE n == 8
             S == 0..1
  <2>1. d \in [1..n -> S] /\ n \in Nat
    BY <1>3
  <2> HIDE DEF d, n, S
  <2>2. d \in Seq(S) /\ Len(d) = n
    BY <2>1
  <2> QED BY <2>2 DEF n, S
<1> HIDE DEF d
<1>5. Value(d, 2) \in Nat /\ Value(d, 2) < 256
  <2> DEFINE c == 2
  <2>1. c \in Nat \ {0} /\ c - 1 = 1
    OBVIOUS
  <2> HIDE DEF c
  <2>2. d \in Seq(0..c - 1)
    BY <1>4, <2>1
  <2>3. Value(d, c) \in Nat /\ Value(d, c) < Power(c, Len(d))
    BY <2>1, <2>2, ValueBound
  <2> QED BY <1>4, <2>3, TwoToEight DEF c
<1>6. ASSUME b = mask PROVE Value(d, 2) = 0
  <2>1. d \in Seq(Int) /\ 2 \in Int
    BY <1>4
  <2>2. \A k \in 1..Len(d) : d[k] = 0
    BY <1>3, <1>4, <1>6
  <2> QED BY <2>1, <2>2, ValueZero
<1> QED BY <1>1, <1>5, <1>6

(* A word that has nothing to escape for the one build has nothing for the    *)
(* other.                                                                     *)
LEMMA WordIsPlain ==
    ASSUME NEW s \in Seq(Byte), NEW i \in Nat \ {0}, i + WordBytes - 1 <= Len(s),
           ~swarHasEscapable(s, i), NEW p \in i..i + WordBytes - 1
    PROVE  ~escapeFlag(s[p])
<1> DEFINE W == WordBytes
<1>1. W \in Nat \ {0}
  BY WordAssumption
<1>2. Len(s) \in Nat /\ DOMAIN s = 1..Len(s) /\ \A q \in 1..Len(s) : s[q] \in Byte
  OBVIOUS
<1>3. p \in i..i + W - 1 /\ i \in Int
  OBVIOUS
<1>4. \A q \in i..i + W - 1 : q \in 1..Len(s)
  <2>1. i + W - 1 <= Len(s)
    OBVIOUS
  <2> HIDE DEF W
  <2> QED BY <1>1, <1>2, <2>1
<1>5. \A q \in i..i + W - 1 : s[q] \in Byte
  <2> HIDE DEF W
  <2> QED BY <1>2, <1>4
<1>6. \A q \in i..i + W - 1 : s[q] \in Int /\ 0 <= s[q] /\ s[q] < 256
  <2> SUFFICES ASSUME NEW q \in i..i + W - 1 PROVE s[q] \in Int /\ 0 <= s[q] /\ s[q] < 256
    OBVIOUS
  <2>1. s[q] \in Byte
    BY <1>5
  <2> DEFINE c == s[q]
  <2>2. c \in 0..255
    BY <2>1 DEF Byte
  <2> HIDE DEF c
  <2>3. c \in Int /\ 0 <= c /\ c < 256
    BY <2>2
  <2> QED BY <2>3 DEF c
<1>7. /\ ~HasLess(Word(s, i), 32) /\ ~HasLess(XorWord(s, i, Quote), 1)
      /\ ~HasLess(XorWord(s, i, Slash), 1)
  BY DEF swarHasEscapable, Ctrl
<1>8. ~(s[p] < 32)
  <2>1. 32 \in Int /\ 0 < 32 /\ 32 <= 128
    OBVIOUS
  <2> QED BY <1>3, <1>6, <1>7, <2>1, WordHas
<1>9. ASSUME NEW mask \in {Quote, Slash} PROVE s[p] # mask
  <2> SUFFICES ASSUME s[p] = mask PROVE FALSE
    OBVIOUS
  <2> DEFINE t == [k \in DOMAIN s |-> XorWith[mask][s[k]]]
  <2>1. ~HasLess(Word(t, i), 1)
    BY <1>7 DEF XorWord
  <2>2. ASSUME NEW q \in i..i + W - 1 PROVE t[q] \in Int /\ 0 <= t[q] /\ t[q] < 256
    <3>1. t[q] = XorWith[mask][s[q]] /\ s[q] \in Byte
      BY <1>2, <1>4, <1>5
    <3> HIDE DEF t
    <3> QED BY <3>1, XorFacts
  <2>3. t[p] = 0
    <3>1. t[p] = XorWith[mask][s[p]] /\ s[p] \in Byte
      BY <1>2, <1>3, <1>4, <1>5
    <3> HIDE DEF t
    <3> QED BY <3>1, XorFacts
  <2> HIDE DEF t
  <2>4. 1 \in Int /\ 0 < 1 /\ 1 <= 128 /\ t[p] < 1
    BY <2>3
  <2> QED BY <1>3, <2>1, <2>2, <2>4, WordHas
<1> QED BY <1>8, <1>9 DEF escapeFlag

(* What a byte, or a character, becomes between the quotes.                   *)
Enc(c) == IF escapeFlag(c) THEN appendEscape(c) ELSE <<c>>

(* Its forms.                                                                 *)
IsBare(c, e) == c >= 32 /\ c # Quote /\ c # Slash /\ e = <<c>>
IsSlashed(c, e) == c \in {Quote, Slash} /\ e = <<Slash, c>>
IsShort(c, e) == c \in DOMAIN Short /\ e = <<Slash, Short[c]>>
IsHex(c, e) == c < 32 /\ e = <<Slash, 117, 48, 48, Hex(c \div 16), Hex(c % 16)>>

(* The letters of the short forms are of one character each, and not u.       *)
LEMMA ShortFacts ==
    /\ DOMAIN Short \subseteq 8..13
    /\ \A c \in DOMAIN Short : Short[c] \in Int /\ Short[c] \notin {Quote, Slash, 117}
    /\ \A c, d \in DOMAIN Short : Short[c] = Short[d] => c = d
<1>1. DOMAIN Short = 8..13 \ {11}
  BY DEF Short
<1>2. Short[8] = 98 /\ Short[9] = 116 /\ Short[10] = 110 /\ Short[12] = 102 /\ Short[13] = 114
  BY DEF Short
<1>3. \A c \in DOMAIN Short : c = 8 \/ c = 9 \/ c = 10 \/ c = 12 \/ c = 13
  BY <1>1
<1> QED BY <1>1, <1>2, <1>3 DEF Quote, Slash

(* Every character has one of the forms.                                      *)
LEMMA EncForms ==
    ASSUME NEW c \in Nat
    PROVE  /\ IsBare(c, Enc(c)) \/ IsSlashed(c, Enc(c)) \/ IsShort(c, Enc(c)) \/ IsHex(c, Enc(c))
           /\ Enc(c) \in Seq(Int)
<1>1. CASE ~escapeFlag(c)
  <2>1. Enc(c) = <<c>>
    BY <1>1 DEF Enc
  <2>2. c >= 32 /\ c # Quote /\ c # Slash
    BY <1>1 DEF escapeFlag
  <2>3. <<c>> \in Seq(Int)
    OBVIOUS
  <2> QED BY <2>1, <2>2, <2>3 DEF IsBare
<1>2. CASE escapeFlag(c) /\ c \in {Quote, Slash}
  <2>1. Enc(c) = <<Slash, c>>
    BY <1>2 DEF Enc, appendEscape
  <2>2. <<Slash, c>> \in Seq(Int)
    BY DEF Slash
  <2> QED BY <1>2, <2>1, <2>2 DEF IsSlashed
<1>3. CASE escapeFlag(c) /\ c \notin {Quote, Slash} /\ c \in DOMAIN Short
  <2>1. Enc(c) = <<Slash, Short[c]>>
    BY <1>3 DEF Enc, appendEscape
  <2>2. <<Slash, Short[c]>> \in Seq(Int)
    <3> DEFINE l == Short[c]
    <3>1. l \in Int
      BY <1>3, ShortFacts
    <3> HIDE DEF l
    <3>2. <<Slash, l>> \in Seq(Int)
      BY <3>1 DEF Slash
    <3> QED BY <3>2 DEF l
  <2> QED BY <1>3, <2>1, <2>2 DEF IsShort
<1>4. CASE escapeFlag(c) /\ c \notin {Quote, Slash} /\ c \notin DOMAIN Short
  <2> DEFINE h == Hex(c \div 16)
             l == Hex(c % 16)
  <2>1. Enc(c) = <<Slash, 117, 48, 48, h, l>>
    BY <1>4 DEF Enc, appendEscape
  <2>2. c < 32
    BY <1>4 DEF escapeFlag
  <2>3. h \in Int /\ l \in Int
    BY DEF Hex
  <2> HIDE DEF h, l
  <2>4. <<Slash, 117, 48, 48, h, l>> \in Seq(Int)
    BY <2>3 DEF Slash
  <2> QED BY <2>1, <2>2, <2>4 DEF IsHex, h, l
<1> QED BY <1>1, <1>2, <1>3, <1>4

(* F[k] is what the first k characters of s become.                           *)
Written(s, F) ==
    /\ F \in [0..Len(s) -> Seq(Int)]
    /\ F[0] = <<>>
    /\ \A k \in 1..Len(s) : F[k] = F[k - 1] \o Enc(s[k])

(* There is such an F.                                                        *)
LEMMA WrittenExists ==
    ASSUME NEW s \in Seq(Nat)
    PROVE  \E F : Written(s, F)
<1> DEFINE ps == [k \in 1..Len(s) |-> Enc(s[k])]
<1>1. Len(s) \in Nat /\ \A k \in 1..Len(s) : s[k] \in Nat
  OBVIOUS
<1>2. ps \in Seq(Seq(Int)) /\ Len(ps) = Len(s) /\ \A k \in 1..Len(s) : ps[k] = Enc(s[k])
  <2>1. \A k \in 1..Len(s) : Enc(s[k]) \in Seq(Int)
    BY <1>1, EncForms
  <2> DEFINE S == Seq(Int)
  <2>2. ps \in [1..Len(s) -> S]
    BY <2>1
  <2> HIDE DEF ps, S
  <2>3. ps \in Seq(S) /\ Len(ps) = Len(s)
    BY <1>1, <2>2
  <2> QED BY <2>3 DEF ps, S
<1> HIDE DEF ps
<1>3. PICK F \in [0..Len(ps) -> Seq(Int)] :
              /\ FlattenSeq(ps) = F[Len(ps)] /\ F[0] = <<>>
              /\ \A k \in 1..Len(ps) : F[k] = F[k - 1] \o ps[k]
  BY <1>2, FlattenDef, Zenon
<1>4. Written(s, F)
  BY <1>2, <1>3 DEF Written
<1> QED BY <1>4

(* A span of a sequence and the next element.                                 *)
LEMMA SpanStep ==
    ASSUME NEW S, NEW s \in Seq(S), NEW a \in Nat \ {0}, NEW i \in Nat, a <= i, i <= Len(s)
    PROVE  /\ SubSeq(s, a, i - 1) \in Seq(S) /\ <<s[i]>> \in Seq(S)
           /\ SubSeq(s, a, i) = SubSeq(s, a, i - 1) \o <<s[i]>>
<1>1. a \in 1..Len(s) /\ i \in a..Len(s) /\ i \in 1..Len(s)
  BY LenProperties
<1>2. SubSeq(s, a, i) = SubSeq(s, a, i - 1) \o <<s[i]>>
  BY <1>1, SubSeqRecursiveSecond
<1>3. \A k \in a..i - 1 : s[k] \in S
  BY <1>1, ElementOfSeq, LenProperties
<1>4. SubSeq(s, a, i - 1) \in Seq(S)
  <2>1. a \in Int /\ i - 1 \in Int
    OBVIOUS
  <2> QED BY <1>3, <2>1, SubSeqProperties
<1>5. s[i] \in S
  BY <1>1, ElementOfSeq
<1>6. <<s[i]>> \in Seq(S)
  BY <1>5
<1> QED BY <1>2, <1>4, <1>6

(* What the loop of the default build does with the i-th byte.                *)
ScalarStep(s, i, st) ==
    IF ~escapeFlag(s[i]) THEN st
    ELSE [dst |-> st.dst \o SubSeq(s, st.start, i - 1) \o appendEscape(s[i]), start |-> i + 1]

(* The state of the loop: what is written, and a span yet to write.           *)
Loops == [dst : Seq(Int), start : Nat \ {0}]

(* A step keeps a state a state.                                              *)
LEMMA ScalarTyped ==
    ASSUME NEW s \in Seq(Nat), NEW i \in 1..Len(s), NEW st \in Loops
    PROVE  ScalarStep(s, i, st) \in Loops
<1>1. st.dst \in Seq(Int) /\ st.start \in Nat \ {0} /\ s[i] \in Nat /\ i \in Nat
  BY DEF Loops
<1> DEFINE sp == SubSeq(s, st.start, i - 1)
           e == appendEscape(s[i])
           a == st.start
<1>2. sp \in Seq(Int)
  <2>1. a \in Int /\ i - 1 \in Int
    BY <1>1
  <2>2. \A k \in a..i - 1 : s[k] \in Int
    BY <1>1
  <2> HIDE DEF a
  <2>3. SubSeq(s, a, i - 1) \in Seq(Int)
    BY <2>1, <2>2, SubSeqProperties
  <2> QED BY <2>3 DEF a
<1>3. CASE escapeFlag(s[i])
  <2>1. e \in Seq(Int)
    BY <1>1, <1>3, EncForms DEF Enc
  <2> HIDE DEF e, sp
  <2>2. st.dst \o sp \o e \in Seq(Int)
    BY <1>1, <1>2, <2>1, ConcatProperties
  <2>3. i + 1 \in Nat \ {0}
    BY <1>1
  <2>4. ScalarStep(s, i, st) = [dst |-> st.dst \o sp \o e, start |-> i + 1]
    BY <1>3 DEF ScalarStep, sp, e
  <2> QED BY <2>2, <2>3, <2>4 DEF Loops
<1>4. CASE ~escapeFlag(s[i])
  BY <1>4 DEF ScalarStep
<1> QED BY <1>3, <1>4

(* The loop of AppendStringBody, step by step.                                *)
LEMMA ScalarDef ==
    ASSUME NEW s \in Seq(Nat)
    PROVE  \E st \in [0..Len(s) -> Loops] :
              /\ st[0] = [dst |-> <<>>, start |-> 1]
              /\ \A i \in 1..Len(s) : st[i] = ScalarStep(s, i, st[i - 1])
              /\ AppendStringBody(s) = st[Len(s)].dst \o SubSeq(s, st[Len(s)].start, Len(s))
<1> DEFINE D == 0..Len(s)
           a == [dst |-> <<>>, start |-> 1]
           P(st) == st = [i \in D |->
                IF i = 0 THEN [dst |-> <<>>, start |-> 1]
                ELSE IF ~escapeFlag(s[i]) THEN st[i - 1]
                ELSE [dst |-> st[i - 1].dst \o SubSeq(s, st[i - 1].start, i - 1)
                                            \o appendEscape(s[i]),
                      start |-> i + 1]]
           r == CHOOSE st : P(st)
           G == [i \in D |-> [x \in Loops |-> IF i = 0 THEN a ELSE ScalarStep(s, i, x)]]
<1>0. Len(s) \in Nat
  OBVIOUS
<1>1. Beginning(D)
  BY <1>0 DEF Beginning
<1>2. a \in Loops
  <2>1. <<>> \in Seq(Int) /\ 1 \in Nat \ {0}
    OBVIOUS
  <2> QED BY <2>1 DEF Loops
<1>3. G \in [D -> [Loops -> Loops]]
  <2> SUFFICES ASSUME NEW i \in D, NEW x \in Loops
               PROVE  (IF i = 0 THEN a ELSE ScalarStep(s, i, x)) \in Loops
    OBVIOUS
  <2>1. CASE i = 0
    <3> HIDE DEF a
    <3> QED BY <1>2, <2>1
  <2>2. CASE i # 0
    <3>1. i \in 1..Len(s)
      BY <1>0, <2>2
    <3>2. ScalarStep(s, i, x) \in Loops
      BY <3>1, ScalarTyped
    <3> QED BY <2>2, <3>2
  <2> QED BY <2>1, <2>2
<1>4. PICK h \in [D -> Loops] : \A i \in D : h[i] = IF i = 0 THEN a ELSE G[i][h[i - 1]]
  <2> HIDE DEF D, G, a
  <2>1. \E h \in [D -> Loops] : Steps(h, D, a, G)
    BY <1>1, <1>2, <1>3, NatRecursion
  <2> QED BY <2>1 DEF Steps
<1>5. \A i \in 1..Len(s) : i \in D /\ i - 1 \in D /\ i # 0
  BY <1>0
<1>6. \A i \in 1..Len(s) : h[i] = ScalarStep(s, i, h[i - 1])
  <2> SUFFICES ASSUME NEW i \in 1..Len(s) PROVE h[i] = ScalarStep(s, i, h[i - 1])
    OBVIOUS
  <2>1. i \in D /\ i - 1 \in D /\ i # 0
    BY <1>5
  <2>2. G[i][h[i - 1]] = ScalarStep(s, i, h[i - 1])
    <3> HIDE DEF a, D
    <3> QED BY <2>1
  <2> HIDE DEF G, a
  <2> QED BY <1>4, <2>1, <2>2
<1>7. h[0] = a
  <2> HIDE DEF G, a
  <2> QED BY <1>0, <1>4
<1>8. \E st : P(st)
  <2> DEFINE e(i) == IF i = 0 THEN [dst |-> <<>>, start |-> 1]
                ELSE IF ~escapeFlag(s[i]) THEN h[i - 1]
                ELSE [dst |-> h[i - 1].dst \o SubSeq(s, h[i - 1].start, i - 1)
                                            \o appendEscape(s[i]),
                      start |-> i + 1]
  <2>1. ASSUME NEW i \in D PROVE h[i] = e(i)
    <3>1. CASE i = 0
      BY <1>7, <3>1
    <3>2. CASE i # 0
      <4>1. i \in 1..Len(s)
        BY <1>0, <3>2
      <4>2. h[i] = ScalarStep(s, i, h[i - 1])
        BY <1>6, <4>1
      <4> QED BY <3>2, <4>2 DEF ScalarStep
    <3> QED BY <3>1, <3>2
  <2>2. h = [i \in D |-> h[i]]
    <3> HIDE DEF D, Loops
    <3> QED OBVIOUS
  <2>3. [i \in D |-> h[i]] = [i \in D |-> e(i)]
    <3> HIDE DEF D, e
    <3> QED BY <2>1
  <2>4. P(h)
    BY <2>2, <2>3, Zenon
  <2> HIDE DEF P
  <2> QED BY <2>4, SMTT(30)
<1>9. P(r)
  <2> HIDE DEF P
  <2> QED BY <1>8
<1>10. AppendStringBody(s) = r[Len(s)].dst \o SubSeq(s, r[Len(s)].start, Len(s))
  BY Zenon DEF AppendStringBody
<1> HIDE DEF r
<1>11. /\ r[0] = a
       /\ \A i \in 1..Len(s) : r[i] = ScalarStep(s, i, r[i - 1])
  <2>1. r[0] = a
    <3>1. 0 \in D
      BY <1>0, SMTT(30)
    <3> HIDE DEF D
    <3> QED BY <1>9, <3>1
  <2>2. ASSUME NEW i \in 1..Len(s) PROVE r[i] = ScalarStep(s, i, r[i - 1])
    <3>1. i \in D /\ i # 0
      BY <1>5
    <3> HIDE DEF D
    <3> QED BY <1>9, <3>1, ZenonT(40) DEF ScalarStep
  <2> QED BY <2>1, <2>2
<1> DEFINE T == {k \in Nat : k <= Len(s) => r[k] = h[k]}
<1>12. T = Nat
  <2>1. 0 \in T /\ T \in SUBSET Nat
    <3> HIDE DEF a, P, G, D
    <3> QED BY <1>7, <1>11
  <2>2. ASSUME NEW k \in T PROVE k + 1 \in T
    <3> SUFFICES ASSUME k + 1 <= Len(s) PROVE r[k + 1] = h[k + 1]
      OBVIOUS
    <3> DEFINE j == k + 1
    <3>1. j \in 1..Len(s) /\ j - 1 = k /\ r[k] = h[k]
      BY <1>0
    <3> HIDE DEF j, T, a, P, G, D
    <3>2. r[j] = ScalarStep(s, j, r[k]) /\ h[j] = ScalarStep(s, j, h[k])
      BY <1>6, <1>11, <3>1
    <3>3. r[j] = h[j]
      BY <3>1, <3>2
    <3> QED BY <3>3 DEF j
  <2> HIDE DEF T, a, P, G, D
  <2> QED BY <2>1, <2>2, Induction
<1>13. r[Len(s)] = h[Len(s)]
  <2>1. Len(s) \in T
    BY <1>0, <1>12
  <2> QED BY <1>0, <2>1
<1>14. AppendStringBody(s) = h[Len(s)].dst \o SubSeq(s, h[Len(s)].start, Len(s))
  <2> HIDE DEF a, P, G, D
  <2> QED BY <1>10, <1>13
<1> HIDE DEF G, P, T
<1> QED BY <1>6, <1>7, <1>14

(* Appending sequences of integers is associative.                            *)
LEMMA Associative ==
    ASSUME NEW x \in Seq(Int), NEW y \in Seq(Int), NEW z \in Seq(Int)
    PROVE  (x \o y) \o z = x \o (y \o z)
<1> DEFINE S == Int
<1>1. x \in Seq(S) /\ y \in Seq(S) /\ z \in Seq(S)
  OBVIOUS
<1> HIDE DEF S
<1> QED BY <1>1, ConcatAssociative, SMTT(30)

(* What is written after one more character.                                  *)
LEMMA WrittenStep ==
    ASSUME NEW s \in Seq(Nat), NEW F, Written(s, F), NEW k \in Nat, k + 1 <= Len(s)
    PROVE  /\ F[k] \in Seq(Int) /\ F[k + 1] \in Seq(Int) /\ Enc(s[k + 1]) \in Seq(Int)
           /\ F[k + 1] = F[k] \o Enc(s[k + 1])
<1> DEFINE j == k + 1
<1>1. j \in 1..Len(s) /\ j \in 0..Len(s) /\ k \in 0..Len(s) /\ j - 1 = k /\ s[j] \in Nat
  BY LenProperties
<1> HIDE DEF j
<1>2. F[j] = F[k] \o Enc(s[j]) /\ F[j] \in Seq(Int) /\ F[k] \in Seq(Int)
  BY <1>1 DEF Written
<1>3. Enc(s[j]) \in Seq(Int)
  BY <1>1, EncForms
<1> QED BY <1>2, <1>3 DEF j

(* The loop of the default build writes that.                                 *)
LEMMA ScalarFacts ==
    ASSUME NEW s \in Seq(Nat), NEW F, Written(s, F)
    PROVE  AppendStringBody(s) = F[Len(s)]
<1>0. Len(s) \in Nat /\ s \in Seq(Int)
  OBVIOUS
<1>1. PICK st \in [0..Len(s) -> Loops] :
              /\ st[0] = [dst |-> <<>>, start |-> 1]
              /\ \A i \in 1..Len(s) : st[i] = ScalarStep(s, i, st[i - 1])
              /\ AppendStringBody(s) = st[Len(s)].dst \o SubSeq(s, st[Len(s)].start, Len(s))
  BY ScalarDef
<1> DEFINE Good(k) == st[k].start <= k + 1 /\ st[k].dst \o SubSeq(s, st[k].start, k) = F[k]
           T == {k \in Nat : k <= Len(s) => Good(k)}
<1>2. Good(0)
  <2>1. st[0].dst = <<>> /\ st[0].start = 1
    BY <1>1
  <2>2. SubSeq(s, 1, 0) = <<>>
    BY SubSeqEmpty
  <2>3. <<>> \in Seq(Int) /\ F[0] = <<>>
    BY DEF Written
  <2>4. <<>> \o <<>> = <<>>
    BY <2>3, ConcatEmptySeq
  <2> QED BY <2>1, <2>2, <2>3, <2>4
<1>3. ASSUME NEW k \in Nat, Good(k), k + 1 <= Len(s) PROVE Good(k + 1)
  <2> DEFINE j == k + 1
             d == st[k].dst
             a == st[k].start
             x == SubSeq(s, a, k)
             e == Enc(s[j])
  <2>1. j \in 1..Len(s) /\ k \in 0..Len(s) /\ j - 1 = k /\ j \in Nat
    BY <1>0, <1>3
  <2>2. st[j] = ScalarStep(s, j, st[k]) /\ st[k] \in Loops
    <3> HIDE DEF j
    <3> QED BY <1>1, <2>1
  <2>3. d \in Seq(Int) /\ a \in Nat \ {0} /\ a <= j /\ d \o x = F[k]
    BY <1>3, <2>2 DEF Loops
  <2>4. F[k] \in Seq(Int) /\ F[j] \in Seq(Int) /\ e \in Seq(Int) /\ F[j] = F[k] \o e
    BY <1>3, WrittenStep
  <2>5. x \in Seq(Int) /\ <<s[j]>> \in Seq(Int) /\ SubSeq(s, a, j) = x \o <<s[j]>>
    <3> HIDE DEF a, j, e, d, x
    <3>1. j <= Len(s) /\ j \in Nat /\ a \in Nat \ {0} /\ a <= j
      BY <2>1, <2>3
    <3>2. SubSeq(s, a, j - 1) \in Seq(Int) /\ <<s[j]>> \in Seq(Int)
          /\ SubSeq(s, a, j) = SubSeq(s, a, j - 1) \o <<s[j]>>
      BY <1>0, <3>1, SpanStep, ZenonT(40)
    <3> QED BY <2>1, <3>2 DEF x
  <2>6. CASE ~escapeFlag(s[j])
    <3>1. st[j].dst = d /\ st[j].start = a /\ e = <<s[j]>>
      BY <2>2, <2>6 DEF ScalarStep, Enc
    <3> HIDE DEF d, a, x, e
    <3>2. d \o (x \o e) = (d \o x) \o e
        <4>1. d \in Seq(Int) /\ x \in Seq(Int) /\ e \in Seq(Int)
        BY <2>3, <2>4, <2>5
      <4> QED BY <4>1, Associative, ZenonT(40)
    <3>3. d \o SubSeq(s, a, j) = F[j]
      BY <2>3, <2>4, <2>5, <3>1, <3>2
    <3>4. a <= j + 1
      BY <2>1, <2>3
    <3> QED BY <3>1, <3>3, <3>4
  <2>7. CASE escapeFlag(s[j])
    <3>1. st[j].dst = d \o SubSeq(s, a, j - 1) \o e /\ st[j].start = j + 1
      <4>1. e = appendEscape(s[j])
        BY <2>7 DEF Enc
      <4>2. ScalarStep(s, j, st[k]) = [dst |-> d \o SubSeq(s, a, j - 1) \o appendEscape(s[j]),
                                       start |-> j + 1]
        BY <2>7, Zenon DEF ScalarStep
      <4> DEFINE g == st[j]
                 u == d \o SubSeq(s, a, j - 1) \o e
      <4>3. g = [dst |-> u, start |-> j + 1]
        <5> HIDE DEF e
        <5> QED BY <2>2, <4>1, <4>2, Zenon
      <4> HIDE DEF g, u
      <4>4. g.dst = u /\ g.start = j + 1
        BY <4>3
      <4> QED BY <4>4 DEF g, u
    <3>2. st[j].dst = F[j]
      <4> HIDE DEF d, a, e, j
      <4> QED BY <2>1, <2>3, <2>4, <3>1
    <3>3. SubSeq(s, j + 1, j) = <<>>
      <4> HIDE DEF j
      <4>1. j + 1 \in Int /\ j \in Int /\ j < j + 1
        BY <2>1
      <4> QED BY <4>1, SubSeqEmpty
    <3>4. F[j] \o <<>> = F[j]
      BY <2>4, ConcatEmptySeq
    <3>5. j + 1 <= j + 1
      BY <2>1
    <3> HIDE DEF d, a, x, e, j
    <3>6. Good(j)
      BY <3>1, <3>2, <3>3, <3>4, <3>5
    <3> QED BY <3>6 DEF j
  <2> QED BY <2>6, <2>7
<1>4. T = Nat
  <2>1. 0 \in T /\ T \in SUBSET Nat
    BY <1>2
  <2> HIDE DEF Good
  <2>2. ASSUME NEW k \in T PROVE k + 1 \in T
    <3> SUFFICES ASSUME k + 1 <= Len(s) PROVE Good(k + 1)
      OBVIOUS
    <3>1. k \in Nat /\ k <= Len(s) /\ (k <= Len(s) => Good(k))
      BY <1>0
    <3> HIDE DEF T
    <3> QED BY <1>3, <3>1
  <2> HIDE DEF T
  <2> QED BY <2>1, <2>2, Induction
<1>5. Good(Len(s))
  <2>1. Len(s) \in T
    BY <1>0, <1>4
  <2> HIDE DEF Good
  <2> QED BY <1>0, <2>1
<1> QED BY <1>1, <1>5

(* A span with nothing to escape goes out as it is.                           *)
LEMMA PlainSpan ==
    ASSUME NEW s \in Seq(Nat), NEW F, Written(s, F), NEW i \in 1..Len(s) + 1,
           NEW p \in i - 1..Len(s), \A q \in i..p : ~escapeFlag(s[q])
    PROVE  /\ SubSeq(s, i, p) \in Seq(Int) /\ F[i - 1] \in Seq(Int) /\ F[p] \in Seq(Int)
           /\ F[p] = F[i - 1] \o SubSeq(s, i, p)
<1>0. Len(s) \in Nat /\ s \in Seq(Int) /\ \A q \in 1..Len(s) : s[q] \in Int
  OBVIOUS
<1>1. /\ i \in Nat \ {0} /\ i - 1 \in 0..Len(s) /\ p \in 0..Len(s) /\ i <= Len(s) + 1
      /\ i - 1 <= p /\ p <= Len(s)
  BY <1>0
<1>2. F[i - 1] \in Seq(Int) /\ F[p] \in Seq(Int)
  BY <1>1 DEF Written
<1>3. SubSeq(s, i, p) \in Seq(Int)
  <2>1. \A q \in i..p : s[q] \in Int
    BY <1>0, <1>1
  <2>2. i \in Int /\ p \in Int
    BY <1>1
  <2> QED BY <2>1, <2>2, SubSeqProperties
<1> DEFINE Good(m) == F[i - 1 + m] = F[i - 1] \o SubSeq(s, i, i - 1 + m)
           T == {m \in Nat : i - 1 + m <= p => Good(m)}
<1>4. Good(0)
  <2>1. SubSeq(s, i, i - 1) = <<>>
    <3>1. i \in Int /\ i - 1 \in Int /\ i - 1 < i
      BY <1>1
    <3> QED BY <3>1, SubSeqEmpty
  <2>2. F[i - 1] \o <<>> = F[i - 1]
    BY <1>2, ConcatEmptySeq
  <2>3. i - 1 + 0 = i - 1
    BY <1>1
  <2> QED BY <2>1, <2>2, <2>3
<1>5. ASSUME NEW m \in Nat, Good(m), i - 1 + (m + 1) <= p PROVE Good(m + 1)
  <2> DEFINE k == i - 1 + m
             j == k + 1
             x == SubSeq(s, i, k)
  <2>1. k \in Nat /\ j \in Nat /\ j <= Len(s) /\ i <= j /\ j - 1 = k /\ j \in i..p
        /\ i - 1 + (m + 1) = j
    BY <1>0, <1>1, <1>5
  <2>2. F[k] \in Seq(Int) /\ Enc(s[j]) \in Seq(Int) /\ F[j] = F[k] \o Enc(s[j])
    <3> HIDE DEF k
    <3> QED BY <2>1, WrittenStep
  <2>3. Enc(s[j]) = <<s[j]>>
    <3> HIDE DEF j
    <3> QED BY <2>1 DEF Enc
  <2>4. x \in Seq(Int) /\ SubSeq(s, i, j) = x \o <<s[j]>>
    <3> HIDE DEF j, k, x
    <3>1. SubSeq(s, i, j - 1) \in Seq(Int) /\ SubSeq(s, i, j) = SubSeq(s, i, j - 1) \o <<s[j]>>
      BY <1>0, <1>1, <2>1, SpanStep, SMTT(30)
    <3> QED BY <2>1, <3>1 DEF x
  <2>5. F[k] = F[i - 1] \o x
    BY <1>5
  <2> HIDE DEF j, k, x
  <2> DEFINE y == <<s[j]>>
             z == F[i - 1]
  <2>6. y \in Seq(Int) /\ F[j] = (z \o x) \o y /\ z \in Seq(Int)
    BY <1>2, <2>2, <2>3, <2>5
  <2>7. SubSeq(s, i, j) = x \o y
    BY <2>4
  <2> HIDE DEF y, z
  <2>8. (z \o x) \o y = z \o (x \o y)
    <3>1. x \in Seq(Int) /\ y \in Seq(Int) /\ z \in Seq(Int)
      BY <2>4, <2>6
    <3> QED BY <3>1, Associative, Zenon
  <2>9. F[j] = z \o SubSeq(s, i, j)
    BY <2>6, <2>7, <2>8
  <2> QED BY <2>1, <2>9 DEF z
<1>6. T = Nat
  <2>1. 0 \in T /\ T \in SUBSET Nat
    BY <1>4
  <2> HIDE DEF Good
  <2>2. ASSUME NEW m \in T PROVE m + 1 \in T
    <3> SUFFICES ASSUME i - 1 + (m + 1) <= p PROVE Good(m + 1)
      OBVIOUS
    <3>1. m \in Nat /\ i - 1 + m <= p /\ (i - 1 + m <= p => Good(m))
      BY <1>1
    <3> HIDE DEF T
    <3> QED BY <1>5, <3>1
  <2> HIDE DEF T
  <2> QED BY <2>1, <2>2, Induction
<1>7. p - (i - 1) \in Nat /\ i - 1 + (p - (i - 1)) = p
  BY <1>1
<1>8. Good(p - (i - 1))
  <2>1. p - (i - 1) \in T
    BY <1>6, <1>7
  <2> HIDE DEF Good
  <2> QED BY <1>1, <1>7, <2>1
<1> QED BY <1>2, <1>3, <1>7, <1>8

(* Where the word loop stops: nothing before has to be escaped.               *)
LEMMA SkipFacts ==
    ASSUME NEW s \in Seq(Byte), NEW i \in 1..Len(s) + 1
    PROVE  /\ SkipWords(s, i) \in i..Len(s) + 1
           /\ \A q \in i..SkipWords(s, i) - 1 : ~escapeFlag(s[q])
<1> DEFINE W == WordBytes
           n == Len(s)
           stops == {k \in 0..n : \/ i + k * W + W - 1 > n
                                  \/ swarHasEscapable(s, i + k * W)}
           m == CHOOSE k \in stops : \A j \in stops : k <= j
<1>1. W \in Nat \ {0} /\ n \in Nat /\ i \in Nat \ {0} /\ i <= n + 1
  BY WordAssumption
<1>2. SkipWords(s, i) = i + W * m
  BY Zenon DEF SkipWords
<1>3. n \in stops /\ stops \in SUBSET Nat
  <2> HIDE DEF W, n
  <2>1. n * W >= n /\ n * W \in Nat
    BY <1>1
  <2>2. i + n * W + W - 1 > n /\ n \in 0..n
    BY <1>1, <2>1
  <2> QED BY <2>2
<1>4. m \in stops /\ \A j \in stops : m <= j
  <2> HIDE DEF stops
  <2>1. \E k \in stops : \A j \in stops : k <= j
    BY <1>3, LeastNat
  <2> QED BY <2>1, Zenon
<1> HIDE DEF m
<1>5. m \in Nat /\ m <= n
  BY <1>1, <1>4
<1>6. ASSUME NEW j \in Nat, j < m
      PROVE  /\ i + j * W \in Nat \ {0} /\ i + j * W + W - 1 <= n
             /\ ~swarHasEscapable(s, i + j * W)
  <2>1. j \in 0..n /\ j \notin stops
    <3> HIDE DEF stops, n
    <3> QED BY <1>1, <1>4, <1>5, <1>6
  <2>2. j * W \in Nat
    BY <1>1
  <2> HIDE DEF W, n
  <2>3. i + j * W \in Nat \ {0}
    BY <1>1, <2>2
  <2>4. ~(i + j * W + W - 1 > n) /\ ~swarHasEscapable(s, i + j * W)
    BY <2>1
  <2> QED BY <1>1, <2>2, <2>3, <2>4
<1> HIDE DEF stops
<1>7. i + W * m \in i..n + 1
  <2> HIDE DEF W, n
  <2>1. W * m \in Nat
    BY <1>1, <1>5
  <2>2. CASE m = 0
    BY <1>1, <2>2
  <2>3. CASE m # 0
    <3>1. m - 1 \in Nat /\ m - 1 < m
      BY <1>5, <2>3
    <3>2. i + (m - 1) * W + W - 1 <= n
      BY <1>6, <3>1
    <3>3. (m - 1) * W + W = W * m
      BY <1>1, <1>5
    <3>4. (m - 1) * W \in Nat
      BY <1>1, <3>1
    <3> QED BY <1>1, <2>1, <3>2, <3>3, <3>4
  <2> QED BY <2>2, <2>3
<1>8. ASSUME NEW q \in i..(i + W * m) - 1 PROVE ~escapeFlag(s[q])
  <2> DEFINE j == (q - i) \div W
             r == (q - i) % W
             p == i + j * W
  <2>1. j \in Int /\ r \in 0..W - 1 /\ q - i = j * W + r /\ q - i \in Nat /\ q - i < W * m
    <3> HIDE DEF W
    <3>1. q \in Int /\ q - i \in Nat
      BY <1>1
    <3>2. W * m \in Nat
      BY <1>1, <1>5
    <3>3. q - i < W * m
      BY <1>1, <3>1, <3>2
    <3> DEFINE d == q - i
    <3>4. d \in Nat
      BY <3>1
    <3> HIDE DEF d
    <3>5. d \div W \in Int /\ d % W \in 0..W - 1 /\ d = (d \div W) * W + (d % W)
      BY <1>1, <3>4
    <3> QED BY <3>1, <3>3, <3>5 DEF d
  <2> HIDE DEF j, r
  <2>2. j \in Nat /\ j < m
    <3> HIDE DEF W
    <3>1. j >= 0
      <4> SUFFICES ASSUME j <= -1 PROVE FALSE
        BY <2>1
      <4>1. j * W <= -1 * W
        BY <1>1, <2>1
      <4> QED BY <1>1, <2>1, <4>1
    <3>2. j < m
      <4> SUFFICES ASSUME j >= m PROVE FALSE
        BY <1>5, <2>1
      <4>1. j * W >= m * W /\ m * W = W * m
        BY <1>1, <1>5, <2>1
      <4> QED BY <1>1, <1>5, <2>1, <4>1
    <3> QED BY <2>1, <3>1, <3>2
  <2>3. p \in Nat \ {0} /\ p + W - 1 <= n /\ ~swarHasEscapable(s, p)
    BY <1>6, <2>2
  <2>4. q \in p..p + W - 1
    <3> HIDE DEF W
    <3>1. j * W \in Nat
      BY <1>1, <2>2
    <3>2. q \in Int /\ q = p + r
      BY <1>1, <2>1, <3>1
    <3> HIDE DEF p
    <3> QED BY <1>1, <2>1, <2>3, <3>2
  <2> HIDE DEF p
  <2> QED BY <2>3, <2>4, WordIsPlain
<1> DEFINE z == i + W * m
<1>9. z \in i..n + 1
  BY <1>7
<1>10. \A q \in i..z - 1 : ~escapeFlag(s[q])
  BY <1>8, Zenon
<1>11. SkipWords(s, i) = z
  BY <1>2, Zenon
<1> HIDE DEF z
<1> QED BY <1>9, <1>10, <1>11

(* Where the scan stops: at the first byte to escape.                         *)
LEMMA ScanFacts ==
    ASSUME NEW s \in Seq(Byte), NEW i \in 1..Len(s) + 1
    PROVE  /\ ScanBytes(s, i) \in i..Len(s) + 1
           /\ \A q \in i..ScanBytes(s, i) - 1 : ~escapeFlag(s[q])
           /\ ScanBytes(s, i) <= Len(s) => escapeFlag(s[ScanBytes(s, i)])
<1> DEFINE n == Len(s)
           stops == {p \in i..n : escapeFlag(s[p])} \cup {n + 1}
           m == CHOOSE p \in stops : \A q \in stops : p <= q
<1>1. n \in Nat /\ i \in Nat /\ i <= n + 1
  OBVIOUS
<1>2. ScanBytes(s, i) = m
  BY Zenon DEF ScanBytes
<1>3. n + 1 \in stops /\ stops \in SUBSET Nat
  <2> HIDE DEF n
  <2> QED BY <1>1
<1>4. m \in stops /\ \A j \in stops : m <= j
  <2> HIDE DEF stops
  <2>1. \E k \in stops : \A j \in stops : k <= j
    BY <1>3, LeastNat
  <2> QED BY <2>1, Zenon
<1> HIDE DEF m, n
<1>5. m \in i..n + 1 /\ (m <= n => escapeFlag(s[m]))
  BY <1>1, <1>4
<1>6. ASSUME NEW q \in i..m - 1 PROVE ~escapeFlag(s[q])
  <2>1. q \in i..n /\ ~(m <= q)
    BY <1>1, <1>5
  <2>2. q \notin stops
    BY <1>4, <2>1
  <2> QED BY <2>1, <2>2
<1> QED BY <1>2, <1>5, <1>6 DEF n

(* Where the two stop together.                                               *)
Stop(s, i) == ScanBytes(s, SkipWords(s, i))

(* It is at the first byte to escape, or at the end.                          *)
LEMMA StopFacts ==
    ASSUME NEW s \in Seq(Byte), NEW i \in 1..Len(s)
    PROVE  /\ Stop(s, i) \in i..Len(s) + 1
           /\ \A q \in i..Stop(s, i) - 1 : ~escapeFlag(s[q])
           /\ Stop(s, i) <= Len(s) => escapeFlag(s[Stop(s, i)])
<1> DEFINE a == SkipWords(s, i)
           b == ScanBytes(s, a)
<1>1. Len(s) \in Nat /\ i \in 1..Len(s) + 1
  OBVIOUS
<1>2. a \in i..Len(s) + 1 /\ \A q \in i..a - 1 : ~escapeFlag(s[q])
  BY <1>1, SkipFacts
<1> HIDE DEF a
<1>3. a \in 1..Len(s) + 1
  BY <1>1, <1>2
<1>4. /\ b \in a..Len(s) + 1
      /\ \A q \in a..b - 1 : ~escapeFlag(s[q])
      /\ b <= Len(s) => escapeFlag(s[b])
  BY <1>3, ScanFacts
<1> HIDE DEF b
<1>5. \A q \in i..b - 1 : q \in i..a - 1 \/ q \in a..b - 1
  BY <1>1, <1>3, <1>4
<1>6. b \in i..Len(s) + 1
  BY <1>1, <1>2, <1>4
<1>7. \A q \in i..b - 1 : ~escapeFlag(s[q])
  BY <1>2, <1>4, <1>5
<1>8. Stop(s, i) = b
  BY DEF Stop, a, b
<1> QED BY <1>4, <1>6, <1>7, <1>8

(* F computes a value at a position from those at later positions.            *)
ReadsAhead(F, D, S) ==
    /\ F \in [D -> [[D -> S] -> S]]
    /\ \A x \in D : \A g, h \in [D -> S] :
          (\A y \in D : x < y => g[y] = h[y]) => F[x][g] = F[x][h]

(* Positions up to b.                                                         *)
Within(D, b) == b \in Nat /\ D \in SUBSET (0..b)

(* Recursion on what is left, up to b.                                        *)
LEMMA DownRecursion ==
    ASSUME NEW b, NEW D, Within(D, b), NEW S, NEW s0 \in S, NEW F, ReadsAhead(F, D, S)
    PROVE  \E f \in [D -> S] : \A x \in D : f[x] = F[x][f]
<1> DEFINE rank == [x \in D |-> b - x]
<1>1. rank \in [D -> Nat]
  BY DEF Within
<1>2. F \in [D -> [[D -> S] -> S]]
  BY DEF ReadsAhead
<1>3. \A x, y \in D : x < y => rank[y] < rank[x]
  BY DEF Within
<1>4. ASSUME NEW x \in D, NEW g \in [D -> S], NEW h \in [D -> S],
             \A y \in D : rank[y] < rank[x] => g[y] = h[y]
      PROVE  F[x][g] = F[x][h]
  <2> HIDE DEF rank
  <2>1. \A y \in D : x < y => g[y] = h[y]
    BY <1>3, <1>4
  <2> QED BY <2>1 DEF ReadsAhead
<1> HIDE DEF rank
<1>5. Computes(F, rank, D, S)
  BY <1>1, <1>2, <1>4 DEF Computes
<1> QED BY <1>5, Recursion

(* Downward induction: a set that holds k when it holds all later positions.  *)
LEMMA DownInduction ==
    ASSUME NEW b, NEW D, Within(D, b), NEW T \in SUBSET D,
           \A k \in D : (\A j \in D : k < j => j \in T) => k \in T
    PROVE  T = D
<1> USE DEF Within
<1> SUFFICES ASSUME D \ T # {} PROVE FALSE
  OBVIOUS
<1> DEFINE U == {b - k : k \in D \ T}
<1>1. U \in SUBSET Nat /\ U # {}
  OBVIOUS
<1>2. PICK u \in U : \A v \in U : u <= v
  <2> HIDE DEF U
  <2> QED BY <1>1, LeastNat
<1>3. PICK k \in D \ T : u = b - k
  OBVIOUS
<1>4. \A j \in D \ T : b - k <= b - j
  <2> SUFFICES ASSUME NEW j \in D \ T PROVE b - k <= b - j
    OBVIOUS
  <2>1. b - j \in U
    OBVIOUS
  <2> HIDE DEF U
  <2> QED BY <1>2, <1>3, <2>1
<1>5. \A j \in D : k < j => j \in T
  BY <1>4
<1> QED BY <1>3, <1>5

(* Bytes are numbers.                                                         *)
LEMMA ByteSeq ==
    ASSUME NEW s \in Seq(Byte)
    PROVE  Len(s) \in Nat /\ s \in Seq(Nat) /\ \A q \in 1..Len(s) : s[q] \in Nat
<1>1. Byte \subseteq Nat
  BY DEF Byte
<1>2. Len(s) \in Nat /\ \A q \in 1..Len(s) : s[q] \in Byte
  OBVIOUS
<1>3. s \in [1..Len(s) -> Byte]
  OBVIOUS
<1>4. s \in [1..Len(s) -> Nat]
  BY <1>1, <1>3
<1> QED BY <1>1, <1>2, <1>4

(* What the word build writes from position i on.                             *)
SwarStep(s, i, g) ==
    IF i > Len(s) THEN <<>>
    ELSE SubSeq(s, i, Stop(s, i) - 1)
         \o (IF Stop(s, i) > Len(s) THEN <<>>
             ELSE appendEscape(s[Stop(s, i)]) \o g[Stop(s, i) + 1])

(* It is a text.                                                              *)
LEMMA SwarTyped ==
    ASSUME NEW s \in Seq(Byte), NEW i \in 1..Len(s) + 1, NEW g \in [1..Len(s) + 1 -> Seq(Int)]
    PROVE  SwarStep(s, i, g) \in Seq(Int)
<1>1. CASE i > Len(s)
  BY <1>1 DEF SwarStep
<1>2. CASE ~(i > Len(s))
  <2> DEFINE p == Stop(s, i)
  <2>1. Len(s) \in Nat /\ i \in 1..Len(s) /\ \A q \in 1..Len(s) : s[q] \in Nat
    BY <1>2, ByteSeq
  <2>2. p \in i..Len(s) + 1 /\ (p <= Len(s) => escapeFlag(s[p]))
    BY <2>1, StopFacts
  <2> HIDE DEF p
  <2>3. SubSeq(s, i, p - 1) \in Seq(Int)
    <3>1. i \in Int /\ p - 1 \in Int /\ \A q \in i..p - 1 : s[q] \in Int
      BY <2>1, <2>2
    <3> QED BY <3>1, SubSeqProperties
  <2>4. ASSUME p <= Len(s) PROVE appendEscape(s[p]) \in Seq(Int) /\ g[p + 1] \in Seq(Int)
    <3>1. p \in 1..Len(s) /\ p + 1 \in 1..Len(s) + 1
      BY <2>1, <2>2, <2>4
    <3>2. s[p] \in Nat /\ escapeFlag(s[p])
      BY <2>1, <2>2, <3>1
    <3> DEFINE c == s[p]
    <3>3. Enc(c) \in Seq(Int) /\ Enc(c) = appendEscape(c)
      <4> HIDE DEF c
      <4>1. c \in Nat /\ escapeFlag(c)
        BY <3>2 DEF c
      <4> QED BY <4>1, EncForms DEF Enc
    <3> QED BY <3>1, <3>3
  <2> DEFINE x == SubSeq(s, i, p - 1)
             y == appendEscape(s[p])
             z == g[p + 1]
             w == IF p > Len(s) THEN <<>> ELSE y \o z
  <2>5. w \in Seq(Int)
    <3>1. CASE p > Len(s)
      BY <3>1
    <3>2. CASE ~(p > Len(s))
      <4>1. y \in Seq(Int) /\ z \in Seq(Int)
        BY <2>1, <2>2, <2>4, <3>2
      <4> HIDE DEF y, z
      <4>2. y \o z \in Seq(Int)
        BY <4>1, ConcatProperties
      <4> QED BY <3>2, <4>2
    <3> QED BY <3>1, <3>2
  <2> HIDE DEF x, w
  <2>6. x \o w \in Seq(Int)
    BY <2>3, <2>5, ConcatProperties DEF x
  <2>7. SwarStep(s, i, g) = x \o w
    BY <1>2, Zenon DEF SwarStep, x, w, p
  <2> QED BY <2>6, <2>7
<1> QED BY <1>1, <1>2

(* The loop of the word build, step by step.                                  *)
LEMMA SwarDef ==
    ASSUME NEW s \in Seq(Byte)
    PROVE  \E r : /\ \A i \in 1..Len(s) + 1 : r[i] = SwarStep(s, i, r)
                  /\ appendStringBodySWAR(s) = r[1]
<1> DEFINE D == 1..Len(s) + 1
           S == Seq(Int)
           P(v) == v = [i \in D |->
                        IF i > Len(s) THEN <<>>
                        ELSE LET stop == ScanBytes(s, SkipWords(s, i))
                             IN  SubSeq(s, i, stop - 1)
                                 \o (IF stop > Len(s) THEN <<>>
                                     ELSE appendEscape(s[stop]) \o v[stop + 1])]
           r == CHOOSE v : P(v)
           F == [i \in D |-> [g \in [D -> S] |-> SwarStep(s, i, g)]]
<1>0. Len(s) \in Nat
  OBVIOUS
<1>1. F \in [D -> [[D -> S] -> S]]
  <2> SUFFICES ASSUME NEW i \in D, NEW g \in [D -> S] PROVE SwarStep(s, i, g) \in S
    OBVIOUS
  <2> QED BY SwarTyped
<1>2. ASSUME NEW i \in D, NEW g \in [D -> S], NEW h \in [D -> S],
             \A j \in D : i < j => g[j] = h[j]
      PROVE  SwarStep(s, i, g) = SwarStep(s, i, h)
  <2>1. CASE i > Len(s)
    BY <2>1 DEF SwarStep
  <2>2. CASE ~(i > Len(s))
    <3> DEFINE p == Stop(s, i)
    <3>1. i \in 1..Len(s)
      BY <1>0, <2>2
    <3>2. p \in i..Len(s) + 1
      BY <3>1, StopFacts
    <3> HIDE DEF p
    <3>3. ~(p > Len(s)) => g[p + 1] = h[p + 1]
      BY <1>0, <1>2, <3>1, <3>2
    <3> HIDE DEF D, S
    <3> QED BY <3>3, Zenon DEF SwarStep, p
  <2> QED BY <2>1, <2>2
<1>3. PICK f \in [D -> S] : \A i \in D : f[i] = SwarStep(s, i, f)
  <2> DEFINE b == Len(s) + 1
  <2>1. Within(D, b)
    BY <1>0 DEF Within
  <2>2. \A i \in D : \A g \in [D -> S] : F[i][g] = SwarStep(s, i, g)
    OBVIOUS
  <2>3. <<>> \in S
    OBVIOUS
  <2> HIDE DEF F, D, S, b
  <2>4. ReadsAhead(F, D, S)
    <3>1. ASSUME NEW x \in D, NEW g \in [D -> S], NEW h \in [D -> S],
                 \A y \in D : x < y => g[y] = h[y]
          PROVE  F[x][g] = F[x][h]
      <4>1. SwarStep(s, x, g) = SwarStep(s, x, h)
        BY <1>2, <3>1
      <4> QED BY <2>2, <4>1, Zenon
    <3> QED BY <1>1, <3>1, Zenon DEF ReadsAhead
  <2>5. \E f \in [D -> S] : \A i \in D : f[i] = F[i][f]
    BY <2>1, <2>3, <2>4, DownRecursion
  <2> QED BY <2>2, <2>5, ZenonT(40)
<1>4. \E v : P(v)
  <2> DEFINE e(i) == IF i > Len(s) THEN <<>>
                     ELSE LET stop == ScanBytes(s, SkipWords(s, i))
                          IN  SubSeq(s, i, stop - 1)
                              \o (IF stop > Len(s) THEN <<>>
                                  ELSE appendEscape(s[stop]) \o f[stop + 1])
  <2>1. \A i \in D : f[i] = e(i)
    <3> HIDE DEF D, S
    <3> QED BY <1>3, Zenon DEF SwarStep, Stop
  <2>2. f = [i \in D |-> f[i]]
    <3> HIDE DEF D, S
    <3> QED OBVIOUS
  <2>3. [i \in D |-> f[i]] = [i \in D |-> e(i)]
    <3> HIDE DEF D, e
    <3> QED BY <2>1
  <2>4. P(f)
    BY <2>2, <2>3, Zenon
  <2> HIDE DEF P
  <2> QED BY <2>4
<1>5. P(r)
  <2> HIDE DEF P
  <2> QED BY <1>4
<1>6. appendStringBodySWAR(s) = r[1]
  BY Zenon DEF appendStringBodySWAR
<1> HIDE DEF r, F, S
<1>7. \A i \in D : r[i] = SwarStep(s, i, r)
  <2> HIDE DEF D
  <2> QED BY <1>5, Zenon DEF SwarStep, Stop
<1> HIDE DEF P
<1> QED BY <1>6, <1>7

(* So the word build writes the same.                                         *)
LEMMA SwarFacts ==
    ASSUME NEW s \in Seq(Byte), NEW F, Written(s, F)
    PROVE  appendStringBodySWAR(s) = F[Len(s)]
<1> DEFINE n == Len(s)
<1>0. n \in Nat /\ s \in Seq(Nat) /\ \A q \in 1..n : s[q] \in Nat
  BY ByteSeq
<1>1. PICK r : /\ \A i \in 1..n + 1 : r[i] = SwarStep(s, i, r)
               /\ appendStringBodySWAR(s) = r[1]
  BY SwarDef
<1> DEFINE Good(i) == r[i] \in Seq(Int) /\ F[i - 1] \o r[i] = F[n]
           D == 1..n + 1
           T == {i \in D : Good(i)}
<1>2. ASSUME NEW i \in D, \A j \in D : i < j => Good(j) PROVE Good(i)
  <2>1. r[i] = SwarStep(s, i, r)
    BY <1>1
  <2>2. F[i - 1] \in Seq(Int) /\ F[n] \in Seq(Int)
    <3>1. i - 1 \in 0..Len(s) /\ Len(s) \in 0..Len(s)
      BY <1>0, <1>2
    <3> DEFINE S == Seq(Int)
    <3>2. F \in [0..Len(s) -> S]
      BY DEF Written
    <3> HIDE DEF S
    <3>3. F[i - 1] \in S /\ F[n] \in S
      BY <3>1, <3>2
    <3> QED BY <3>3 DEF S
  <2>3. CASE i > n
    <3>1. i - 1 = n
      BY <1>0, <2>3
    <3>2. r[i] = <<>> /\ <<>> \in Seq(Int)
      BY <2>1, <2>3 DEF SwarStep
    <3>3. F[n] \o <<>> = F[n]
      BY <2>2, ConcatEmptySeq
    <3> QED BY <3>1, <3>2, <3>3
  <2>4. CASE ~(i > n)
    <3> DEFINE p == Stop(s, i)
               a == F[i - 1]
               x == SubSeq(s, i, p - 1)
               y == appendEscape(s[p])
               z == r[p + 1]
               w == IF p > n THEN <<>> ELSE y \o z
    <3>1. i \in 1..n
      BY <1>0, <2>4
    <3>2. /\ p \in i..n + 1
          /\ \A q \in i..p - 1 : ~escapeFlag(s[q])
          /\ p <= n => escapeFlag(s[p])
      BY <3>1, StopFacts
    <3>3. r[i] = x \o w
      BY <2>1, <2>4, Zenon DEF SwarStep
    <3> HIDE DEF p
    <3>4. x \in Seq(Int) /\ F[p - 1] \in Seq(Int) /\ F[p - 1] = a \o x
      <4>1. i \in 1..n + 1 /\ p - 1 \in i - 1..n
        BY <1>0, <3>1, <3>2
      <4> DEFINE m == p - 1
      <4>2. m \in i - 1..n /\ \A q \in i..m : ~escapeFlag(s[q])
        BY <3>2, <4>1
      <4> HIDE DEF m, n
      <4>3. SubSeq(s, i, m) \in Seq(Int) /\ F[m] \in Seq(Int) /\ F[m] = F[i - 1] \o SubSeq(s, i, m)
        BY <1>0, <4>1, <4>2, PlainSpan DEF n
      <4> QED BY <4>3 DEF m
    <3>5. CASE p > n
      <4>1. w = <<>> /\ p - 1 = n
        BY <1>0, <3>1, <3>2, <3>5
      <4> HIDE DEF x, w, a
      <4>2. x \o w = x
        BY <3>4, <4>1, ConcatEmptySeq
      <4> QED BY <3>3, <3>4, <4>1, <4>2 DEF a
    <3>6. CASE ~(p > n)
      <4>1. p \in 1..n /\ p + 1 \in D /\ i < p + 1 /\ p \in Nat
        BY <1>0, <3>1, <3>2, <3>6
      <4>2. z \in Seq(Int) /\ F[p] \o z = F[n]
        <5> DEFINE j == p + 1
        <5>1. j \in D /\ i < j /\ j - 1 = p
          BY <4>1
        <5> HIDE DEF j, D
        <5>2. Good(j)
          BY <1>2, <5>1
        <5> QED BY <5>1, <5>2 DEF j
      <4>3. y \in Seq(Int) /\ F[p] = F[p - 1] \o y
        <5> DEFINE k == p - 1
                   c == s[p]
        <5>1. k \in Nat /\ k + 1 = p /\ k + 1 <= Len(s) /\ escapeFlag(c)
          BY <1>0, <3>2, <3>6, <4>1
        <5> HIDE DEF k
        <5>2. Enc(s[k + 1]) \in Seq(Int) /\ F[k + 1] = F[k] \o Enc(s[k + 1])
          BY <1>0, <5>1, WrittenStep
        <5>3. Enc(c) \in Seq(Int) /\ F[p] = F[k] \o Enc(c)
          BY <5>1, <5>2
        <5> HIDE DEF c
        <5>4. Enc(c) = appendEscape(c)
          BY <5>1 DEF Enc
        <5> QED BY <5>3, <5>4 DEF c, k
      <4>4. w = y \o z
        BY <3>6
      <4>5. a \in Seq(Int)
        BY <2>2
      <4> HIDE DEF a, x, y, z, w
      <4> DEFINE yz == y \o z
                 ax == a \o x
      <4>6. yz \in Seq(Int) /\ ax \in Seq(Int)
        BY <3>4, <4>2, <4>3, <4>5, ConcatProperties
      <4>7. ax \o yz = a \o (x \o yz)
        <5> HIDE DEF yz
        <5> QED BY <3>4, <4>5, <4>6, Associative, ZenonT(40)
      <4>8. (ax \o y) \o z = ax \o yz
        <5> HIDE DEF ax
        <5> QED BY <4>2, <4>3, <4>6, Associative, ZenonT(40)
      <4>9. x \o yz \in Seq(Int)
        <5> HIDE DEF yz
        <5> QED BY <3>4, <4>6, ConcatProperties
      <4>10. r[i] = x \o yz
        BY <3>3, <4>4
      <4>11. F[n] = (ax \o y) \o z
        BY <3>4, <4>2, <4>3
      <4> HIDE DEF ax, yz
      <4> QED BY <4>7, <4>8, <4>9, <4>10, <4>11 DEF a
    <3> QED BY <3>5, <3>6
  <2> QED BY <2>3, <2>4
<1>3. T = D
  <2>1. Within(D, n + 1) /\ T \in SUBSET D
    <3> HIDE DEF Good, n
    <3> QED BY <1>0 DEF Within
  <2> HIDE DEF Good
  <2>2. \A k \in D : (\A j \in D : k < j => j \in T) => k \in T
    BY <1>2
  <2> HIDE DEF T, D
  <2> QED BY <2>1, <2>2, DownInduction
<1>4. Good(1)
  <2>1. 1 \in D
    BY <1>0
  <2> HIDE DEF Good, D
  <2> QED BY <1>3, <2>1
<1>5. F[1 - 1] = <<>>
  BY DEF Written
<1>6. <<>> \o r[1] = r[1]
  BY <1>4, ConcatEmptySeq
<1> QED BY <1>1, <1>4, <1>5, <1>6

(* A digit in base 16 is read back.                                           *)
LEMMA HexFacts ==
    ASSUME NEW d \in 0..15
    PROVE  Unhex(Hex(d)) = d
<1>1. CASE d < 10
  BY <1>1 DEF Hex, Unhex
<1>2. CASE ~(d < 10)
  BY <1>2 DEF Hex, Unhex
<1> QED BY <1>1, <1>2

(* e stands at position i of t.                                               *)
At(t, i, e) ==
    /\ i \in Nat \ {0} /\ Len(t) \in Nat /\ Len(e) \in Nat
    /\ i + Len(e) <= Len(t) + 1
    /\ \A m \in 1..Len(e) : t[i + m - 1] = e[m]

(* Its first elements are there.                                              *)
LEMMA AtFirst ==
    ASSUME NEW t, NEW i, NEW e, At(t, i, e)
    PROVE  /\ Len(e) >= 1 => t[i] = e[1] /\ i <= Len(t)
           /\ Len(e) >= 2 => t[i + 1] = e[2] /\ i + 1 <= Len(t)
           /\ Len(e) >= 6 => /\ t[i + 2] = e[3] /\ t[i + 3] = e[4] /\ t[i + 4] = e[5]
                             /\ t[i + 5] = e[6] /\ i + 5 <= Len(t)
<1> USE DEF At
<1>1. /\ Len(e) >= 1 => 1 \in 1..Len(e) /\ i + 1 - 1 = i
      /\ Len(e) >= 2 => 2 \in 1..Len(e) /\ i + 2 - 1 = i + 1
      /\ Len(e) >= 6 => /\ 3 \in 1..Len(e) /\ i + 3 - 1 = i + 2
                        /\ 4 \in 1..Len(e) /\ i + 4 - 1 = i + 3
                        /\ 5 \in 1..Len(e) /\ i + 5 - 1 = i + 4
                        /\ 6 \in 1..Len(e) /\ i + 6 - 1 = i + 5
  OBVIOUS
<1>2. Len(e) >= 1 => t[i] = e[1] /\ i <= Len(t)
  BY <1>1
<1>3. Len(e) >= 2 => t[i + 1] = e[2] /\ i + 1 <= Len(t)
  BY <1>1
<1>4. Len(e) >= 6 => t[i + 2] = e[3] /\ t[i + 3] = e[4]
  BY <1>1
<1>5. Len(e) >= 6 => t[i + 4] = e[5] /\ t[i + 5] = e[6] /\ i + 5 <= Len(t)
  BY <1>1
<1> QED BY <1>2, <1>3, <1>4, <1>5

(* The form of a character denotes it.                                        *)
LEMMA DenotedFacts ==
    ASSUME NEW c \in Nat, NEW t, NEW i, At(t, i, Enc(c))
    PROVE  Denoted(t, i) = <<c, Len(Enc(c))>> /\ Len(Enc(c)) \in Nat \ {0}
<1> DEFINE e == Enc(c)
<1>0. /\ i \in Nat \ {0} /\ Len(t) \in Nat
      /\ IsBare(c, e) \/ IsSlashed(c, e) \/ IsShort(c, e) \/ IsHex(c, e)
  BY EncForms DEF At
<1>1. At(t, i, e)
  OBVIOUS
<1> HIDE DEF e
<1>2. CASE IsBare(c, e)
  <2>1. e = <<c>> /\ Len(e) = 1 /\ e[1] = c /\ ~(c < 32) /\ c # Quote /\ c # Slash
    BY <1>2 DEF IsBare
  <2>2. t[i] = c
    BY <1>1, <2>1, AtFirst
  <2>3. Denoted(t, i) = <<c, 1>>
    BY <2>1, <2>2 DEF Denoted
  <2> QED BY <2>1, <2>3 DEF e
<1>3. CASE IsSlashed(c, e)
  <2>1. Len(e) = 2 /\ e[1] = Slash /\ e[2] = c /\ c \in {Quote, Slash}
    BY <1>3 DEF IsSlashed
  <2>2. t[i] = Slash /\ t[i + 1] = c /\ i # Len(t)
    BY <1>0, <1>1, <2>1, AtFirst, SMTT(30)
  <2>3. Denoted(t, i) = <<c, 2>>
    BY <2>1, <2>2, Zenon DEF Denoted
  <2> QED BY <2>1, <2>3 DEF e
<1>4. CASE IsShort(c, e)
  <2> DEFINE l == Short[c]
             from == {d \in DOMAIN Short : Short[d] = t[i + 1]}
  <2>1. e = <<Slash, l>> /\ c \in DOMAIN Short
    BY <1>4 DEF IsShort
  <2>2. l \notin {Quote, Slash, 117} /\ \A d \in DOMAIN Short : Short[d] = l => d = c
    BY <2>1, ShortFacts
  <2> HIDE DEF l
  <2>3. Len(e) = 2 /\ e[1] = Slash /\ e[2] = l
    BY <2>1
  <2>4. t[i] = Slash /\ t[i + 1] = l /\ i # Len(t)
    BY <1>0, <1>1, <2>3, AtFirst, SMTT(30)
  <2>5. from = {c}
    BY <2>1, <2>2, <2>4 DEF l
  <2>6. (IF from = {} THEN -1 ELSE CHOOSE d \in from : TRUE) = c
    <3> HIDE DEF from
    <3> QED BY <2>5
  <2>7. Denoted(t, i) = <<IF from = {} THEN -1 ELSE CHOOSE d \in from : TRUE, 2>>
    <3>1. t[i] = Slash /\ i # Len(t) /\ t[i + 1] \notin {Quote, Slash} /\ t[i + 1] # 117
      BY <2>2, <2>4
    <3> QED BY <3>1, Zenon DEF Denoted
  <2> HIDE DEF from
  <2>8. Denoted(t, i) = <<c, 2>>
    BY <2>6, <2>7, Zenon
  <2> QED BY <2>3, <2>8 DEF e
<1>5. CASE IsHex(c, e)
  <2> DEFINE h == Hex(c \div 16)
             l == Hex(c % 16)
  <2>1. e = <<Slash, 117, 48, 48, h, l>> /\ c < 32
    BY <1>5 DEF IsHex
  <2>2. Unhex(h) = c \div 16 /\ Unhex(l) = c % 16
    <3>1. c \div 16 \in 0..15 /\ c % 16 \in 0..15
      BY <2>1
    <3> QED BY <3>1, HexFacts
  <2> HIDE DEF h, l
  <2>3. Len(e) = 6 /\ e[1] = Slash /\ e[2] = 117 /\ e[3] = 48 /\ e[4] = 48 /\ e[5] = h /\ e[6] = l
    BY <2>1
  <2>4. /\ t[i] = Slash /\ t[i + 1] = 117 /\ i # Len(t) /\ i + 5 <= Len(t)
        /\ t[i + 2] = 48 /\ t[i + 3] = 48 /\ t[i + 4] = h /\ t[i + 5] = l
    <3>1. Len(e) >= 1 /\ Len(e) >= 2 /\ Len(e) >= 6
      BY <2>3
    <3>2. /\ t[i] = e[1] /\ t[i + 1] = e[2] /\ t[i + 2] = e[3] /\ t[i + 3] = e[4]
          /\ t[i + 4] = e[5] /\ t[i + 5] = e[6] /\ i + 5 <= Len(t)
      <4>1. /\ Len(e) >= 1 => t[i] = e[1] /\ i <= Len(t)
            /\ Len(e) >= 2 => t[i + 1] = e[2] /\ i + 1 <= Len(t)
            /\ Len(e) >= 6 => /\ t[i + 2] = e[3] /\ t[i + 3] = e[4] /\ t[i + 4] = e[5]
                              /\ t[i + 5] = e[6] /\ i + 5 <= Len(t)
        BY <1>1, AtFirst
      <4> QED BY <3>1, <4>1, Zenon
    <3>3. i # Len(t)
      BY <1>0, <3>2
    <3> QED BY <2>3, <3>2, <3>3, ZenonT(40)
  <2>5. 117 \notin {Quote, Slash}
    BY DEF Quote, Slash
  <2>6. Denoted(t, i) = <<Unhex(h) * 16 + Unhex(l), 6>>
    BY <2>4, <2>5, Zenon DEF Denoted
  <2>7. Unhex(h) * 16 + Unhex(l) = c
    <3>1. (c \div 16) * 16 + (c % 16) = c
      OBVIOUS
    <3> QED BY <2>2, <3>1
  <2>8. Denoted(t, i) = <<c, 6>>
    BY <2>6, <2>7, Zenon
  <2> QED BY <2>3, <2>8 DEF e
<1> QED BY <1>0, <1>2, <1>3, <1>4, <1>5

(* What a decoder makes of the text from position i on.                       *)
DecodeStep(t, i, g) ==
    IF i > Len(t) THEN <<>> ELSE <<Denoted(t, i)[1]>> \o g[i + Denoted(t, i)[2]]

(* A character denotes a number, and stays within the text.                   *)
LEMMA DenotedTyped ==
    ASSUME NEW t \in Seq(Int), NEW i \in 1..Len(t)
    PROVE  /\ Denoted(t, i)[1] \in Int
           /\ Denoted(t, i)[2] \in Nat \ {0} /\ i + Denoted(t, i)[2] <= Len(t) + 1
<1>0. Len(t) \in Nat /\ i \in Nat /\ i <= Len(t)
  OBVIOUS
<1>1. CASE t[i] # Slash
  <2> DEFINE v == IF t[i] < 32 \/ t[i] = Quote THEN -1 ELSE t[i]
  <2>1. v \in Int
    OBVIOUS
  <2>2. Denoted(t, i) = <<v, 1>>
    BY <1>1, Zenon DEF Denoted
  <2> HIDE DEF v
  <2> QED BY <1>0, <2>1, <2>2
<1>2. CASE t[i] = Slash /\ i = Len(t)
  <2>1. Denoted(t, i) = <<-1, 1>>
    BY <1>2, Zenon DEF Denoted
  <2> QED BY <1>0, <2>1
<1>3. CASE t[i] = Slash /\ i # Len(t) /\ t[i + 1] \in {Quote, Slash}
  <2>1. Denoted(t, i) = <<t[i + 1], 2>>
    BY <1>3, Zenon DEF Denoted
  <2> DEFINE v == t[i + 1]
  <2>2. v \in Int
    <3>1. i + 1 \in 1..Len(t)
      BY <1>0, <1>3
    <3> QED BY <3>1, ElementOfSeq
  <2>3. Denoted(t, i) = <<v, 2>>
    BY <2>1
  <2> HIDE DEF v
  <2> QED BY <1>0, <1>3, <2>2, <2>3
<1>4. CASE /\ t[i] = Slash /\ i # Len(t) /\ t[i + 1] \notin {Quote, Slash}
           /\ t[i + 1] = 117 /\ i + 5 <= Len(t) /\ t[i + 2] = 48 /\ t[i + 3] = 48
  <2> DEFINE v == Unhex(t[i + 4]) * 16 + Unhex(t[i + 5])
  <2>1. v \in Int
    <3>1. t[i + 4] \in Int /\ t[i + 5] \in Int
      BY <1>0, <1>4, SMTT(30)
    <3>2. \A c \in Int : Unhex(c) \in Int
      BY DEF Unhex
    <3> DEFINE x == Unhex(t[i + 4])
               y == Unhex(t[i + 5])
    <3>3. x \in Int /\ y \in Int
      BY <3>1, <3>2
    <3> HIDE DEF x, y
    <3>4. x * 16 + y \in Int
      BY <3>3
    <3> QED BY <3>4, Zenon DEF x, y, v
  <2>2. Denoted(t, i) = <<v, 6>>
    BY <1>4, Zenon DEF Denoted
  <2> HIDE DEF v
  <2> QED BY <1>0, <1>4, <2>1, <2>2
<1>5. CASE /\ t[i] = Slash /\ i # Len(t) /\ t[i + 1] \notin {Quote, Slash}
           /\ ~(t[i + 1] = 117 /\ i + 5 <= Len(t) /\ t[i + 2] = 48 /\ t[i + 3] = 48)
  <2> DEFINE from == {c \in DOMAIN Short : Short[c] = t[i + 1]}
             v == IF from = {} THEN -1 ELSE CHOOSE c \in from : TRUE
  <2>1. v \in Int
    <3>1. from \in SUBSET Int
      BY ShortFacts, SMTT(30)
    <3> HIDE DEF from
    <3>2. CASE from = {}
      BY <3>2
    <3>3. CASE from # {}
      <4> DEFINE w == CHOOSE c \in from : TRUE
      <4>1. PICK c \in from : TRUE
        BY <3>3
      <4>2. w \in from
        BY <4>1, Zenon
      <4> HIDE DEF w
      <4>3. w \in Int
        BY <3>1, <4>2
      <4> QED BY <3>3, <4>3, Zenon DEF w
    <3> QED BY <3>2, <3>3
  <2>2. Denoted(t, i) = <<v, 2>>
    BY <1>5, Zenon DEF Denoted
  <2> HIDE DEF v
  <2> QED BY <1>0, <1>5, <2>1, <2>2
<1> QED BY <1>1, <1>2, <1>3, <1>4, <1>5

(* The decoder, step by step.                                                 *)
LEMMA DecodeDef ==
    ASSUME NEW t \in Seq(Int)
    PROVE  \E r : /\ \A i \in 1..Len(t) + 1 : r[i] = DecodeStep(t, i, r)
                  /\ Decode(t) = r[1]
<1> DEFINE D == 1..Len(t) + 1
           S == Seq(Int)
           P(v) == v = [i \in D |->
                        IF i > Len(t) THEN <<>>
                        ELSE <<Denoted(t, i)[1]>> \o v[i + Denoted(t, i)[2]]]
           r == CHOOSE v : P(v)
           F == [i \in D |-> [g \in [D -> S] |-> DecodeStep(t, i, g)]]
<1>0. Len(t) \in Nat
  OBVIOUS
<1>a. ASSUME NEW i \in D, ~(i > Len(t))
      PROVE  /\ i + Denoted(t, i)[2] \in D /\ i < i + Denoted(t, i)[2]
             /\ <<Denoted(t, i)[1]>> \in S
  <2> DEFINE d == Denoted(t, i)[2]
             c == Denoted(t, i)[1]
  <2>1. c \in Int /\ d \in Nat \ {0} /\ i + d <= Len(t) + 1
    <3>1. i \in 1..Len(t)
      BY <1>0, <1>a
    <3> QED BY <3>1, DenotedTyped
  <2> HIDE DEF d, c
  <2>2. i + d \in D /\ i < i + d /\ <<c>> \in S
    BY <1>0, <2>1
  <2> QED BY <2>2 DEF d, c
<1> HIDE DEF D
<1>1. ASSUME NEW i \in D, NEW g \in [D -> S] PROVE DecodeStep(t, i, g) \in S
  <2>1. CASE i > Len(t)
    BY <2>1 DEF DecodeStep
  <2>2. CASE ~(i > Len(t))
    <3> DEFINE x == <<Denoted(t, i)[1]>>
               y == g[i + Denoted(t, i)[2]]
    <3>1. x \in S /\ y \in S
      BY <1>a, <2>2
    <3>2. DecodeStep(t, i, g) = x \o y
      BY <2>2, Zenon DEF DecodeStep
    <3> HIDE DEF x, y
    <3> QED BY <3>1, <3>2, ConcatProperties
  <2> QED BY <2>1, <2>2
<1>2. ASSUME NEW i \in D, NEW g \in [D -> S], NEW h \in [D -> S],
             \A j \in D : i < j => g[j] = h[j]
      PROVE  DecodeStep(t, i, g) = DecodeStep(t, i, h)
  <2>1. CASE i > Len(t)
    BY <2>1 DEF DecodeStep
  <2>2. CASE ~(i > Len(t))
    <3>1. g[i + Denoted(t, i)[2]] = h[i + Denoted(t, i)[2]]
      BY <1>2, <1>a, <2>2, Zenon
    <3> QED BY <3>1, Zenon DEF DecodeStep
  <2> QED BY <2>1, <2>2
<1>3. PICK f \in [D -> S] : \A i \in D : f[i] = DecodeStep(t, i, f)
  <2> DEFINE b == Len(t) + 1
  <2>1. Within(D, b)
    BY <1>0 DEF Within, D
  <2>2. \A i \in D : \A g \in [D -> S] : F[i][g] = DecodeStep(t, i, g)
    OBVIOUS
  <2>3. <<>> \in S
    OBVIOUS
  <2>4. F \in [D -> [[D -> S] -> S]]
    <3> HIDE DEF S
    <3> QED BY <1>1
  <2> HIDE DEF F, S, b
  <2>5. ReadsAhead(F, D, S)
    <3>1. ASSUME NEW x \in D, NEW g \in [D -> S], NEW h \in [D -> S],
                 \A y \in D : x < y => g[y] = h[y]
          PROVE  F[x][g] = F[x][h]
      <4>1. DecodeStep(t, x, g) = DecodeStep(t, x, h)
        BY <1>2, <3>1
      <4> QED BY <2>2, <4>1, Zenon
    <3> QED BY <2>4, <3>1, Zenon DEF ReadsAhead
  <2>6. \E f \in [D -> S] : \A i \in D : f[i] = F[i][f]
    BY <2>1, <2>3, <2>5, DownRecursion
  <2> QED BY <2>2, <2>6, Zenon
<1>4. \E v : P(v)
  <2> DEFINE e(i) == IF i > Len(t) THEN <<>>
                     ELSE <<Denoted(t, i)[1]>> \o f[i + Denoted(t, i)[2]]
  <2>1. \A i \in D : f[i] = e(i)
    <3> HIDE DEF S
    <3> QED BY <1>3, Zenon DEF DecodeStep
  <2>2. f = [i \in D |-> f[i]]
    <3> HIDE DEF S
    <3> QED OBVIOUS
  <2>3. [i \in D |-> f[i]] = [i \in D |-> e(i)]
    <3> HIDE DEF e
    <3> QED BY <2>1
  <2>4. P(f)
    BY <2>2, <2>3, Zenon
  <2> HIDE DEF P
  <2> QED BY <2>4
<1>5. P(r)
  <2> HIDE DEF P
  <2> QED BY <1>4
<1>6. Decode(t) = r[1]
  BY Zenon DEF Decode, D
<1> HIDE DEF r, F, S
<1>7. \A i \in D : r[i] = DecodeStep(t, i, r)
  BY <1>5, Zenon DEF DecodeStep
<1> HIDE DEF P
<1> QED BY <1>6, <1>7 DEF D

(* Of two parts that stand at a position, one after the other, each stands.   *)
LEMMA AtConcat ==
    ASSUME NEW a \in Seq(Int), NEW b \in Seq(Int), NEW u, u = a \o b, NEW t, NEW i, At(t, i, u)
    PROVE  At(t, i, a) /\ At(t, i + Len(a), b)
<1>1. /\ Len(a) \in Nat /\ Len(b) \in Nat /\ Len(u) = Len(a) + Len(b)
      /\ \A m \in 1..Len(u) : u[m] = IF m <= Len(a) THEN a[m] ELSE b[m - Len(a)]
  <2> DEFINE S == Int
             v == a \o b
  <2>1. a \in Seq(S) /\ b \in Seq(S)
    OBVIOUS
  <2> HIDE DEF S
  <2>2. Len(v) = Len(a) + Len(b)
        /\ \A m \in 1..Len(v) : v[m] = IF m <= Len(a) THEN a[m] ELSE b[m - Len(a)]
    BY <2>1, ConcatProperties
  <2>3. Len(a) \in Nat /\ Len(b) \in Nat
    BY <2>1, LenProperties
  <2> HIDE DEF v
  <2>4. u = v
    BY DEF v
  <2> QED BY <2>2, <2>3, <2>4
<1>2. /\ i \in Nat \ {0} /\ Len(t) \in Nat /\ i + Len(u) <= Len(t) + 1
      /\ \A m \in 1..Len(u) : t[i + m - 1] = u[m]
  BY DEF At
<1>3. ASSUME NEW m \in 1..Len(a) PROVE t[i + m - 1] = a[m]
  <2>1. m \in 1..Len(u) /\ m <= Len(a)
    BY <1>1
  <2> QED BY <1>1, <1>2, <2>1
<1>4. ASSUME NEW m \in 1..Len(b) PROVE t[i + Len(a) + m - 1] = b[m]
  <2> DEFINE j == Len(a) + m
  <2>1. j \in 1..Len(u) /\ ~(j <= Len(a)) /\ j - Len(a) = m /\ i + Len(a) + m - 1 = i + j - 1
    BY <1>1, <1>2
  <2> HIDE DEF j
  <2>2. u[j] = b[m] /\ t[i + j - 1] = u[j]
    BY <1>1, <1>2, <2>1
  <2> QED BY <2>1, <2>2
<1>5. /\ i + Len(a) \in Nat \ {0} /\ i + Len(a) <= Len(t) + 1
      /\ i + Len(a) + Len(b) <= Len(t) + 1
  BY <1>1, <1>2
<1> DEFINE j == i + Len(a)
<1>6. At(t, i, a)
  BY <1>1, <1>2, <1>3, <1>5 DEF At
<1>7. \A m \in 1..Len(b) : t[j + m - 1] = b[m]
  BY <1>4
<1>8. j \in Nat \ {0} /\ j + Len(b) <= Len(t) + 1
  BY <1>5
<1> HIDE DEF j
<1>9. At(t, j, b)
  BY <1>1, <1>2, <1>7, <1>8 DEF At
<1> QED BY <1>6, <1>9 DEF j

(* F[k] is the first k of n parts, one after the other.                       *)
Joins(F, n, ps) ==
    /\ n \in Nat /\ F \in [0..n -> Seq(Int)]
    /\ \A k \in 1..n : ps[k] \in Seq(Int) /\ F[k] = F[k - 1] \o ps[k]

\* The k-th part stands behind the ones before it.
PartStands(F, ps, t, i, k) ==
    /\ At(t, i + Len(F[k - 1]), ps[k]) /\ Len(F[k]) = Len(F[k - 1]) + Len(ps[k])
    /\ Len(F[k - 1]) \in Nat /\ Len(ps[k]) \in Nat

(* Where all of them stand, each stands.                                      *)
LEMMA AtParts ==
    ASSUME NEW F, NEW n, NEW ps, Joins(F, n, ps), NEW t, NEW i, At(t, i, F[n]), NEW k \in 1..n
    PROVE  PartStands(F, ps, t, i, k)
<1> DEFINE D == 0..n
           T == {m \in D : At(t, i, F[m])}
<1>0. n \in Nat /\ Within(D, n)
  BY DEF Joins, Within
<1>1. ASSUME NEW m \in 1..n
      PROVE  F[m - 1] \in Seq(Int) /\ ps[m] \in Seq(Int) /\ F[m] = F[m - 1] \o ps[m]
  <2>1. m - 1 \in 0..n
    BY <1>0
  <2> QED BY <2>1 DEF Joins
<1>2. ASSUME NEW m \in 1..n, At(t, i, F[m])
      PROVE  At(t, i, F[m - 1]) /\ At(t, i + Len(F[m - 1]), ps[m])
  <2> DEFINE a == F[m - 1]
             b == ps[m]
             u == F[m]
  <2>1. a \in Seq(Int) /\ b \in Seq(Int) /\ u = a \o b /\ At(t, i, u)
    BY <1>1, <1>2
  <2> HIDE DEF a, b, u
  <2>2. At(t, i, a) /\ At(t, i + Len(a), b)
    BY <2>1, AtConcat
  <2> QED BY <2>2 DEF a, b
<1>3. T = D
  <2>1. ASSUME NEW m \in D, \A j \in D : m < j => At(t, i, F[j]) PROVE At(t, i, F[m])
    <3>1. CASE m = n
      BY <3>1
    <3>2. CASE m # n
      <4> DEFINE j == m + 1
      <4>1. j \in 1..n /\ j \in D /\ m < j /\ j - 1 = m
        BY <1>0, <3>2
      <4> HIDE DEF j, D
      <4>2. At(t, i, F[j])
        BY <2>1, <4>1
      <4> QED BY <1>2, <4>1, <4>2
    <3> QED BY <3>1, <3>2
  <2> HIDE DEF D
  <2>2. T \in SUBSET D /\ \A m \in D : (\A j \in D : m < j => j \in T) => m \in T
    BY <2>1
  <2> HIDE DEF T
  <2> QED BY <1>0, <2>2, DownInduction
<1>4. At(t, i, F[k])
  <2>1. k \in D
    BY <1>0
  <2> HIDE DEF D
  <2> QED BY <1>3, <2>1
<1>5. Len(F[k]) = Len(F[k - 1]) + Len(ps[k]) /\ Len(F[k - 1]) \in Nat /\ Len(ps[k]) \in Nat
  <2> DEFINE a == F[k - 1]
             b == ps[k]
             S == Int
  <2>1. a \in Seq(S) /\ b \in Seq(S) /\ F[k] = a \o b
    BY <1>1
  <2> HIDE DEF a, b, S
  <2>2. Len(a \o b) = Len(a) + Len(b) /\ Len(a) \in Nat /\ Len(b) \in Nat
    BY <2>1, ConcatProperties, LenProperties
  <2> QED BY <2>1, <2>2 DEF a, b
<1>6. At(t, i + Len(F[k - 1]), ps[k])
  BY <1>2, <1>4
<1> QED BY <1>5, <1>6, Zenon DEF PartStands

(* A sequence stands at its beginning.                                        *)
LEMMA AtStart == ASSUME NEW t \in Seq(Int) PROVE At(t, 1, t)
BY DEF At

(* What is written of s, where it stands.                                     *)
LEMMA AtWritten ==
    ASSUME NEW s \in Seq(Nat), NEW F, Written(s, F), NEW t, NEW i, At(t, i, F[Len(s)]),
           NEW k \in 1..Len(s)
    PROVE  /\ At(t, i + Len(F[k - 1]), Enc(s[k])) /\ s[k] \in Nat
           /\ Len(F[k]) = Len(F[k - 1]) + Len(Enc(s[k]))
           /\ Len(F[k - 1]) \in Nat /\ Len(Enc(s[k])) \in Nat
<1> DEFINE ps == [m \in 1..Len(s) |-> Enc(s[m])]
           n == Len(s)
<1>1. n \in Nat /\ \A m \in 1..n : s[m] \in Nat /\ ps[m] = Enc(s[m])
  OBVIOUS
<1> HIDE DEF ps
<1>2. \A m \in 1..n : Enc(s[m]) \in Seq(Int)
  BY <1>1, EncForms
<1>3. Joins(F, n, ps)
  BY <1>1, <1>2 DEF Written, Joins
<1> HIDE DEF n
<1>4. At(t, i, F[n]) /\ k \in 1..n
  BY DEF n
<1>5. PartStands(F, ps, t, i, k)
  BY <1>3, <1>4, AtParts
<1>6. ps[k] = Enc(s[k]) /\ s[k] \in Nat
  BY <1>1, <1>4
<1> QED BY <1>5, <1>6 DEF PartStands

(* What is written of s is read back.                                         *)
LEMMA DecodeFacts ==
    ASSUME NEW s \in Seq(Nat), NEW F, Written(s, F)
    PROVE  Decode(F[Len(s)]) = s /\ F[Len(s)] \in Seq(Int)
<1> DEFINE n == Len(s)
           t == F[n]
           S == Seq(Int)
           D == 0..n
<1>0. n \in Nat /\ Within(D, n)
  BY DEF Within
<1>1. \A k \in D : F[k] \in S
  BY DEF Written
<1>2. t \in S
  <2> HIDE DEF S
  <2> QED BY <1>0, <1>1
<1>3. PICK r : /\ \A i \in 1..Len(t) + 1 : r[i] = DecodeStep(t, i, r)
               /\ Decode(t) = r[1]
  BY <1>2, DecodeDef
<1> HIDE DEF t
<1>4. At(t, 1, t)
  BY <1>2, AtStart DEF S
<1>5. ASSUME NEW k \in 1..n
      PROVE  /\ At(t, 1 + Len(F[k - 1]), Enc(s[k])) /\ s[k] \in Nat
             /\ Len(F[k]) = Len(F[k - 1]) + Len(Enc(s[k]))
             /\ Len(F[k - 1]) \in Nat /\ Len(Enc(s[k])) \in Nat
  <2>1. At(t, 1, F[Len(s)])
    BY <1>4 DEF t
  <2> QED BY <1>5, <2>1, AtWritten
<1> HIDE DEF D, S, n
<1> DEFINE pos(k) == Len(F[k]) + 1
           Good(k) == r[pos(k)] = SubSeq(s, k + 1, n)
           U == {k \in D : Good(k)}
<1>6. ASSUME NEW k \in D, \A j \in D : k < j => Good(j) PROVE Good(k)
  <2>1. CASE k = n
    <3>1. pos(k) \in 1..Len(t) + 1 /\ pos(k) > Len(t)
      <4>1. F[k] = t
        BY <2>1 DEF t
      <4> QED BY <1>2, <4>1, LenProperties DEF S
    <3>2. r[pos(k)] = <<>>
      <4> HIDE DEF pos
      <4>1. r[pos(k)] = DecodeStep(t, pos(k), r)
        BY <1>3, <3>1
      <4> QED BY <3>1, <4>1 DEF DecodeStep
    <3>3. SubSeq(s, k + 1, n) = <<>>
      <4>1. k + 1 \in Int /\ n \in Int /\ n < k + 1
        BY <1>0, <2>1
      <4> QED BY <4>1, SubSeqEmpty
    <3> QED BY <3>2, <3>3
  <2>2. CASE k # n
    <3> DEFINE j == k + 1
               c == s[j]
               e == Enc(c)
               i == Len(F[k]) + 1
    <3>1. j \in D /\ k < j /\ j \in 1..n /\ j \in Nat /\ j - 1 = k
      BY <1>0, <2>2 DEF D
    <3> HIDE DEF j
    <3>2. /\ At(t, 1 + Len(F[k]), Enc(s[j])) /\ s[j] \in Nat
          /\ Len(F[j]) = Len(F[k]) + Len(Enc(s[j]))
          /\ Len(F[k]) \in Nat /\ Len(Enc(s[j])) \in Nat
      BY <1>5, <3>1
    <3>3. 1 + Len(F[k]) = i
      BY <3>2
    <3>4. c \in Nat /\ At(t, i, Enc(c)) /\ i + Len(e) = pos(j)
      <4>1. At(t, i, Enc(c))
        <5> HIDE DEF i
        <5> QED BY <3>2, <3>3
      <4>2. i + Len(e) = pos(j)
        <5> DEFINE l == Len(e)
                   a == Len(F[k])
        <5>1. l \in Nat /\ a \in Nat /\ Len(F[j]) = a + l
          BY <3>2
        <5> HIDE DEF l, a
        <5>2. (a + 1) + l = Len(F[j]) + 1
          BY <5>1
        <5> QED BY <5>2, Zenon DEF l, a
      <4> QED BY <3>2, <4>1, <4>2
    <3> HIDE DEF i, c
    <3>6. Denoted(t, i) = <<c, Len(e)>> /\ Len(e) \in Nat \ {0}
      BY <3>4, DenotedFacts
    <3>7. i \in 1..Len(t) + 1 /\ ~(i > Len(t))
      <4> HIDE DEF e
      <4>1. At(t, i, e)
        BY <3>4 DEF e
      <4> QED BY <3>6, <4>1 DEF At
    <3> HIDE DEF pos, e
    <3>9. r[i] = <<c>> \o r[pos(j)]
      <4>1. r[i] = <<Denoted(t, i)[1]>> \o r[i + Denoted(t, i)[2]]
        BY <1>3, <3>7, Zenon DEF DecodeStep
      <4>2. Denoted(t, i)[1] = c /\ Denoted(t, i)[2] = Len(e)
        BY <3>6
      <4> QED BY <3>4, <4>1, <4>2, Zenon
    <3>10. r[pos(j)] = SubSeq(s, j + 1, n)
      BY <1>6, <3>1
    <3>11. SubSeq(s, j, n) = <<c>> \o SubSeq(s, j + 1, n)
      <4>1. j \in 1..Len(s) /\ n \in j..Len(s)
        BY <1>0, <3>1 DEF n
      <4> QED BY <4>1, SubSeqRecursiveFirst DEF c
    <3>12. i = pos(k)
      BY DEF i, pos
    <3>13. r[pos(k)] = SubSeq(s, j, n)
      BY <3>9, <3>10, <3>11, <3>12, Zenon
    <3> QED BY <3>13 DEF j
  <2> QED BY <2>1, <2>2
<1>7. U = D
  <2> HIDE DEF Good
  <2>1. U \in SUBSET D /\ \A k \in D : (\A j \in D : k < j => j \in U) => k \in U
    BY <1>6
  <2> HIDE DEF U
  <2> QED BY <1>0, <2>1, DownInduction
<1>8. Good(0)
  <2>1. 0 \in D
    BY <1>0 DEF D
  <2> HIDE DEF Good
  <2> QED BY <1>7, <2>1
<1>9. pos(0) = 1
  <2>1. F[0] = <<>> /\ Len(<<>>) = 0
    BY DEF Written
  <2> QED BY <2>1
<1>10. SubSeq(s, 1, n) = s
  BY SubSeqFull DEF n
<1>11. r[1] = SubSeq(s, 1, n)
  <2>1. 0 + 1 = 1
    OBVIOUS
  <2> HIDE DEF pos
  <2> QED BY <1>8, <1>9, <2>1
<1> QED BY <1>2, <1>3, <1>10, <1>11 DEF t, n, S

(* Every string comes back from both escapers.                                *)
LEMMA EscapeFacts == ASSUME NEW s \in Seq(Byte) PROVE EscapeIsFaithful(s)
<1>1. s \in Seq(Nat)
  BY ByteSeq
<1>2. PICK F : Written(s, F)
  BY <1>1, WrittenExists
<1>3. AppendStringBody(s) = F[Len(s)]
  BY <1>1, <1>2, ScalarFacts
<1>4. appendStringBodySWAR(s) = F[Len(s)]
  BY <1>2, SwarFacts
<1>5. Decode(F[Len(s)]) = s
  BY <1>1, <1>2, DecodeFacts
<1> QED BY <1>3, <1>4, <1>5, Zenon DEF EscapeIsFaithful

(* What stands at a position is read there.                                   *)
LEMMA AtSpan ==
    ASSUME NEW t \in Seq(Int), NEW e \in Seq(Int), NEW i, At(t, i, e)
    PROVE  SubSeq(t, i, i + Len(e) - 1) = e
<1>1. /\ i \in Nat \ {0} /\ Len(t) \in Nat /\ Len(e) \in Nat /\ i + Len(e) <= Len(t) + 1
      /\ \A m \in 1..Len(e) : t[i + m - 1] = e[m]
  BY DEF At
<1> DEFINE j == i + Len(e) - 1
           v == SubSeq(t, i, j)
<1>2. i \in Int /\ j \in Int /\ \A k \in i..j : t[k] \in Int
  BY <1>1
<1>3. j - i + 1 = Len(e) /\ (i <= j <=> Len(e) # 0) /\ (i <= j \/ Len(e) = 0)
  BY <1>1
<1> HIDE DEF j
<1>4. v \in Seq(Int) /\ Len(v) = (IF i <= j THEN j - i + 1 ELSE 0)
      /\ \A m \in 1..j - i + 1 : v[m] = t[i + m - 1]
  BY <1>2, SubSeqProperties
<1>5. Len(v) = Len(e) /\ \A m \in 1..Len(e) : v[m] = e[m]
  BY <1>1, <1>3, <1>4
<1>6. v = e
  <2> HIDE DEF v
  <2> QED BY <1>4, <1>5, SeqEqual
<1> QED BY <1>6 DEF v, j

(* A form does not begin with a quote.                                        *)
LEMMA EncFirst ==
    ASSUME NEW c \in Nat, NEW t, NEW j, At(t, j, Enc(c))
    PROVE  t[j] # Quote /\ j <= Len(t) /\ j \in Nat
<1> DEFINE e == Enc(c)
<1>1. IsBare(c, e) \/ IsSlashed(c, e) \/ IsShort(c, e) \/ IsHex(c, e)
  BY EncForms
<1>2. At(t, j, e) /\ Slash # Quote
  BY DEF Slash, Quote
<1> HIDE DEF e
<1>3. e[1] # Quote /\ Len(e) >= 1
  <2>1. CASE IsBare(c, e)
    BY <2>1 DEF IsBare
  <2>2. CASE IsSlashed(c, e)
    BY <1>2, <2>2 DEF IsSlashed
  <2>3. CASE IsShort(c, e)
    <3> DEFINE l == Short[c]
    <3>1. e = <<Slash, l>>
      BY <2>3 DEF IsShort
    <3> HIDE DEF l
    <3> QED BY <1>2, <3>1
  <2>4. CASE IsHex(c, e)
    <3> DEFINE l == Hex(c % 16)
               h == Hex(c \div 16)
    <3>1. e = <<Slash, 117, 48, 48, h, l>>
      BY <2>4 DEF IsHex
    <3> HIDE DEF l, h
    <3> QED BY <1>2, <3>1
  <2> QED BY <1>1, <2>1, <2>2, <2>3, <2>4
<1>4. t[j] = e[1] /\ j <= Len(t)
  BY <1>2, <1>3, AtFirst
<1>5. j \in Nat
  BY <1>2 DEF At
<1> QED BY <1>3, <1>4, <1>5

(* Reading inside the quotes, from position j on.                             *)
InsideStep(h, j, g) ==
    IF j > Len(h) \/ h[j] = Quote THEN j + 1 ELSE g[j + Denoted(h, j)[2]]

\* The values of the loop: it only goes forward.
Inside(h, i, g) == \A j \in i + 1 .. Len(h) + 1 : g[j] = InsideStep(h, j, g)

(* There are such values, and they give the end of the name.                  *)
LEMMA InsideDef ==
    ASSUME NEW h \in Seq(Int), NEW i \in 1..Len(h), h[i] = Quote
    PROVE  \E r : Inside(h, i, r) /\ EndOfName(h, i) = r[i + 1]
<1> DEFINE D == i + 1 .. Len(h) + 1
           S == Nat
           P(v) == v = [j \in D |->
                        IF j > Len(h) \/ h[j] = Quote THEN j + 1 ELSE v[j + Denoted(h, j)[2]]]
           r == CHOOSE v : P(v)
           F == [j \in D |-> [g \in [D -> S] |-> InsideStep(h, j, g)]]
<1>0. Len(h) \in Nat /\ i \in Nat /\ i <= Len(h)
  OBVIOUS
<1>a. ASSUME NEW j \in D, ~(j > Len(h))
      PROVE  j + Denoted(h, j)[2] \in D /\ j < j + Denoted(h, j)[2]
  <2> DEFINE d == Denoted(h, j)[2]
  <2>1. d \in Nat \ {0} /\ j + d <= Len(h) + 1
    <3>1. j \in 1..Len(h)
      BY <1>0, <1>a
    <3> QED BY <3>1, DenotedTyped
  <2> HIDE DEF d
  <2>2. j + d \in D /\ j < j + d
    BY <1>0, <2>1
  <2> QED BY <2>2 DEF d
<1>b. \A j \in D : j + 1 \in S /\ j \in Int
  BY <1>0
<1> HIDE DEF D, S
<1>1. ASSUME NEW j \in D, NEW g \in [D -> S] PROVE InsideStep(h, j, g) \in S
  <2>1. CASE j > Len(h) \/ h[j] = Quote
    BY <1>b, <2>1 DEF InsideStep
  <2>2. CASE ~(j > Len(h) \/ h[j] = Quote)
    <3>1. g[j + Denoted(h, j)[2]] \in S
      BY <1>a, <2>2
    <3> QED BY <2>2, <3>1, Zenon DEF InsideStep
  <2> QED BY <2>1, <2>2
<1>2. ASSUME NEW j \in D, NEW g \in [D -> S], NEW f \in [D -> S],
             \A k \in D : j < k => g[k] = f[k]
      PROVE  InsideStep(h, j, g) = InsideStep(h, j, f)
  <2>1. CASE j > Len(h) \/ h[j] = Quote
    BY <2>1 DEF InsideStep
  <2>2. CASE ~(j > Len(h) \/ h[j] = Quote)
    <3>1. g[j + Denoted(h, j)[2]] = f[j + Denoted(h, j)[2]]
      BY <1>2, <1>a, <2>2, Zenon
    <3> QED BY <3>1, Zenon DEF InsideStep
  <2> QED BY <2>1, <2>2
<1>3. PICK f \in [D -> S] : \A j \in D : f[j] = InsideStep(h, j, f)
  <2> DEFINE b == Len(h) + 1
  <2>1. Within(D, b)
    BY <1>0 DEF Within, D
  <2>2. \A j \in D : \A g \in [D -> S] : F[j][g] = InsideStep(h, j, g)
    OBVIOUS
  <2>3. 0 \in S
    BY DEF S
  <2>4. F \in [D -> [[D -> S] -> S]]
    BY <1>1
  <2> HIDE DEF F, b
  <2>5. ReadsAhead(F, D, S)
    <3>1. ASSUME NEW x \in D, NEW g \in [D -> S], NEW f \in [D -> S],
                 \A y \in D : x < y => g[y] = f[y]
          PROVE  F[x][g] = F[x][f]
      <4>1. InsideStep(h, x, g) = InsideStep(h, x, f)
        BY <1>2, <3>1
      <4> QED BY <2>2, <4>1, Zenon
    <3> QED BY <2>4, <3>1, Zenon DEF ReadsAhead
  <2>6. \E f \in [D -> S] : \A j \in D : f[j] = F[j][f]
    BY <2>1, <2>3, <2>5, DownRecursion
  <2> QED BY <2>2, <2>6, Zenon
<1>4. \E v : P(v)
  <2> DEFINE e(j) == IF j > Len(h) \/ h[j] = Quote THEN j + 1 ELSE f[j + Denoted(h, j)[2]]
  <2>1. \A j \in D : f[j] = e(j)
    BY <1>3, Zenon DEF InsideStep
  <2>2. f = [j \in D |-> f[j]]
    OBVIOUS
  <2>3. [j \in D |-> f[j]] = [j \in D |-> e(j)]
    <3> HIDE DEF e
    <3> QED BY <2>1
  <2>4. P(f)
    BY <2>2, <2>3, Zenon
  <2> HIDE DEF P
  <2> QED BY <2>4
<1>5. P(r)
  <2> HIDE DEF P
  <2> QED BY <1>4
<1>6. EndOfName(h, i) = r[i + 1]
  BY Zenon DEF EndOfName, D
<1> HIDE DEF r, F
<1>7. \A j \in D : r[j] = InsideStep(h, j, r)
  BY <1>5, Zenon DEF InsideStep
<1> HIDE DEF P
<1>8. Inside(h, i, r)
  BY <1>7, Zenon DEF Inside, D
<1> QED BY <1>6, <1>8

(* The end of a name is after its start.                                      *)
LEMMA EndAfter ==
    ASSUME NEW h \in Seq(Int), NEW i \in 1..Len(h)
    PROVE  EndOfName(h, i) \in Nat /\ EndOfName(h, i) >= i
<1>0. Len(h) \in Nat /\ i \in Nat /\ i <= Len(h)
  OBVIOUS
<1>1. CASE h[i] # Quote
  <2> DEFINE ends == {j \in i..Len(h) : h[j] \in {Comma, Shut}} \cup {Len(h) + 1}
             m == CHOOSE j \in ends : \A k \in ends : j <= k
  <2>1. EndOfName(h, i) = m
    BY <1>1, Zenon DEF EndOfName
  <2>2. ends \in SUBSET Nat /\ Len(h) + 1 \in ends /\ \A j \in ends : j >= i
    BY <1>0
  <2>3. m \in ends
    <3> HIDE DEF ends
    <3>1. \E k \in ends : \A j \in ends : k <= j
      BY <2>2, LeastNat
    <3> QED BY <3>1, Zenon
  <2> HIDE DEF m, ends
  <2> QED BY <2>1, <2>2, <2>3
<1>2. CASE h[i] = Quote
  <2>1. PICK r : Inside(h, i, r) /\ EndOfName(h, i) = r[i + 1]
    BY <1>2, InsideDef
  <2> DEFINE D == i + 1 .. Len(h) + 1
             Good(j) == r[j] \in Nat /\ r[j] >= i
             T == {j \in D : Good(j)}
             b == Len(h) + 1
  <2>2. Within(D, b) /\ i + 1 \in D /\ \A j \in D : j + 1 \in Nat /\ j + 1 >= i
    BY <1>0 DEF Within
  <2>3. \A j \in D : r[j] = InsideStep(h, j, r)
    BY <2>1, Zenon DEF Inside
  <2>4. ASSUME NEW j \in D, \A k \in D : j < k => Good(k) PROVE Good(j)
    <3>1. CASE j > Len(h) \/ h[j] = Quote
      <4>1. r[j] = j + 1
        BY <2>3, <3>1, Zenon DEF InsideStep
      <4> QED BY <2>2, <4>1
    <3>2. CASE ~(j > Len(h) \/ h[j] = Quote)
      <4> DEFINE k == j + Denoted(h, j)[2]
                 d == Denoted(h, j)[2]
      <4>1. r[j] = r[k]
        BY <2>3, <3>2, Zenon DEF InsideStep
      <4>2. d \in Nat \ {0} /\ j + d <= Len(h) + 1
        <5>1. j \in 1..Len(h)
          BY <1>0, <3>2
        <5> QED BY <5>1, DenotedTyped
      <4> HIDE DEF d
      <4>3. j + d \in D /\ j < j + d
        BY <1>0, <4>2
      <4>4. k \in D /\ j < k
        BY <4>3 DEF d
      <4> HIDE DEF k, D
      <4>5. Good(k)
        BY <2>4, <4>4
      <4> QED BY <4>1, <4>5
    <3> QED BY <3>1, <3>2
  <2> HIDE DEF D, b
  <2>5. T = D
    <3> HIDE DEF Good
    <3>1. T \in SUBSET D /\ \A k \in D : (\A j \in D : k < j => j \in T) => k \in T
      BY <2>4
    <3> HIDE DEF T
    <3> QED BY <2>2, <3>1, DownInduction
  <2>6. Good(i + 1)
    <3> HIDE DEF Good
    <3> QED BY <2>2, <2>5
  <2> QED BY <2>1, <2>6
<1> QED BY <1>1, <1>2

(* The first element of what stands at a position.                            *)
LEMMA AtHead ==
    ASSUME NEW t, NEW i, NEW e, At(t, i, e), Len(e) = 1
    PROVE  t[i] = e[1] /\ i <= Len(t)
<1>1. Len(e) >= 1 => t[i] = e[1] /\ i <= Len(t)
  BY AtFirst
<1> QED BY <1>1

(* A name of the header at position i, and a comma or brace after it.         *)
NameStands(h, i, s) ==
    /\ h \in Seq(Int) /\ At(h, i, HeaderName(s))
    /\ i + Len(HeaderName(s)) <= Len(h)
    /\ h[i + Len(HeaderName(s))] \in {Comma, Shut}

(* A bare name is read up to there.                                           *)
LEMMA BareFacts ==
    ASSUME NEW s \in Seq(Nat), ~nameNeedsQuote(s), NEW h, NEW i, NameStands(h, i, s)
    PROVE  /\ HeaderName(s) \in Seq(Int) /\ HeaderName(s) # <<>>
           /\ EndOfName(h, i) = i + Len(HeaderName(s)) /\ NameAt(h, i) = s
<1> DEFINE l == i + Len(s)
           ends == {j \in i..Len(h) : h[j] \in {Comma, Shut}} \cup {Len(h) + 1}
           m == CHOOSE j \in ends : \A k \in ends : j <= k
<1>1. HeaderName(s) = s /\ s \in Seq(Int) /\ s # <<>>
  <2>1. HeaderName(s) = s
    BY DEF HeaderName
  <2>2. s # <<>>
    BY DEF nameNeedsQuote
  <2> QED BY <2>1, <2>2
<1>2. /\ h \in Seq(Int) /\ At(h, i, s) /\ l <= Len(h) /\ h[l] \in {Comma, Shut}
  BY <1>1 DEF NameStands
<1>3. /\ i \in Nat \ {0} /\ Len(h) \in Nat /\ Len(s) \in Nat /\ Len(s) >= 1
      /\ \A q \in 1..Len(s) : h[i + q - 1] = s[q]
  BY <1>1, <1>2, SMTT(30) DEF At
<1>4. \A q \in 1..Len(s) : s[q] # Quote /\ s[q] \notin {Comma, Shut}
  BY DEF nameNeedsQuote
<1>5. ASSUME NEW j \in i..l - 1 PROVE h[j] # Quote /\ h[j] \notin {Comma, Shut}
  <2> DEFINE q == j - i + 1
  <2>1. q \in 1..Len(s) /\ i + q - 1 = j
    BY <1>3
  <2> HIDE DEF q
  <2>2. h[j] = s[q]
    BY <1>3, <2>1
  <2> QED BY <1>4, <2>1, <2>2
<1>6. h[i] # Quote
  <2>1. i \in i..l - 1
    BY <1>3
  <2> QED BY <1>5, <2>1
<1>7. EndOfName(h, i) = m
  BY <1>6, Zenon DEF EndOfName
<1>8. l \in ends /\ \A j \in ends : j >= l
  <2>1. l \in ends
    BY <1>2, <1>3
  <2>2. ASSUME NEW j \in ends PROVE j >= l
    <3>1. CASE j = Len(h) + 1
      BY <1>2, <1>3, <3>1
    <3>2. CASE j \in i..Len(h) /\ h[j] \in {Comma, Shut}
      <4>1. j \notin i..l - 1
        BY <1>5, <3>2
      <4> QED BY <1>3, <3>2, <4>1
    <3> QED BY <3>1, <3>2
  <2> QED BY <2>1, <2>2
<1>9. m = l
  <2>1. ends \in SUBSET Nat /\ l \in Nat
    BY <1>3
  <2> HIDE DEF ends, l
  <2>2. \E j \in ends : \A k \in ends : j <= k
    BY <1>8, <2>1
  <2>3. m \in ends /\ \A k \in ends : m <= k
    BY <2>2, Zenon
  <2> HIDE DEF m
  <2>4. m <= l /\ m >= l /\ m \in Nat
    BY <1>8, <2>1, <2>3
  <2> QED BY <2>1, <2>4
<1> HIDE DEF m, ends
<1>10. NameAt(h, i) = SubSeq(h, i, l - 1)
  BY <1>6, <1>7, <1>9, Zenon DEF NameAt
<1>11. SubSeq(h, i, l - 1) = s
  <2>1. SubSeq(h, i, i + Len(s) - 1) = s
    BY <1>1, <1>2, AtSpan
  <2>2. l - 1 = i + Len(s) - 1
    BY <1>3
  <2> HIDE DEF l
  <2> QED BY <2>1, <2>2
<1> QED BY <1>1, <1>7, <1>9, <1>10, <1>11

(* A quoted name is read up to its closing quote, and decoded.                *)
LEMMA QuotedFacts ==
    ASSUME NEW s \in Seq(Nat), nameNeedsQuote(s), NEW h, NEW i, NameStands(h, i, s)
    PROVE  /\ HeaderName(s) \in Seq(Int) /\ HeaderName(s) # <<>>
           /\ EndOfName(h, i) = i + Len(HeaderName(s)) /\ NameAt(h, i) = s
<1> DEFINE n == Len(s)
           q == <<Quote>>
<1>1. PICK F : Written(s, F)
  BY WrittenExists
<1> DEFINE t == F[n]
           u == (q \o t) \o q
           a == i + 1
           b == a + Len(t)
<1>2. n \in Nat /\ t \in Seq(Int) /\ Decode(t) = s /\ AppendStringBody(s) = t
  BY <1>1, DecodeFacts, ScalarFacts
<1>3. HeaderName(s) = q \o t \o q
  BY <1>2, Zenon DEF HeaderName
<1>4. q \in Seq(Int) /\ Len(q) = 1 /\ q[1] = Quote
  BY DEF Quote
<1>5. q \o t \in Seq(Int) /\ Len(q \o t) = 1 + Len(t) /\ Len(t) \in Nat
      /\ u \in Seq(Int) /\ Len(u) = (1 + Len(t)) + 1
  <2> DEFINE S == Int
  <2>1. q \in Seq(S) /\ t \in Seq(S)
    BY <1>2, <1>4
  <2> HIDE DEF S, q, t
  <2>2. q \o t \in Seq(S) /\ Len(q \o t) = Len(q) + Len(t) /\ Len(t) \in Nat
    BY <2>1, ConcatProperties, LenProperties
  <2> DEFINE v == q \o t
  <2> HIDE DEF v
  <2>3. v \o q \in Seq(S) /\ Len(v \o q) = Len(v) + Len(q)
    <3>1. v \in Seq(S)
      BY <2>2 DEF v
    <3> QED BY <2>1, <3>1, ConcatProperties
  <2> QED BY <1>4, <2>2, <2>3 DEF S, v
<1> HIDE DEF q
<1>6. HeaderName(s) = u
  BY <1>3
<1>7. h \in Seq(Int) /\ At(h, i, u) /\ i + Len(u) <= Len(h)
  BY <1>6, Zenon DEF NameStands
<1>8. i \in Nat \ {0} /\ Len(h) \in Nat
  BY <1>7 DEF At
<1>9. At(h, i, q) /\ At(h, a, t) /\ At(h, b, q)
  <2> DEFINE v == q \o t
  <2>1. v \in Seq(Int) /\ u = v \o q
    BY <1>5
  <2> HIDE DEF v, t
  <2>2. At(h, i, v) /\ At(h, i + Len(v), q)
    <3> HIDE DEF u
    <3> QED BY <1>4, <1>7, <2>1, AtConcat
  <2>3. At(h, i, q) /\ At(h, i + Len(q), t)
    <3>1. v = q \o t
      BY DEF v
    <3> QED BY <1>2, <1>4, <2>2, <3>1, AtConcat
  <2>4. i + Len(q) = a /\ i + Len(v) = b
    BY <1>4, <1>5, <1>8 DEF v
  <2> QED BY <2>2, <2>3, <2>4, Zenon
<1>10. h[i] = Quote /\ h[b] = Quote /\ i \in 1..Len(h) /\ b \in a..Len(h) /\ b \in Nat
       /\ a + Len(t) = b /\ i + Len(u) = b + 1
  <2>1. h[i] = Quote /\ i <= Len(h)
    BY <1>4, <1>9, AtHead, Zenon
  <2>2. h[b] = Quote /\ b <= Len(h)
    <3> HIDE DEF b
    <3> QED BY <1>4, <1>9, AtHead, Zenon
  <2>3. i + Len(u) = b + 1 /\ b \in Nat /\ b >= a /\ a \in Nat
    <3> HIDE DEF u, t
    <3> QED BY <1>5, <1>8
  <2> HIDE DEF b, u, t
  <2>4. a + Len(t) = b
    BY DEF b
  <2> QED BY <1>8, <2>1, <2>2, <2>3, <2>4
<1> HIDE DEF u, b
<1>11. PICK r : Inside(h, i, r) /\ EndOfName(h, i) = r[a]
  BY <1>7, <1>10, InsideDef
<1> DEFINE pos(k) == a + Len(F[k])
           Good(k) == r[pos(k)] = b + 1
           D == 0..n
           T == {k \in D : Good(k)}
<1>12. ASSUME NEW k \in D, \A j \in D : k < j => Good(j) PROVE Good(k)
  <2>1. CASE k = n
    <3>1. pos(k) = b
      BY <1>10, <2>1
    <3>2. b \in i + 1 .. Len(h) + 1
      BY <1>8, <1>10
    <3>3. r[b] = b + 1
      BY <1>10, <1>11, <3>2, Zenon DEF Inside, InsideStep
    <3> HIDE DEF pos
    <3> QED BY <3>1, <3>3
  <2>2. CASE k # n
    <3> DEFINE j == k + 1
               c == s[j]
               e == Enc(c)
               p == a + Len(F[k])
    <3>1. j \in D /\ k < j /\ j \in 1..n /\ j - 1 = k
      BY <1>2, <2>2
    <3> HIDE DEF j
    <3>2. /\ At(h, a + Len(F[k]), Enc(s[j])) /\ s[j] \in Nat
          /\ Len(F[j]) = Len(F[k]) + Len(Enc(s[j]))
          /\ Len(F[k]) \in Nat /\ Len(Enc(s[j])) \in Nat
      <4>1. At(h, a, F[Len(s)])
        BY <1>9
      <4>2. /\ At(h, a + Len(F[j - 1]), Enc(s[j])) /\ s[j] \in Nat
            /\ Len(F[j]) = Len(F[j - 1]) + Len(Enc(s[j]))
            /\ Len(F[j - 1]) \in Nat /\ Len(Enc(s[j])) \in Nat
        <5> DEFINE a1 == a
        <5>1. At(h, a1, F[Len(s)]) /\ j \in 1..Len(s)
          BY <3>1, <4>1
        <5> HIDE DEF a1, a
        <5>2. /\ At(h, a1 + Len(F[j - 1]), Enc(s[j])) /\ s[j] \in Nat
              /\ Len(F[j]) = Len(F[j - 1]) + Len(Enc(s[j]))
              /\ Len(F[j - 1]) \in Nat /\ Len(Enc(s[j])) \in Nat
          BY <1>1, <5>1, AtWritten, Zenon
        <5> QED BY <5>2 DEF a1
      <4> QED BY <3>1, <4>2
    <3>3. c \in Nat /\ At(h, p, Enc(c))
      BY <3>2
    <3>4. p + Len(e) = pos(j)
      <4> DEFINE l == Len(e)
                 x == Len(F[k])
      <4>1. l \in Nat /\ x \in Nat /\ Len(F[j]) = x + l /\ a \in Nat
        BY <1>8, <3>2
      <4> HIDE DEF l, x, a
      <4>2. (a + x) + l = a + Len(F[j])
        BY <4>1
      <4> QED BY <4>2, Zenon DEF l, x
    <3>5. p \in a..Len(h) + 1
      <4> HIDE DEF c
      <4>1. p <= Len(h)
        <5> HIDE DEF p
        <5> QED BY <3>3, EncFirst
      <4> DEFINE x == Len(F[k])
      <4>2. x \in Nat /\ a \in Nat
        BY <1>8, <3>2
      <4>3. p = a + x
        OBVIOUS
      <4> HIDE DEF x, a, p
      <4> QED BY <1>8, <4>1, <4>2, <4>3
    <3>6. p = pos(k)
      OBVIOUS
    <3> HIDE DEF c, p
    <3>7. h[p] # Quote /\ p <= Len(h) /\ p \in Nat
      BY <3>3, EncFirst
    <3>8. Denoted(h, p) = <<c, Len(e)>>
      BY <3>3, DenotedFacts
    <3> HIDE DEF e, pos
    <3>9. r[p] = r[p + Denoted(h, p)[2]]
      <4>1. ~(p > Len(h) \/ h[p] = Quote)
        BY <1>8, <3>7
      <4> QED BY <1>11, <3>5, <4>1, Zenon DEF Inside, InsideStep
    <3>10. Denoted(h, p)[2] = Len(e)
      BY <3>8
    <3>11. r[p] = r[pos(j)]
      BY <3>4, <3>9, <3>10, Zenon
    <3>12. Good(j)
      BY <1>12, <3>1
    <3> QED BY <3>6, <3>11, <3>12, Zenon
  <2> QED BY <2>1, <2>2
<1>13. T = D
  <2>1. Within(D, n)
    BY <1>2 DEF Within
  <2> HIDE DEF Good, D
  <2>2. T \in SUBSET D /\ \A k \in D : (\A j \in D : k < j => j \in T) => k \in T
    BY <1>12
  <2> HIDE DEF T
  <2> QED BY <2>1, <2>2, DownInduction
<1>14. Good(0)
  <2>1. 0 \in D
    BY <1>2
  <2> HIDE DEF Good, D
  <2> QED BY <1>13, <2>1
<1>15. pos(0) = a
  <2>1. F[0] = <<>>
    BY <1>1 DEF Written
  <2>2. Len(<<>>) = 0
    OBVIOUS
  <2> QED BY <1>8, <2>1, <2>2
<1>16. EndOfName(h, i) = b + 1
  <2> HIDE DEF pos
  <2> QED BY <1>11, <1>14, <1>15
<1>17. NameAt(h, i) = Decode(SubSeq(h, a, (b + 1) - 2))
  BY <1>10, <1>16, Zenon DEF NameAt
<1>18. SubSeq(h, a, a + Len(t) - 1) = t
  <2> HIDE DEF t, a
  <2> QED BY <1>2, <1>7, <1>9, AtSpan
<1>19. (b + 1) - 2 = a + Len(t) - 1
  <2> DEFINE x == Len(t)
  <2>1. a \in Nat /\ x \in Nat /\ b = a + x
    <3>1. b = a + x
      BY Zenon DEF b
    <3>2. x \in Nat
      <4> HIDE DEF t
      <4> QED BY <1>5
    <3> QED BY <1>8, <3>1, <3>2
  <2> HIDE DEF a, x
  <2>2. (b + 1) - 2 = a + x - 1
    BY <2>1
  <2> QED BY <2>2 DEF x
<1>20. NameAt(h, i) = s
  BY <1>2, <1>17, <1>18, <1>19
<1>21. u # <<>> /\ u \in Seq(Int)
  BY <1>5 DEF u
<1> QED BY <1>6, <1>10, <1>16, <1>20, <1>21

(* A name in the header is a sequence, and not the empty one.                 *)
LEMMA HeaderNameTyped ==
    ASSUME NEW s \in Seq(Nat)
    PROVE  HeaderName(s) \in Seq(Int) /\ Len(HeaderName(s)) \in Nat \ {0}
<1>1. CASE ~nameNeedsQuote(s)
  <2>1. HeaderName(s) = s
    BY <1>1 DEF HeaderName
  <2>2. s # <<>>
    BY <1>1 DEF nameNeedsQuote
  <2>3. s \in Seq(Int) /\ Len(s) \in Nat \ {0}
    BY <2>2
  <2> QED BY <2>1, <2>3
<1>2. CASE nameNeedsQuote(s)
  <2> DEFINE q == <<Quote>>
             t == AppendStringBody(s)
             S == Int
  <2>1. t \in Seq(S)
    <3>1. PICK F : Written(s, F)
      BY WrittenExists
    <3> QED BY <3>1, DecodeFacts, ScalarFacts
  <2>2. q \in Seq(S) /\ Len(q) = 1
    BY DEF Quote
  <2>3. HeaderName(s) = q \o t \o q
    BY <1>2, Zenon DEF HeaderName
  <2> HIDE DEF q, t, S
  <2> DEFINE v == q \o t
             u == v \o q
  <2>4. v \in Seq(S) /\ Len(v) = Len(q) + Len(t)
    BY <2>1, <2>2, ConcatProperties
  <2>5. Len(t) \in Nat
    BY <2>1, LenProperties
  <2> HIDE DEF v
  <2>6. u \in Seq(S) /\ Len(u) = Len(v) + Len(q)
    BY <2>2, <2>4, ConcatProperties
  <2>7. HeaderName(s) = u
    BY <2>3 DEF v
  <2> HIDE DEF u
  <2>8. u \in Seq(Int) /\ Len(u) \in Nat \ {0}
    BY <2>2, <2>4, <2>5, <2>6 DEF S
  <2> QED BY <2>7, <2>8
<1> QED BY <1>1, <1>2

(* The names from position i on.                                              *)
HeaderStep(h, i, g) ==
    <<NameAt(h, i)>> \o (IF EndOfName(h, i) < Len(h) /\ h[EndOfName(h, i)] = Comma
                         THEN g[EndOfName(h, i) + 1] ELSE <<>>)

(* The reader of the header, step by step.                                    *)
LEMMA ReadHeaderDef ==
    ASSUME NEW h \in Seq(Int)
    PROVE  \E r : /\ \A i \in 1..Len(h) : r[i] = HeaderStep(h, i, r)
                  /\ ReadHeader(h) = r[1]
<1> DEFINE D == 1..Len(h)
           N == {NameAt(h, i) : i \in D}
           S == Seq(N)
           P(v) == v = [i \in D |->
                        LET end == EndOfName(h, i)
                        IN  <<NameAt(h, i)>>
                            \o (IF end < Len(h) /\ h[end] = Comma THEN v[end + 1] ELSE <<>>)]
           r == CHOOSE v : P(v)
           F == [i \in D |-> [g \in [D -> S] |-> HeaderStep(h, i, g)]]
<1>0. Len(h) \in Nat
  OBVIOUS
<1>a. ASSUME NEW i \in D
      PROVE  /\ EndOfName(h, i) < Len(h) => EndOfName(h, i) + 1 \in D /\ i < EndOfName(h, i) + 1
             /\ NameAt(h, i) \in N
  <2> DEFINE j == EndOfName(h, i)
  <2>1. j \in Nat /\ j >= i
    BY EndAfter
  <2> HIDE DEF j
  <2>2. j < Len(h) => j + 1 \in D /\ i < j + 1
    BY <1>0, <2>1
  <2>3. NameAt(h, i) \in N
    OBVIOUS
  <2> QED BY <2>2, <2>3 DEF j
<1> HIDE DEF D, N
<1>b. \A x \in N : <<x>> \in S
  OBVIOUS
<1>c. <<>> \in S
  OBVIOUS
<1>d. \A x, y \in S : x \o y \in S
  BY ConcatProperties
<1> HIDE DEF S
<1>1. ASSUME NEW i \in D, NEW g \in [D -> S] PROVE HeaderStep(h, i, g) \in S
  <2> DEFINE x == <<NameAt(h, i)>>
             c == EndOfName(h, i) < Len(h) /\ h[EndOfName(h, i)] = Comma
             y == g[EndOfName(h, i) + 1]
             z == IF c THEN y ELSE <<>>
  <2>1. x \in S /\ (c => y \in S)
    BY <1>a, <1>b
  <2>2. HeaderStep(h, i, g) = x \o z
    BY Zenon DEF HeaderStep
  <2>3. z \in S
    <3> HIDE DEF c, y
    <3> QED BY <1>c, <2>1
  <2> HIDE DEF x, z
  <2>4. x \o z \in S
    BY <1>d, <2>1, <2>3
  <2> QED BY <2>2, <2>4
<1>2. ASSUME NEW i \in D, NEW g \in [D -> S], NEW f \in [D -> S],
             \A k \in D : i < k => g[k] = f[k]
      PROVE  HeaderStep(h, i, g) = HeaderStep(h, i, f)
  <2>1. EndOfName(h, i) < Len(h) => g[EndOfName(h, i) + 1] = f[EndOfName(h, i) + 1]
    BY <1>2, <1>a, Zenon
  <2> QED BY <2>1, Zenon DEF HeaderStep
<1>3. PICK f \in [D -> S] : \A i \in D : f[i] = HeaderStep(h, i, f)
  <2> DEFINE b == Len(h)
  <2>1. Within(D, b)
    BY <1>0 DEF Within, D
  <2>2. \A i \in D : \A g \in [D -> S] : F[i][g] = HeaderStep(h, i, g)
    OBVIOUS
  <2>4. F \in [D -> [[D -> S] -> S]]
    BY <1>1
  <2> HIDE DEF F, b
  <2>5. ReadsAhead(F, D, S)
    <3>1. ASSUME NEW x \in D, NEW g \in [D -> S], NEW f \in [D -> S],
                 \A y \in D : x < y => g[y] = f[y]
          PROVE  F[x][g] = F[x][f]
      <4>1. HeaderStep(h, x, g) = HeaderStep(h, x, f)
        BY <1>2, <3>1
      <4> QED BY <2>2, <4>1, Zenon
    <3> QED BY <2>4, <3>1, Zenon DEF ReadsAhead
  <2>6. \E f \in [D -> S] : \A i \in D : f[i] = F[i][f]
    BY <1>c, <2>1, <2>5, DownRecursion
  <2> QED BY <2>2, <2>6, Zenon
<1>4. \E v : P(v)
  <2> DEFINE e(i) == LET end == EndOfName(h, i)
                     IN  <<NameAt(h, i)>>
                         \o (IF end < Len(h) /\ h[end] = Comma THEN f[end + 1] ELSE <<>>)
  <2>1. \A i \in D : f[i] = e(i)
    BY <1>3, Zenon DEF HeaderStep
  <2>2. f = [i \in D |-> f[i]]
    OBVIOUS
  <2>3. [i \in D |-> f[i]] = [i \in D |-> e(i)]
    <3> HIDE DEF e
    <3> QED BY <2>1
  <2>4. P(f)
    BY <2>2, <2>3, Zenon
  <2> HIDE DEF P
  <2> QED BY <2>4
<1>5. P(r)
  <2> HIDE DEF P
  <2> QED BY <1>4
<1>6. ReadHeader(h) = r[1]
  BY Zenon DEF ReadHeader, D
<1> HIDE DEF r, F
<1>7. \A i \in D : r[i] = HeaderStep(h, i, r)
  BY <1>5, Zenon DEF HeaderStep
<1> HIDE DEF P
<1> QED BY <1>6, <1>7, Zenon DEF D

(* The k-th name in the header, with the comma before it.                     *)
HeaderPart(names, k) ==
    IF k > 1 THEN <<Comma>> \o HeaderName(names[k]) ELSE HeaderName(names[k])

\* Where the name itself begins when the part is at position i.
NameStart(i, k) == IF k > 1 THEN i + 1 ELSE i

(* The name stands behind its comma.                                          *)
LEMMA PartFacts ==
    ASSUME NEW names \in Seq(Seq(Nat)), NEW k \in 1..Len(names)
    PROVE  /\ HeaderPart(names, k) \in Seq(Int) /\ Len(HeaderPart(names, k)) \in Nat \ {0}
           /\ \A h, i : At(h, i, HeaderPart(names, k)) =>
                /\ At(h, NameStart(i, k), HeaderName(names[k]))
                /\ NameStart(i, k) + Len(HeaderName(names[k])) = i + Len(HeaderPart(names, k))
                /\ k > 1 => h[i] = Comma
<1> DEFINE q == HeaderName(names[k])
           c == <<Comma>>
           p == HeaderPart(names, k)
           S == Int
<1>1. q \in Seq(S) /\ Len(q) \in Nat \ {0}
  <2>1. names[k] \in Seq(Nat)
    BY ElementOfSeq
  <2> QED BY <2>1, HeaderNameTyped
<1>2. c \in Seq(S) /\ Len(c) = 1 /\ c[1] = Comma
  BY DEF Comma
<1>3. p = IF k > 1 THEN c \o q ELSE q
  BY Zenon DEF HeaderPart
<1>4. k \in Nat
  OBVIOUS
<1> HIDE DEF q, c, p, S
<1>5. CASE k > 1
  <2>1. p = c \o q
    BY <1>3, <1>5
  <2>2. p \in Seq(S) /\ Len(p) = 1 + Len(q)
    BY <1>1, <1>2, <2>1, ConcatProperties, ZenonT(40)
  <2>3. ASSUME NEW h, NEW i, At(h, i, p)
        PROVE  At(h, i + 1, q) /\ i + 1 + Len(q) = i + Len(p) /\ h[i] = Comma
    <3>1. At(h, i, c) /\ At(h, i + Len(c), q)
      BY <1>1, <1>2, <2>1, <2>3, AtConcat DEF S
    <3>2. h[i] = Comma
      BY <1>2, <3>1, AtHead
    <3>3. i \in Nat
      BY <3>1 DEF At
    <3>4. At(h, i + 1, q)
      BY <1>2, <3>1
    <3>5. i + 1 + Len(q) = i + Len(p)
      BY <1>1, <2>2, <3>3
    <3> QED BY <3>2, <3>4, <3>5
  <2>4. \A i : NameStart(i, k) = i + 1
    BY <1>5 DEF NameStart
  <2>5. Len(p) \in Nat \ {0}
    BY <1>1, <2>2
  <2>6. p \in Seq(Int)
    BY <2>2 DEF S
  <2> QED BY <2>3, <2>4, <2>5, <2>6, Zenon DEF p, q
<1>6. CASE ~(k > 1)
  <2>1. p = q
    BY <1>3, <1>6
  <2>2. \A i : NameStart(i, k) = i
    BY <1>6 DEF NameStart
  <2>3. p \in Seq(Int) /\ Len(p) \in Nat \ {0}
    BY <1>1, <2>1 DEF S
  <2> QED BY <1>6, <2>1, <2>2, <2>3, Zenon DEF p, q
<1> QED BY <1>5, <1>6

(* The header of some names, and its parts.                                   *)
LEMMA HeaderDef ==
    ASSUME NEW names \in Seq(Seq(Nat)), names # <<>>, NEW h, h = buildTOONHeader(names)
    PROVE  \E G : /\ h \in Seq(Int) /\ G[0] = <<>> /\ Len(G[Len(names)]) \in Nat
                  /\ Len(h) = Len(G[Len(names)]) + 1 /\ h[Len(h)] = Shut
                  /\ \A k \in 1..Len(names) :
                        /\ At(h, 1 + Len(G[k - 1]), HeaderPart(names, k))
                        /\ Len(G[k]) = Len(G[k - 1]) + Len(HeaderPart(names, k))
                        /\ Len(G[k - 1]) \in Nat
<1> DEFINE ps == [k \in 1..Len(names) |->
                    IF k > 1 THEN <<Comma>> \o HeaderName(names[k]) ELSE HeaderName(names[k])]
           n == Len(names)
           e == <<Shut>>
           S == Int
<1>1. n \in Nat /\ DOMAIN ps = 1..n /\ \A k \in 1..n : ps[k] = HeaderPart(names, k)
  <2>1. n \in Nat
    BY LenProperties
  <2>2. \A k \in 1..n : ps[k] = HeaderPart(names, k)
    BY Zenon DEF HeaderPart
  <2>3. DOMAIN ps = 1..n
    BY Zenon
  <2> QED BY <2>1, <2>2, <2>3
<1>2. h = FlattenSeq(ps) \o e
  BY Zenon DEF buildTOONHeader
<1>3. ps = [k \in 1..n |-> ps[k]]
  <2> DEFINE p(k) == IF k > 1 THEN <<Comma>> \o HeaderName(names[k]) ELSE HeaderName(names[k])
  <2>1. ps = [k \in 1..n |-> p(k)]
    BY Zenon
  <2> HIDE DEF ps, p, n
  <2> QED BY <2>1
<1> HIDE DEF ps, n, S
<1>4. \A k \in 1..n : ps[k] \in Seq(S)
  BY <1>1, PartFacts DEF n, S
<1>5. ps \in Seq(Seq(S)) /\ Len(ps) = n
  <2> DEFINE B == Seq(S)
  <2>1. ps \in [1..n -> B]
    BY <1>3, <1>4
  <2> HIDE DEF B
  <2>2. ps \in Seq(B) /\ Len(ps) = n
    BY <1>1, <2>1
  <2> QED BY <2>2 DEF B
<1>6. PICK G \in [0..n -> Seq(S)] :
              /\ FlattenSeq(ps) = G[n] /\ G[0] = <<>>
              /\ \A k \in 1..n : G[k] = G[k - 1] \o ps[k]
  BY <1>5, FlattenDef
<1>7. Joins(G, n, ps)
  BY <1>1, <1>4, <1>6 DEF Joins, S
<1>8. G[n] \in Seq(S) /\ e \in Seq(S) /\ Len(e) = 1 /\ e[1] = Shut
  BY <1>1, <1>6 DEF Shut, S
<1> DEFINE u == G[n]
<1>9. h = u \o e /\ u \in Seq(S)
  BY <1>2, <1>6, <1>8
<1> HIDE DEF u, e
<1>10. h \in Seq(S) /\ Len(h) = Len(u) + 1 /\ Len(u) \in Nat
  <2> DEFINE v == u \o e
  <2>1. v \in Seq(S) /\ Len(v) = Len(u) + Len(e) /\ Len(u) \in Nat
    BY <1>8, <1>9, ConcatProperties, LenProperties
  <2>2. h = v
    BY <1>9
  <2> HIDE DEF v
  <2> QED BY <1>8, <2>1, <2>2
<1>11. At(h, 1, u) /\ At(h, 1 + Len(u), e)
  <2>1. At(h, 1, h)
    BY <1>10, AtStart DEF S
  <2> QED BY <1>8, <1>9, <2>1, AtConcat DEF S
<1>12. h[Len(h)] = Shut
  <2>1. h[1 + Len(u)] = Shut
    BY <1>8, <1>11, AtHead
  <2>2. 1 + Len(u) = Len(h)
    BY <1>10
  <2> QED BY <2>1, <2>2
<1>13. ASSUME NEW k \in 1..n
       PROVE  /\ At(h, 1 + Len(G[k - 1]), HeaderPart(names, k))
              /\ Len(G[k]) = Len(G[k - 1]) + Len(HeaderPart(names, k))
              /\ Len(G[k - 1]) \in Nat
  <2>1. At(h, 1, G[n])
    BY <1>11 DEF u
  <2>2. PartStands(G, ps, h, 1, k)
    BY <1>7, <1>13, <2>1, AtParts
  <2>3. ps[k] = HeaderPart(names, k)
    BY <1>1, <1>13
  <2> QED BY <2>2, <2>3 DEF PartStands
<1>14. h \in Seq(Int)
  BY <1>10 DEF S
<1> QED BY <1>6, <1>10, <1>12, <1>13, <1>14 DEF u, n

(* The names come back from the header.                                       *)
LEMMA HeaderFacts ==
    ASSUME NEW names \in Seq(Seq(Nat)), names # <<>>
    PROVE  ReadHeader(buildTOONHeader(names)) = names
<1> DEFINE n == Len(names)
           h == buildTOONHeader(names)
           D == 1..n
<1>0. n \in Nat \ {0}
  OBVIOUS
<1>1. PICK G : /\ h \in Seq(Int) /\ G[0] = <<>> /\ Len(G[n]) \in Nat
               /\ Len(h) = Len(G[n]) + 1 /\ h[Len(h)] = Shut
               /\ \A k \in D : /\ At(h, 1 + Len(G[k - 1]), HeaderPart(names, k))
                               /\ Len(G[k]) = Len(G[k - 1]) + Len(HeaderPart(names, k))
                               /\ Len(G[k - 1]) \in Nat
  BY HeaderDef
<1> HIDE DEF h
<1>2. PICK r : /\ \A i \in 1..Len(h) : r[i] = HeaderStep(h, i, r)
               /\ ReadHeader(h) = r[1]
  BY <1>1, ReadHeaderDef
<1> DEFINE st(k) == NameStart(1 + Len(G[k - 1]), k)
           end(k) == 1 + Len(G[k])
<1>3. ASSUME NEW k \in D
      PROVE  /\ names[k] \in Seq(Nat) /\ At(h, st(k), HeaderName(names[k]))
             /\ st(k) + Len(HeaderName(names[k])) = end(k)
             /\ end(k) \in Nat /\ end(k) <= Len(h)
             /\ k = n => end(k) = Len(h) /\ h[end(k)] = Shut
             /\ k # n => h[end(k)] = Comma /\ end(k) < Len(h) /\ st(k + 1) = end(k) + 1
  <2> DEFINE p == HeaderPart(names, k)
             i == 1 + Len(G[k - 1])
             q == HeaderName(names[k])
  <2>1. At(h, i, p) /\ Len(G[k]) = Len(G[k - 1]) + Len(p) /\ Len(G[k - 1]) \in Nat
    BY <1>1, <1>3
  <2>2. names[k] \in Seq(Nat)
    BY <1>3, ElementOfSeq
  <2>3. Len(p) \in Nat \ {0} /\ At(h, NameStart(i, k), q) /\ NameStart(i, k) + Len(q) = i + Len(p)
    <3> HIDE DEF p, i, q
    <3> QED BY <1>3, <2>1, PartFacts DEF p, q
  <2>4. i + Len(p) = end(k) /\ end(k) \in Nat
    <3> DEFINE a == Len(G[k - 1])
               b == Len(p)
    <3>1. a \in Nat /\ b \in Nat /\ Len(G[k]) = a + b
      BY <2>1, <2>3
    <3> HIDE DEF a, b
    <3>2. (1 + a) + b = 1 + Len(G[k]) /\ 1 + Len(G[k]) \in Nat
      BY <3>1
    <3> QED BY <3>2, Zenon DEF a, b
  <2>5. CASE k = n
    <3>1. end(k) = Len(h) /\ h[end(k)] = Shut
      BY <1>1, <2>5
    <3>2. Len(h) <= Len(h)
      BY <1>1
    <3> HIDE DEF end, st, q, p, i
    <3> QED BY <2>2, <2>3, <2>4, <2>5, <3>1, <3>2 DEF st, i, q
  <2>6. CASE k # n
    <3> DEFINE j == k + 1
               p1 == HeaderPart(names, j)
    <3>1. j \in D /\ j - 1 = k /\ j > 1
      BY <1>0, <2>6
    <3> HIDE DEF j
    <3>2. At(h, 1 + Len(G[j - 1]), p1)
      BY <1>1, <3>1
    <3>3. At(h, end(k), p1)
      BY <3>1, <3>2
    <3>4. Len(p1) \in Nat \ {0} /\ h[end(k)] = Comma
          /\ NameStart(end(k), j) + Len(HeaderName(names[j])) = end(k) + Len(p1)
      <4> HIDE DEF p1, end
      <4> QED BY <3>1, <3>3, PartFacts DEF p1
    <3>5. end(k) + Len(p1) <= Len(h) + 1
      <4> HIDE DEF p1, end
      <4> QED BY <3>3 DEF At
    <3>6. end(k) <= Len(h)
      <4> HIDE DEF p1, end
      <4> QED BY <1>1, <2>4, <3>4, <3>5, SMTT(30)
    <3>7. end(k) # Len(h)
      <4>1. Shut # Comma
        BY DEF Shut, Comma
      <4> HIDE DEF end
      <4> QED BY <1>1, <3>4, <4>1
    <3>8. st(j) = end(k) + 1
      <4>1. st(j) = NameStart(end(k), j)
        BY <3>1
      <4> HIDE DEF end, st
      <4> QED BY <3>1, <4>1 DEF NameStart
    <3>9. end(k) < Len(h)
      <4>1. Len(h) \in Nat
        BY <1>1
      <4> HIDE DEF end
      <4> QED BY <2>4, <3>6, <3>7, <4>1
    <3> HIDE DEF end, p1
    <3>10. At(h, st(k), q) /\ st(k) + Len(q) = end(k)
      BY <2>3, <2>4
    <3> HIDE DEF st
    <3> QED BY <2>2, <2>4, <2>6, <3>4, <3>6, <3>8, <3>9, <3>10 DEF j
  <2> QED BY <2>5, <2>6
<1> HIDE DEF st, end
<1> DEFINE Good(k) == r[st(k)] = SubSeq(names, k, n)
           T == {k \in D : Good(k)}
<1>4. ASSUME NEW k \in D, \A j \in D : k < j => Good(j) PROVE Good(k)
  <2> DEFINE s == names[k]
             i == st(k)
             l == Len(HeaderName(s))
  <2>1. s \in Seq(Nat) /\ At(h, i, HeaderName(s)) /\ i + l = end(k) /\ end(k) <= Len(h)
        /\ h[end(k)] \in {Comma, Shut}
    BY <1>3
  <2> HIDE DEF i, s
  <2>2. NameStands(h, i, s)
    BY <1>1, <2>1 DEF NameStands
  <2>3. EndOfName(h, i) = end(k) /\ NameAt(h, i) = s
    <3>1. EndOfName(h, i) = i + l /\ NameAt(h, i) = s
      BY <2>1, <2>2, BareFacts, QuotedFacts
    <3> QED BY <2>1, <3>1
  <2>4. i \in 1..Len(h)
    <3>1. l \in Nat \ {0}
      BY <2>1, HeaderNameTyped
    <3>2. i \in Nat \ {0} /\ Len(h) \in Nat
      BY <2>1 DEF At
    <3> HIDE DEF l
    <3> QED BY <2>1, <3>1, <3>2
  <2>5. r[i] = <<s>> \o (IF end(k) < Len(h) /\ h[end(k)] = Comma THEN r[end(k) + 1] ELSE <<>>)
    <3>1. r[i] = HeaderStep(h, i, r)
      BY <1>2, <2>4
    <3> QED BY <2>3, <3>1, Zenon DEF HeaderStep
  <2>6. SubSeq(names, k, n) = <<s>> \o SubSeq(names, k + 1, n)
    <3>1. k \in 1..Len(names) /\ n \in k..Len(names)
      BY <1>0
    <3> QED BY <3>1, SubSeqRecursiveFirst DEF s
  <2>7. (IF end(k) < Len(h) /\ h[end(k)] = Comma THEN r[end(k) + 1] ELSE <<>>)
            = SubSeq(names, k + 1, n)
    <3>1. CASE k = n
      <4>1. ~(end(k) < Len(h))
        <5>1. end(k) = Len(h) /\ end(k) \in Nat
          BY <1>3, <3>1
        <5> QED BY <5>1
      <4>2. SubSeq(names, k + 1, n) = <<>>
        <5>1. k + 1 \in Int /\ n \in Int /\ n < k + 1
          BY <1>0, <3>1
        <5> QED BY <5>1, SubSeqEmpty
      <4> QED BY <4>1, <4>2
    <3>2. CASE k # n
      <4> DEFINE j == k + 1
      <4>1. j \in D /\ k < j
        BY <1>0, <3>2
      <4>2. h[end(k)] = Comma /\ end(k) < Len(h) /\ st(j) = end(k) + 1
        BY <1>3, <3>2
      <4> HIDE DEF j
      <4>3. r[st(j)] = SubSeq(names, j, n)
        BY <1>4, <4>1
      <4> QED BY <4>2, <4>3 DEF j
    <3> QED BY <3>1, <3>2
  <2> QED BY <2>5, <2>6, <2>7, Zenon DEF i
<1>5. T = D
  <2>1. Within(D, n)
    BY <1>0 DEF Within
  <2> HIDE DEF Good, D
  <2>2. T \in SUBSET D /\ \A k \in D : (\A j \in D : k < j => j \in T) => k \in T
    BY <1>4
  <2> HIDE DEF T
  <2> QED BY <2>1, <2>2, DownInduction
<1>6. Good(1)
  <2>1. 1 \in D
    BY <1>0
  <2> HIDE DEF Good, D
  <2> QED BY <1>5, <2>1
<1>7. st(1) = 1
  <2>1. G[1 - 1] = <<>> /\ Len(<<>>) = 0
    BY <1>1
  <2>2. 1 + Len(G[1 - 1]) = 1
    BY <2>1
  <2> QED BY <2>2 DEF st, NameStart
<1>8. SubSeq(names, 1, n) = names
  BY SubSeqFull
<1> QED BY <1>2, <1>6, <1>7, <1>8 DEF h

(* The description of columns with names gives such a header.                 *)
LEMMA HeaderArrivesFacts ==
    ASSUME NEW cols \in Seq(ColumnValues)
    PROVE  HeaderArrives(cols)
<1> DEFINE names == [i \in 1..Len(cols) |-> cols[i].name]
<1>1. Len(cols) \in Nat /\ \A i \in 1..Len(cols) : cols[i] \in ColumnValues
  OBVIOUS
<1>2. \A c \in ColumnValues : c.name \in Seq(Nat)
  <2>1. \A c \in ColumnValues : c.name \in Seq(Nat \ {0})
    BY DEF ColumnValues
  <2>2. \A s \in Seq(Nat \ {0}) : s \in Seq(Nat)
    OBVIOUS
  <2> QED BY <2>1, <2>2
<1>3. names \in Seq(Seq(Nat)) /\ Len(names) = Len(cols)
  <2> DEFINE B == Seq(Nat)
  <2>1. \A i \in 1..Len(cols) : cols[i].name \in B
    BY <1>1, <1>2
  <2> HIDE DEF B
  <2>2. names \in [1..Len(cols) -> B]
    BY <2>1
  <2> HIDE DEF names
  <2>3. names \in Seq(B) /\ Len(names) = Len(cols)
    BY <1>1, <2>2
  <2> QED BY <2>3 DEF B
<1> HIDE DEF names
<1>4. cols # <<>> => names # <<>>
  BY <1>1, <1>3
<1>5. cols # <<>> => ReadHeader(buildTOONHeader(names)) = names
  BY <1>3, <1>4, HeaderFacts
<1> QED BY <1>5, Zenon DEF HeaderArrives, names

(* What the strings of a behaviour are.                                       *)
LEMMA StringInputs ==
    ASSUME NEW x
    PROVE  /\ IsInput("string", x) => x \in Seq(Byte)
           /\ IsInput("description", x) => x \in Seq(ColumnValues)
BY DEF IsInput

(* Both builds of the escaper write the same text, for every string of bytes  *)
(* and words of any size, and it reads back as the bytes that went in; the    *)
(* names of any columns come back from the header of their rows.              *)
THEOREM StringsTheorem == CodecSpec => []StringsDenote
<1>1. CodecInv => StringsDenote
  <2> SUFFICES ASSUME CodecInv PROVE StringsDenote
    OBVIOUS
  <2>1. ASSUME part = "string" PROVE EscapeIsFaithful(in)
    <3>1. in \in Seq(Byte)
      BY <2>1, StringInputs DEF CodecInv
    <3> QED BY <3>1, EscapeFacts
  <2>2. ASSUME part = "description" PROVE HeaderArrives(in)
    <3>1. in \in Seq(ColumnValues)
      BY <2>2, StringInputs DEF CodecInv
    <3> QED BY <3>1, HeaderArrivesFacts
  <2> QED BY <2>1, <2>2 DEF StringsDenote
<1> QED BY <1>1, CodecInvariance, PTL

-----------------------------------------------------------------------------
(* Numbers *)

(* A division done in two parts.                                              *)
LEMMA QuotientTwice ==
    ASSUME NEW v \in Int, NEW a \in Nat \ {0}, NEW b \in Nat \ {0}
    PROVE  (v \div a) \div b = v \div (a * b)
<1> DEFINE x == v \div a
           r == v % a
           y == x \div b
           t == x % b
<1>1. x \in Int /\ r \in Int /\ 0 <= r /\ r < a /\ v = x * a + r
  BY SMT
<1> HIDE DEF x, r
<1>2. y \in Int /\ t \in Int /\ 0 <= t /\ t < b /\ x = y * b + t
  BY <1>1, SMT
<1> HIDE DEF y, t
<1> DEFINE c == a * b
           s == t * a + r
<1>3. c \in Nat \ {0} /\ v = y * c + s
  <2>1. c \in Nat \ {0}
    BY SMT
  <2>2. v = (y * b + t) * a + r
    BY <1>1, <1>2
  <2>3. (y * b + t) * a = y * c + t * a
    BY <1>1, <1>2, SMT
  <2> QED BY <1>1, <1>2, <2>1, <2>2, <2>3
<1>4. s \in Int /\ 0 <= s /\ s < c
  <2>1. (t + 1) * a <= b * a
    BY <1>2, SMT
  <2>2. (t + 1) * a = t * a + a /\ t * a \in Nat
    BY <1>2, SMT
  <2>3. b * a = c
    BY SMT
  <2> QED BY <1>1, <2>1, <2>2, <2>3
<1> HIDE DEF c, s
<1>5. (y * c + s) \div c = y
  BY <1>2, <1>3, <1>4, QuotientIs
<1> QED BY <1>3, <1>5 DEF x, y, c

(* The powers of the base digit are powers of ten.                            *)
LEMMA PowerOfPower ==
    ASSUME NEW k \in Nat
    PROVE  Width * k \in Nat /\ Power(Power(10, Width), k) = Power(10, Width * k)
<1> DEFINE W == Width
           B == Power(10, W)
           T == {j \in Nat : Power(B, j) = Power(10, W * j)}
<1>0. W \in Nat \ {0} /\ B \in Int /\ 10 \in Int
  BY WidthAssumption, PowerDef
<1>1. 0 \in T /\ T \in SUBSET Nat
  <2>1. W * 0 = 0
    BY <1>0
  <2> QED BY <1>0, <2>1, PowerDef
<1>2. ASSUME NEW j \in T PROVE j + 1 \in T
  <2>1. j \in Nat /\ Power(B, j) = Power(10, W * j) /\ W * j \in Nat /\ W * (j + 1) = W * j + W
    BY <1>0
  <2>2. Power(B, j + 1) = Power(B, j) * B
    BY <1>0, <2>1, PowerDef
  <2>3. Power(10, W * j + W) = Power(10, W * j) * Power(10, W)
    BY <1>0, <2>1, PowerAdd
  <2> HIDE DEF W
  <2> QED BY <2>1, <2>2, <2>3
<1> HIDE DEF T
<1>3. T = Nat
  BY <1>1, <1>2, Induction
<1>4. W * k \in Nat
  BY <1>0
<1> QED BY <1>3, <1>4 DEF T

(* A shift to the right, one place less or none at all included.              *)
LEMMA ShiftDown ==
    ASSUME NEW v \in Nat, NEW e \in Nat
    PROVE  Shift(v, -e) = v \div Power(10, e)
<1>1. ~(-e > 0) /\ -(-e) = e
  OBVIOUS
<1> QED BY <1>1 DEF Shift

(* The last digit of a shifted number is the one that the next shift drops.   *)
LEMMA ShiftStep ==
    ASSUME NEW v \in Nat, NEW m \in Int
    PROVE  /\ Shift(v, m) \in Nat
           /\ Shift(v, m) = Shift(v, m - 1) * 10 + (Shift(v, m) % 10)
           /\ m > 0 => Shift(v, m) % 10 = 0
<1>1. CASE m > 0
  <2>1. m - 1 \in Nat /\ m = m - 1 + 1 /\ 10 \in Int
    BY <1>1
  <2> DEFINE P == Power(10, m - 1)
  <2>2. Power(10, m) = P * 10 /\ P \in Nat
    BY <2>1, PowerDef, PowerPositive
  <2>3. Shift(v, m) = v * (P * 10)
    BY <1>1, <2>2 DEF Shift
  <2>6. Shift(v, m - 1) = v * P
    <3>1. CASE m - 1 > 0
      BY <3>1 DEF Shift
    <3>2. CASE m - 1 = 0
      <4>1. P = 1
        BY <2>1, <3>2, PowerDef
      <4>2. Shift(v, -0) = v \div Power(10, 0) /\ Power(10, 0) = 1
        BY <2>1, ShiftDown, PowerDef
      <4> QED BY <3>2, <4>1, <4>2
    <3> QED BY <2>1, <3>1, <3>2
  <2> HIDE DEF P
  <2>4. v * (P * 10) = (v * P) * 10 /\ v * P \in Nat
    BY <2>2, SMT
  <2> DEFINE x == v * P
  <2> HIDE DEF x
  <2>5. x \in Nat => (x * 10) % 10 = 0 /\ x * 10 \in Nat
    BY SMT
  <2> QED BY <2>3, <2>4, <2>5, <2>6 DEF x
<1>2. CASE m <= 0
  <2> DEFINE e == -m
             P == Power(10, e)
             x == v \div P
  <2>1. e \in Nat /\ e + 1 \in Nat /\ m = -e /\ m - 1 = -(e + 1)
    BY <1>2
  <2>2. P \in Nat \ {0} /\ Power(10, e + 1) = P * 10
    BY <2>1, PowerDef, PowerPositive
  <2>3. Shift(v, m) = x /\ Shift(v, m - 1) = v \div (P * 10)
    BY <2>1, <2>2, ShiftDown
  <2> HIDE DEF P, e
  <2>4. x \in Nat /\ x \div 10 = v \div (P * 10)
    <3>1. (v \div P) \div 10 = v \div (P * 10)
      <4>1. 10 \in Nat \ {0} /\ v \in Int
        OBVIOUS
      <4> QED BY <2>2, <4>1, QuotientTwice
    <3>2. v \div P \in Nat
      BY <2>2, SMT
    <3> QED BY <3>1, <3>2
  <2> HIDE DEF x
  <2>5. x = (x \div 10) * 10 + (x % 10)
    BY <2>4, SMT
  <2> QED BY <1>2, <2>3, <2>4, <2>5
<1> QED BY <1>1, <1>2

(* s ends at the decimal position m of the digits of v, which counts from the *)
(* last digit of v, and each of its digits is the one that v has there.       *)
Run(v, s, m) == \A i \in 1..Len(s) : s[i] = Shift(v, m - Len(s) + i) % 10

(* And there is nothing of v before s.                                        *)
Covers(v, s, m) == Run(v, s, m) /\ Shift(v, m - Len(s)) = 0

(* Then s is what v is worth up to there.                                     *)
LEMMA RunValue ==
    ASSUME NEW v \in Nat, NEW s \in Seq(Int), NEW m \in Int, Covers(v, s, m)
    PROVE  Value(s, 10) = Shift(v, m)
<1> DEFINE n == Len(s)
           a == m - n
<1>0. n \in Nat /\ a \in Int /\ a + n = m /\ 10 \in Int
  OBVIOUS
<1>1. PICK w \in [0..n -> Int] : /\ Value(s, 10) = w[n] /\ w[0] = 0
                                 /\ \A k \in 1..n : w[k] = w[k - 1] * 10 + s[k]
  BY <1>0, ValueDef, Zenon
<1>2. Shift(v, a) = 0 /\ \A i \in 1..n : s[i] = Shift(v, a + i) % 10
  BY DEF Covers, Run
<1> HIDE DEF n, a
<1> DEFINE U == {k \in Nat : k <= n => w[k] = Shift(v, a + k)}
<1>3. 0 \in U /\ U \in SUBSET Nat
  <2>1. a + 0 = a
    BY <1>0
  <2> QED BY <1>1, <1>2, <2>1
<1>4. ASSUME NEW k \in U PROVE k + 1 \in U
  <2> SUFFICES ASSUME k + 1 <= n PROVE w[k + 1] = Shift(v, a + (k + 1))
    OBVIOUS
  <2> DEFINE j == k + 1
             x == Shift(v, a + k)
             y == Shift(v, a + j)
  <2>1. j \in 1..n /\ j - 1 = k /\ w[k] = x
    BY <1>0
  <2>2. w[j] = w[k] * 10 + s[j] /\ s[j] = y % 10
    <3> HIDE DEF j, y
    <3>1. w[j] = w[k] * 10 + s[j]
      BY <1>1, <2>1
    <3> QED BY <1>2, <2>1, <3>1 DEF y
  <2>3. y = x * 10 + (y % 10)
    <3> DEFINE z == a + j
    <3>1. z \in Int /\ z - 1 = a + k
      BY <1>0
    <3> HIDE DEF z
    <3>2. Shift(v, z) = Shift(v, z - 1) * 10 + (Shift(v, z) % 10)
      BY <3>1, ShiftStep
    <3> QED BY <3>1, <3>2 DEF z
  <2> HIDE DEF j, x, y
  <2>4. w[j] = y
    BY <2>1, <2>2, <2>3
  <2> QED BY <2>4 DEF j, y
<1> HIDE DEF U
<1>5. U = Nat
  BY <1>3, <1>4, Induction
<1>6. n \in U
  BY <1>0, <1>5
<1> QED BY <1>0, <1>1, <1>6 DEF U

(* A run goes on with the next one.                                           *)
LEMMA RunConcat ==
    ASSUME NEW v \in Nat, NEW s \in Seq(Int), NEW t \in Seq(Int), NEW m \in Int,
           Covers(v, s, m), Run(v, t, m + Len(t))
    PROVE  s \o t \in Seq(Int) /\ Covers(v, s \o t, m + Len(t))
<1> DEFINE x == s \o t
           p == Len(s)
           q == Len(t)
<1>0. p \in Nat /\ q \in Nat /\ x \in Seq(Int) /\ Len(x) = p + q
  OBVIOUS
<1>1. \A i \in 1..p : x[i] = s[i]
  OBVIOUS
<1>2. \A i \in 1..q : x[p + i] = t[i]
  OBVIOUS
<1>3. Shift(v, m - p) = 0 /\ (\A i \in 1..p : s[i] = Shift(v, m - p + i) % 10)
      /\ \A i \in 1..q : t[i] = Shift(v, (m + q) - q + i) % 10
  BY DEF Covers, Run
<1> HIDE DEF x, p, q
<1>4. (m + q) - Len(x) = m - p
  BY <1>0
<1>5. ASSUME NEW i \in 1..p + q PROVE x[i] = Shift(v, m - p + i) % 10
  <2>1. CASE i <= p
    <3>1. i \in 1..p
      BY <1>0, <2>1
    <3> QED BY <1>1, <1>3, <3>1
  <2>2. CASE i > p
    <3> DEFINE k == i - p
    <3>1. k \in 1..q /\ p + k = i /\ (m + q) - q + k = m - p + i
      BY <1>0, <2>2
    <3> HIDE DEF k
    <3>2. x[p + k] = t[k] /\ t[k] = Shift(v, (m + q) - q + k) % 10
      BY <1>2, <1>3, <3>1
    <3> QED BY <3>1, <3>2
  <2> QED BY <1>0, <2>1, <2>2
<1>6. Run(v, x, m + q)
  BY <1>0, <1>4, <1>5 DEF Run
<1>7. Covers(v, x, m + q)
  BY <1>3, <1>4, <1>6 DEF Covers
<1> QED BY <1>0, <1>7 DEF x, q

(* The parts of a numeric.                                                    *)
LEMMA NumericTyped ==
    ASSUME NEW n, IsNumeric(n)
    PROVE  /\ n.weight \in Int /\ n.dscale \in Nat /\ n.digits \in Seq(0..Power(10, Width) - 1)
           /\ n.digits # <<>> => n.digits[1] # 0
           /\ n.sign \in STRING
BY DEF IsNumeric

(* The value of the digits, and that it has no more digits than that.         *)
LEMMA NumericValue ==
    ASSUME NEW u, u \in Seq(0..Power(10, Width) - 1)
    PROVE  /\ Value(u, Power(10, Width)) \in Nat
           /\ \A e \in Nat : e >= Width * Len(u)
                => Shift(Value(u, Power(10, Width)), -e) = 0
<1> DEFINE W == Width
           B == Power(10, W)
           v == Value(u, B)
           L == Len(u)
<1>0. W \in Nat \ {0} /\ B \in Nat \ {0} /\ L \in Nat /\ W * L \in Nat /\ 10 \in Nat \ {0}
      /\ 10 \in Int
  <2>1. W \in Nat \ {0} /\ L \in Nat /\ 10 \in Nat \ {0} /\ 10 \in Int
    BY WidthAssumption
  <2>2. W * L \in Nat
    BY <2>1
  <2> QED BY <2>1, <2>2, PowerPositive
<1>1. v \in Nat /\ v < Power(B, L)
  <2>1. u \in Seq(0..B - 1)
    OBVIOUS
  <2> HIDE DEF B
  <2> QED BY <1>0, <2>1, ValueBound
<1>2. Power(B, L) = Power(10, W * L)
  BY <1>0, PowerOfPower
<1> HIDE DEF v, L, W, B
<1>3. ASSUME NEW e \in Nat, e >= W * L PROVE Shift(v, -e) = 0
  <2> DEFINE x == W * L
             y == e - x
             P == Power(10, x)
             Q == Power(10, y)
  <2>0. x \in Nat /\ y \in Nat /\ x + y = e
    BY <1>0, <1>3
  <2>1. Power(10, e) = P * Q
    <3> HIDE DEF x, y
    <3> QED BY <1>0, <2>0, PowerAdd
  <2>2. P \in Nat \ {0} /\ Q \in Nat \ {0}
    <3> HIDE DEF x, y
    <3> QED BY <1>0, <2>0, PowerPositive
  <2>3. v < P
    BY <1>1, <1>2
  <2>4. Shift(v, -e) = v \div (P * Q)
    BY <1>1, <2>1, ShiftDown
  <2> HIDE DEF P, Q
  <2>5. P * Q \in Nat \ {0} /\ v < P * Q
    <3>1. P <= P * Q
      BY <2>2, SMT
    <3>2. P * Q \in Nat \ {0}
      BY <2>2, SMT
    <3> QED BY <1>1, <2>2, <2>3, <3>1, <3>2
  <2> DEFINE b == P * Q
  <2>6. b \in Nat \ {0} /\ v \in Int /\ 0 <= v /\ v < b /\ 0 * b + v = v
    BY <1>1, <2>5
  <2> HIDE DEF b
  <2>7. (0 * b + v) \div b = 0
    <3>1. 0 \in Int
      OBVIOUS
    <3> QED BY <2>6, <3>1, QuotientIs
  <2> QED BY <2>4, <2>6, <2>7 DEF b
<1> QED BY <1>1, <1>3 DEF v, L, W, B

(* A shift of the value that cuts inside its j-th digit.                      *)
LEMMA ShiftInside ==
    ASSUME NEW u, u \in Seq(0..Power(10, Width) - 1), NEW j \in 1..Len(u), NEW q \in 1..Width,
           NEW m \in Int, m = Width * (j - 1 - Len(u)) + q
    PROVE  Shift(Value(u, Power(10, Width)), m) % 10 = (u[j] \div Power(10, Width - q)) % 10
<1> DEFINE W == Width
           B == Power(10, W)
           v == Value(u, B)
           L == Len(u)
           d == u[j]
           t == L - j
           r == W - q
           P == Power(10, W * t)
           R == Power(10, r)
           H == Power(10, q - 1)
<1>0. W \in Nat \ {0} /\ L \in Nat /\ 10 \in Nat \ {0} /\ t \in Nat /\ r \in Nat /\ q - 1 \in Nat
      /\ W * t \in Nat /\ 10 \in Int /\ u \in Seq(Int)
  <2>1. W \in Nat \ {0} /\ L \in Nat /\ 10 \in Nat \ {0} /\ t \in Nat /\ r \in Nat /\ q - 1 \in Nat
    BY WidthAssumption
  <2>2. W * t \in Nat /\ 10 \in Int
    BY <2>1
  <2>3. u \in Seq(Int)
    <3>1. u \in Seq(0..B - 1) /\ B \in Int
      BY <2>1, <2>2, PowerDef
    <3> HIDE DEF B
    <3> QED BY <3>1
  <2> QED BY <2>1, <2>2, <2>3
<1>1. B \in Nat \ {0} /\ P \in Nat \ {0} /\ R \in Nat \ {0} /\ H \in Nat \ {0}
  <2> HIDE DEF t, r, W
  <2> QED BY <1>0, PowerPositive
<1>2. d \in Nat /\ v \in Nat /\ \A k \in j + 1..Len(u) : 0 <= u[k] /\ u[k] < B
  <2>1. u \in Seq(0..B - 1)
    OBVIOUS
  <2>2. v \in Nat
    BY NumericValue
  <2> HIDE DEF B
  <2>3. \A k \in 1..Len(u) : u[k] \in Int /\ 0 <= u[k] /\ u[k] < B
    <3>1. \A k \in 1..Len(u) : u[k] \in 0..B - 1
      BY <2>1, ElementOfSeq
    <3> QED BY <1>1, <3>1, SMTT(30)
  <2> QED BY <1>0, <2>2, <2>3, SMTT(30)
<1>3. Power(B, t) = P
  <2> HIDE DEF t
  <2> QED BY <1>0, PowerOfPower
<1>4. PICK A \in Int, e \in Nat : e < P /\ v = (A * B + d) * P + e
  <2>1. \E A \in Int, e \in Nat : e < Power(B, L - j) /\ v = (A * B + d) * Power(B, L - j) + e
    <3> HIDE DEF B
    <3> QED BY <1>0, <1>1, <1>2, ValueAt, ZenonT(40)
  <2> QED BY <1>3, <2>1
<1>5. B = (H * 10) * R
  <2>1. Power(10, q) = H * 10
    <3> DEFINE p == q - 1
    <3>1. p \in Nat /\ p + 1 = q
      BY <1>0
    <3> HIDE DEF p
    <3>2. Power(10, p + 1) = Power(10, p) * 10
      BY <1>0, <3>1, PowerDef
    <3> QED BY <3>1, <3>2 DEF p
  <2>2. Power(10, q + r) = Power(10, q) * R
    <3>1. q \in Nat
      BY <1>0
    <3> HIDE DEF r
    <3> QED BY <1>0, <3>1, PowerAdd
  <2>3. q + r = W
    BY <1>0
  <2> QED BY <2>1, <2>2, <2>3
<1>6. Shift(v, m) = (v \div P) \div R
  <2> DEFINE g == W * t + r
  <2>1. g \in Nat /\ m = -g
    <3>1. \A a, b \in Int : a * (-(b + 1)) = -(a * b) - a
      BY SMT
    <3>2. j - 1 - Len(u) = -(t + 1)
      BY <1>0
    <3>3. m = -(W * t) - W + q
      <4>1. m = W * (-(t + 1)) + q
        BY <3>2
      <4>2. W \in Int /\ t \in Int
        BY <1>0
      <4> HIDE DEF W, t
      <4> QED BY <3>1, <4>1, <4>2
    <3>4. W * t \in Int
      BY <1>0
    <3> DEFINE a == W * t
    <3> HIDE DEF a
    <3>5. m = -(a + r)
      BY <1>0, <3>3, <3>4 DEF a
    <3>6. W * t + r \in Nat
      <4>1. W * t \in Nat /\ r \in Nat
        BY <1>0
      <4> QED BY <4>1
    <3> QED BY <3>5, <3>6 DEF a
  <2>2. Power(10, g) = P * R
    <3> HIDE DEF t, r, W
    <3> QED BY <1>0, PowerAdd
  <2>3. Shift(v, m) = v \div (P * R)
    <3> HIDE DEF g, P, R, v
    <3> QED BY <1>2, <2>1, <2>2, ShiftDown
  <2>4. v \in Int /\ P \in Nat \ {0} /\ R \in Nat \ {0}
    BY <1>1, <1>2
  <2> HIDE DEF P, R, v
  <2>5. (v \div P) \div R = v \div (P * R)
    BY <2>4, QuotientTwice
  <2> QED BY <2>3, <2>5
<1> HIDE DEF P, R, H, v, B, d, t, r
<1>7. v \div P = A * B + d
  <2> DEFINE z == A * B + d
  <2>1. z \in Int /\ v = z * P + e
    BY <1>1, <1>2, <1>4
  <2>2. e \in Int /\ 0 <= e
    BY <1>4
  <2> HIDE DEF z
  <2>3. (z * P + e) \div P = z
    BY <1>1, <1>4, <2>1, <2>2, QuotientIs
  <2> QED BY <2>1, <2>3 DEF z
<1> DEFINE x == d \div R
           y == d % R
           G == A * H
<1>8. x \in Nat /\ y \in Int /\ 0 <= y /\ y < R /\ d = x * R + y
  BY <1>1, <1>2, SMT
<1>9. (A * B + d) \div R = G * 10 + x
  <2>1. A * B = (G * 10) * R /\ G \in Int
    <3>1. A * ((H * 10) * R) = ((A * H) * 10) * R /\ A * H \in Int
      BY <1>1, SMT
    <3> QED BY <1>5, <3>1
  <2> HIDE DEF x, y, G
  <2> DEFINE z == G * 10 + x
  <2>2. z \in Int
    BY <1>8, <2>1
  <2>3. A * B + d = z * R + y
    <3>1. z * R = (G * 10) * R + x * R /\ (G * 10) * R \in Int /\ x * R \in Int
      BY <1>1, <1>8, <2>1, SMT
    <3> QED BY <1>8, <2>1, <3>1, SMTT(30)
  <2> HIDE DEF z
  <2>4. (z * R + y) \div R = z
    BY <1>1, <1>8, <2>2, QuotientIs
  <2> QED BY <2>3, <2>4 DEF z
<1>10. (G * 10 + x) % 10 = x % 10
  <2>1. G \in Int
    BY <1>1, SMT
  <2> HIDE DEF x, G
  <2> QED BY <1>8, <2>1, SMT
<1> HIDE DEF x, G
<1>11. Shift(v, m) % 10 = x % 10
  BY <1>6, <1>7, <1>9, <1>10
<1> QED BY <1>11 DEF x, v, B, d, R, r, W

(* Nothing of zero.                                                           *)
LEMMA NoDigit ==
    ASSUME NEW r \in Nat
    PROVE  (0 \div Power(10, r)) % 10 = 0
<1> DEFINE P == Power(10, r)
<1>1. P \in Nat \ {0}
  <2>1. 10 \in Nat \ {0}
    OBVIOUS
  <2> QED BY <2>1, PowerPositive
<1> HIDE DEF P
<1>2. 0 \div P = 0
  <2>1. 0 \in Int /\ 0 <= 0 /\ 0 < P /\ 0 * P + 0 = 0
    BY <1>1
  <2>2. (0 * P + 0) \div P = 0
    BY <1>1, <2>1, QuotientIs
  <2> QED BY <2>1, <2>2
<1>3. 0 % 10 = 0
  BY SMT
<1> QED BY <1>2, <1>3 DEF P

(* Every decimal digit that is written from a digit of a numeric, there or    *)
(* not, is the one that its value has at that position.                       *)
LEMMA DigitIs ==
    ASSUME NEW n, IsNumeric(n), NEW j \in Int, NEW q \in 1..Width, NEW m \in Int,
           m = Width * (j - Len(n.digits)) + q
    PROVE  Shift(Value(n.digits, Power(10, Width)), m) % 10
             = (digitAt(n, j) \div Power(10, Width - q)) % 10
<1> DEFINE W == Width
           u == n.digits
           B == Power(10, W)
           v == Value(u, B)
           L == Len(u)
           t == j - L
<1>1. u \in Seq(0..B - 1)
  BY NumericTyped
<1>2. W \in Nat \ {0} /\ L \in Nat /\ t \in Int /\ q \in Nat /\ W - q \in Nat /\ m = W * t + q
  <2>1. L \in Nat
    BY <1>1, LenProperties
  <2> QED BY <2>1, WidthAssumption
<1>3. v \in Nat /\ \A e \in Nat : e >= W * L => Shift(v, -e) = 0
  BY <1>1, NumericValue
<1>5. 0 % 10 = 0
  BY SMT
<1>6. CASE j >= L
  <2>1. digitAt(n, j) = 0
    BY <1>2, <1>6 DEF digitAt
  <2>2. m > 0
    <3>1. t \in Nat
      BY <1>2, <1>6
    <3> HIDE DEF t, W
    <3>2. W * t \in Nat
      BY <1>2, <3>1
    <3> QED BY <1>2, <3>2
  <2>3. Shift(v, m) % 10 = 0
    <3> HIDE DEF v
    <3> QED BY <1>3, <2>2, ShiftStep
  <2> QED BY <1>2, <2>1, <2>3, NoDigit
<1>7. CASE 0 <= j /\ j < L
  <2> DEFINE i == j + 1
  <2>1. i \in 1..L /\ digitAt(n, j) = u[i]
    BY <1>2, <1>7 DEF digitAt
  <2>2. i - 1 - L = t
    BY <1>2
  <2>3. m = W * (i - 1 - L) + q
    BY <1>2, <2>2
  <2> HIDE DEF i
  <2>4. Shift(v, m) % 10 = (u[i] \div Power(10, W - q)) % 10
    BY <1>1, <2>1, <2>3, ShiftInside
  <2> QED BY <2>1, <2>4
<1>8. CASE j < 0
  <2>1. digitAt(n, j) = 0
    BY <1>8 DEF digitAt
  <2> DEFINE e == -m
  <2>2. e \in Nat /\ e >= W * L /\ -e = m
    <3> DEFINE s == -j - 1
    <3>1. s \in Nat /\ t = -(s + 1 + L)
      <4>1. L \in Nat /\ j \in Int /\ j < 0 /\ t = j - L
        BY <1>2, <1>8
      <4> HIDE DEF L, t
      <4> QED BY <4>1
    <3>2. \A a, b, c \in Int : a * (-(b + 1 + c)) = -(a * b) - a - a * c
      BY SMT
    <3>3. W * t = -(W * s) - W - W * L
      <4>1. W \in Int /\ s \in Int /\ L \in Int
        BY <1>2, <3>1
      <4> HIDE DEF s, t, W, L
      <4> QED BY <3>1, <3>2, <4>1
    <3>4. W * s \in Nat /\ W * L \in Nat /\ W * t \in Int
      <4> HIDE DEF s, t, W, L
      <4> QED BY <1>2, <3>1, SMT
    <3> HIDE DEF s, t, W, L
    <3> DEFINE x == W * s
               y == W * L
               z == W * t
    <3>5. x \in Nat /\ y \in Nat /\ z = -x - W - y /\ m = z + q /\ q <= W
      BY <1>2, <3>3, <3>4
    <3> HIDE DEF x, y, z
    <3>6. -m \in Nat /\ -m >= y /\ -(-m) = m
      BY <1>2, <3>5
    <3> QED BY <3>6 DEF y
  <2> HIDE DEF e
  <2>3. Shift(v, m) = 0
    BY <1>3, <2>2
  <2> QED BY <1>2, <1>5, <2>1, <2>3, NoDigit
<1> QED BY <1>2, <1>6, <1>7, <1>8

(* The digits of a number that a base digit has room for: they are its own.   *)
LEMMA PadFacts ==
    ASSUME NEW d \in Nat
    PROVE  /\ appendNumericPad4(d) \in Seq(Int) /\ Len(appendNumericPad4(d)) = Width
           /\ \A k \in 1..Width :
                appendNumericPad4(d)[k] = (d \div Power(10, Width - k)) % 10
           /\ d # 0 /\ d < Power(10, Width) => \E k \in 1..Width : appendNumericPad4(d)[k] # 0
<1> DEFINE W == Width
           pad == appendNumericPad4(d)
           B == Power(10, W)
<1>0. W \in Nat \ {0} /\ 10 \in Nat \ {0} /\ 10 \in Int
  BY WidthAssumption
<1>1. \A k \in 1..W : W - k \in Nat /\ Power(10, W - k) \in Nat \ {0}
  <2> SUFFICES ASSUME NEW k \in 1..W PROVE W - k \in Nat /\ Power(10, W - k) \in Nat \ {0}
    OBVIOUS
  <2> DEFINE r == W - k
  <2>1. r \in Nat
    BY <1>0
  <2> HIDE DEF r
  <2>2. Power(10, r) \in Nat \ {0}
    BY <1>0, <2>1, PowerPositive
  <2> QED BY <2>1, <2>2 DEF r
<1>2. ASSUME NEW k \in 1..W PROVE (d \div Power(10, W - k)) % 10 \in Int
  <2> DEFINE P == Power(10, W - k)
  <2>1. P \in Nat \ {0}
    BY <1>1
  <2> HIDE DEF P
  <2>2. d \div P \in Int
    BY <2>1, SMT
  <2>3. (d \div P) % 10 \in Int
    BY <2>2, SMT
  <2> QED BY <2>3 DEF P
<1>3. pad \in Seq(Int) /\ Len(pad) = W /\ \A k \in 1..W : pad[k] = (d \div Power(10, W - k)) % 10
  <2>1. pad = [k \in 1..W |-> (d \div Power(10, W - k)) % 10]
    BY DEF appendNumericPad4
  <2> DEFINE c(k) == (d \div Power(10, W - k)) % 10
  <2>2. \A k \in 1..W : c(k) \in Int
    BY <1>2
  <2> HIDE DEF c, pad, W
  <2>3. [k \in 1..W |-> c(k)] \in Seq(Int) /\ Len([k \in 1..W |-> c(k)]) = W
    BY <1>0, <2>2
  <2>4. pad = [k \in 1..W |-> c(k)]
    BY <2>1 DEF c
  <2>5. \A k \in 1..W : pad[k] = c(k)
    BY <2>4, Zenon
  <2> QED BY <2>3, <2>4, <2>5 DEF c
<1> HIDE DEF pad
<1>4. ASSUME d # 0, d < B, \A k \in 1..W : pad[k] = 0 PROVE FALSE
  <2>1. Run(d, pad, 0)
    <3> SUFFICES ASSUME NEW k \in 1..Len(pad) PROVE pad[k] = Shift(d, 0 - Len(pad) + k) % 10
      BY DEF Run
    <3> DEFINE r == W - k
    <3>1. k \in 1..W /\ r \in Nat /\ 0 - Len(pad) + k = -r
      BY <1>0, <1>3
    <3>2. pad[k] = (d \div Power(10, r)) % 10
      BY <1>3, <3>1
    <3> HIDE DEF r
    <3>3. Shift(d, -r) = d \div Power(10, r)
      BY <3>1, ShiftDown
    <3> QED BY <3>1, <3>2, <3>3
  <2>2. Shift(d, 0 - Len(pad)) = 0
    <3>1. 0 - Len(pad) = -W /\ W \in Nat
      BY <1>0, <1>3
    <3>2. Shift(d, -W) = d \div B
      <4> HIDE DEF W
      <4> QED BY <3>1, ShiftDown DEF B
    <3>3. B \in Nat \ {0}
      BY <1>0, PowerPositive
    <3> HIDE DEF B
    <3>4. d \in Int /\ 0 <= d /\ d < B /\ 0 * B + d = d /\ 0 \in Int
      BY <1>4, <3>3
    <3>5. (0 * B + d) \div B = 0
      BY <3>3, <3>4, QuotientIs
    <3> QED BY <3>1, <3>2, <3>4, <3>5
  <2>3. Value(pad, 10) = Shift(d, 0)
    <3>1. 0 \in Int /\ Covers(d, pad, 0)
      BY <2>1, <2>2 DEF Covers
    <3> QED BY <1>3, <3>1, RunValue
  <2>4. Shift(d, 0) = d
    <3>1. 1 \in Int /\ 1 > 0 /\ 1 - 1 = 0
      OBVIOUS
    <3>2. Power(10, 1) = 10
      <4>1. Power(10, 0) = 1 /\ Power(10, 0 + 1) = Power(10, 0) * 10 /\ 0 + 1 = 1 /\ 1 * 10 = 10
        BY <1>0, PowerDef
      <4> QED BY <4>1
    <3>3. Shift(d, 1) = d * 10
      BY <3>1, <3>2 DEF Shift
    <3>4. /\ Shift(d, 0) \in Nat /\ Shift(d, 1) % 10 = 0
          /\ Shift(d, 1) = Shift(d, 0) * 10 + (Shift(d, 1) % 10)
      <4>1. 0 \in Int
        OBVIOUS
      <4> QED BY <3>1, <4>1, ShiftStep
    <3> DEFINE x == Shift(d, 0)
    <3> HIDE DEF x
    <3>5. x \in Nat /\ d * 10 = x * 10 + 0
      BY <3>3, <3>4 DEF x
    <3>6. x = d
      BY <3>5
    <3> QED BY <3>6 DEF x
  <2>5. Value(pad, 10) = 0
    BY <1>0, <1>3, <1>4, ValueZero
  <2> QED BY <1>4, <2>3, <2>4, <2>5
<1> QED BY <1>3, <1>4 DEF pad, W, B

(* The digits of the j-th digit of a numeric.                                 *)
LEMMA PadRun ==
    ASSUME NEW n, IsNumeric(n), NEW j \in Int, NEW m \in Int,
           m = Width * (j - Len(n.digits)) + Width
    PROVE  /\ digitAt(n, j) \in Nat /\ digitAt(n, j) < Power(10, Width)
           /\ Run(Value(n.digits, Power(10, Width)), appendNumericPad4(digitAt(n, j)), m)
<1> DEFINE W == Width
           B == Power(10, W)
           u == n.digits
           v == Value(u, B)
           L == Len(u)
           d == digitAt(n, j)
           pad == appendNumericPad4(d)
           t == j - L
<1>1. u \in Seq(0..B - 1) /\ W \in Nat \ {0}
  BY NumericTyped, WidthAssumption
<1>2. B \in Nat \ {0} /\ L \in Nat /\ t \in Int
  <2>1. 10 \in Nat \ {0} /\ L \in Nat
    BY <1>1, LenProperties
  <2>2. B \in Nat \ {0}
    BY <1>1, <2>1, PowerPositive
  <2> QED BY <2>1, <2>2
<1>3. d \in Nat /\ d < B
  <2>1. CASE j < 0 \/ j >= L
    <3>1. d = 0
      BY <2>1 DEF digitAt
    <3> HIDE DEF d, B
    <3> QED BY <1>2, <3>1
  <2>2. CASE ~(j < 0 \/ j >= L)
    <3>1. d = u[j + 1] /\ j + 1 \in 1..L
      BY <1>2, <2>2 DEF digitAt
    <3>2. u[j + 1] \in 0..B - 1
      BY <1>1, <3>1, ElementOfSeq
    <3> HIDE DEF d, B
    <3> QED BY <1>2, <3>1, <3>2
  <2> QED BY <2>1, <2>2
<1>4. Len(pad) = W /\ \A k \in 1..W : pad[k] = (d \div Power(10, W - k)) % 10
  <2> HIDE DEF d
  <2> QED BY <1>3, PadFacts
<1>5. ASSUME NEW k \in 1..W PROVE pad[k] = Shift(v, m - W + k) % 10
  <2> DEFINE i == m - W + k
  <2>1. i \in Int /\ i = W * t + k
    <3> DEFINE z == W * t
    <3>1. z \in Int /\ m = z + W
      BY <1>1, <1>2
    <3> HIDE DEF z
    <3>2. i \in Int /\ i = z + k
      BY <1>1, <3>1
    <3> QED BY <3>2 DEF z
  <2> HIDE DEF i
  <2>2. Shift(v, i) % 10 = (d \div Power(10, W - k)) % 10
    BY <2>1, DigitIs
  <2> QED BY <1>4, <2>2 DEF i
<1>6. Run(v, pad, m)
  <2> HIDE DEF pad, v, W
  <2> QED BY <1>4, <1>5 DEF Run
<1> QED BY <1>3, <1>6

(* strconv.AppendInt leaves out the zeros in front, and no more.              *)
LEMMA AppendIntFacts ==
    ASSUME NEW n, IsNumeric(n), n.digits # <<>>, NEW m \in Int,
           m = Width * (0 - Len(n.digits)) + Width
    PROVE  /\ AppendInt(digitAt(n, 0)) \in Seq(Int) /\ AppendInt(digitAt(n, 0)) # <<>>
           /\ Head(AppendInt(digitAt(n, 0))) # 0
           /\ Covers(Value(n.digits, Power(10, Width)), AppendInt(digitAt(n, 0)), m)
<1> DEFINE W == Width
           B == Power(10, W)
           u == n.digits
           v == Value(u, B)
           L == Len(u)
           d == digitAt(n, 0)
           pad == appendNumericPad4(d)
           first == {k \in 1..W : k = W \/ \E j \in 1..k : pad[j] # 0}
           f == CHOOSE k \in first : \A j \in first : k <= j
           s == SubSeq(pad, f, W)
           pre == SubSeq(pad, 1, f - 1)
<1>1. u \in Seq(0..B - 1) /\ W \in Nat \ {0} /\ u[1] # 0
  BY NumericTyped, WidthAssumption
<1>2. L \in Nat \ {0}
  BY <1>1, EmptySeq, LenProperties
<1>3. d \in Nat /\ d < B /\ Run(v, pad, m)
  <2>1. 0 \in Int
    OBVIOUS
  <2> QED BY <2>1, PadRun
<1>4. d # 0
  BY <1>1, <1>2 DEF digitAt
<1>5. pad \in Seq(Int) /\ Len(pad) = W /\ \E k \in 1..W : pad[k] # 0
  <2> HIDE DEF d
  <2> QED BY <1>3, <1>4, PadFacts
<1>6. v \in Nat /\ Shift(v, m - W) = 0
  <2>1. v \in Nat /\ \A e \in Nat : e >= W * L => Shift(v, -e) = 0
    BY <1>1, NumericValue
  <2>2. W * L \in Nat /\ m - W = -(W * L)
    <3>1. \A a, b \in Int : a * (0 - b) = -(a * b) /\ a * b \in Int
      BY SMT
    <3>2. W * L \in Nat
      BY <1>1, <1>2
    <3>3. m = -(W * L) + W
      <4>1. W \in Int /\ L \in Int /\ m = W * (0 - L) + W
        BY <1>1, <1>2
      <4> HIDE DEF W, L
      <4> QED BY <3>1, <4>1
    <3> DEFINE z == W * L
    <3> HIDE DEF z
    <3>4. m - W = -z
      BY <1>1, <3>2, <3>3 DEF z
    <3> QED BY <3>2, <3>4 DEF z
  <2> QED BY <2>1, <2>2
<1>7. AppendInt(d) = s
  BY Zenon DEF AppendInt
<1> HIDE DEF pad, v, d, B
<1>8. f \in first /\ \A j \in first : f <= j
  <2>1. W \in first /\ first \in SUBSET Nat
    BY <1>1
  <2>2. PICK k \in first : \A j \in first : k <= j
    <3> HIDE DEF first
    <3> QED BY <2>1, LeastNat
  <2> HIDE DEF first
  <2> QED BY <2>2, Zenon
<1> HIDE DEF f
<1>9. f \in 1..W /\ pad[f] # 0 /\ \A k \in 1..f - 1 : pad[k] = 0
  <2>1. f \in 1..W /\ (f = W \/ \E j \in 1..f : pad[j] # 0)
    BY <1>8
  <2>2. ASSUME NEW k \in 1..f - 1 PROVE pad[k] = 0
    <3> SUFFICES ASSUME pad[k] # 0 PROVE FALSE
      OBVIOUS
    <3>1. k \in 1..W /\ k < f /\ k \in 1..k /\ k \in Nat /\ f \in Nat
      BY <1>1, <2>1
    <3>2. k \in first
      BY <3>1
    <3>3. f <= k
      BY <1>8, <3>2
    <3> QED BY <3>1, <3>3
  <2>3. pad[f] # 0
    <3>1. PICK j \in 1..W : j <= f /\ pad[j] # 0
      <4>1. CASE f = W
        <5>1. PICK j \in 1..W : pad[j] # 0
          BY <1>5
        <5>2. j <= f
          BY <1>1, <4>1
        <5> QED BY <5>1, <5>2
      <4>2. CASE \E j \in 1..f : pad[j] # 0
        <5>1. PICK j \in 1..f : pad[j] # 0
          BY <4>2
        <5>2. j \in 1..W /\ j <= f
          BY <1>1, <2>1
        <5> QED BY <5>1, <5>2
      <4> QED BY <2>1, <4>1, <4>2
    <3>2. j = f \/ j \in 1..f - 1
      BY <1>1, <2>1, <3>1
    <3> QED BY <2>2, <3>1, <3>2
  <2> QED BY <2>1, <2>2, <2>3
<1> HIDE DEF first
<1>10. /\ s \in Seq(Int) /\ Len(s) = W - f + 1 /\ \A i \in 1..W - f + 1 : s[i] = pad[f + i - 1]
       /\ pre \in Seq(Int) /\ Len(pre) = f - 1 /\ \A i \in 1..f - 1 : pre[i] = pad[i]
  BY <1>1, <1>5, <1>9, SMT
<1> HIDE DEF s, pre
<1>11. s # <<>> /\ Head(s) # 0
  <2>1. Len(s) \in Nat \ {0} /\ 1 \in 1..W - f + 1 /\ f + 1 - 1 = f
    BY <1>1, <1>9, <1>10
  <2>2. s # <<>> /\ Head(s) = s[1]
    BY <1>10, <2>1
  <2>3. s[1] = pad[f + 1 - 1]
    BY <1>10, <2>1
  <2> QED BY <1>9, <2>1, <2>2, <2>3
<1>12. \A k \in 1..W : pad[k] = Shift(v, m - W + k) % 10
  BY <1>3, <1>5 DEF Run
<1>13. Shift(v, m - W + f - 1) = 0
  <2> DEFINE e == m - W + f - 1
  <2>1. e \in Int /\ e - Len(pre) = m - W
    BY <1>1, <1>9, <1>10
  <2>2. ASSUME NEW i \in 1..Len(pre) PROVE pre[i] = Shift(v, e - Len(pre) + i) % 10
    <3>1. i \in 1..f - 1 /\ i \in 1..W
      BY <1>1, <1>9, <1>10
    <3>2. pre[i] = pad[i] /\ pad[i] = Shift(v, m - W + i) % 10
      BY <1>10, <1>12, <3>1
    <3> QED BY <2>1, <3>2
  <2> HIDE DEF e
  <2>3. Covers(v, pre, e)
    BY <1>6, <2>1, <2>2 DEF Covers, Run
  <2>4. Value(pre, 10) = Shift(v, e)
    BY <1>6, <1>10, <2>1, <2>3, RunValue
  <2>5. Value(pre, 10) = 0
    <3>1. \A k \in 1..Len(pre) : pre[k] = 0
      BY <1>9, <1>10
    <3>2. 10 \in Int
      OBVIOUS
    <3> QED BY <1>10, <3>1, <3>2, ValueZero
  <2> QED BY <2>4, <2>5 DEF e
<1>14. Covers(v, s, m)
  <2>1. m - Len(s) = m - W + f - 1
    BY <1>1, <1>9, <1>10
  <2>2. ASSUME NEW i \in 1..Len(s) PROVE s[i] = Shift(v, m - Len(s) + i) % 10
    <3> DEFINE k == f + i - 1
    <3>0. Len(s) = W - f + 1 /\ f \in 1..W
      BY <1>9, <1>10
    <3>1. i \in 1..W - f + 1 /\ k \in 1..W /\ m - W + k = m - Len(s) + i
      <4>1. i \in 1..W - f + 1
        BY <3>0
      <4> HIDE DEF W
      <4>2. i \in Int /\ 1 <= i /\ i <= W - f + 1 /\ W \in Int /\ f \in Int /\ 1 <= f
        BY <1>1, <3>0, <4>1
      <4>3. k \in 1..W
        BY <4>2
      <4>4. m - W + k = m - Len(s) + i
        BY <3>0, <4>2
      <4> QED BY <4>1, <4>3, <4>4
    <3>2. s[i] = pad[k]
      BY <1>10, <3>1
    <3> HIDE DEF k
    <3>3. pad[k] = Shift(v, m - W + k) % 10
      BY <1>12, <3>1
    <3> QED BY <3>1, <3>2, <3>3
  <2> QED BY <1>13, <2>1, <2>2 DEF Covers, Run
<1> QED BY <1>7, <1>10, <1>11, <1>14 DEF v, d, B

(* The part before the point: every digit of the value up to there, without a *)
(* zero in front.                                                             *)
LEMMA IntegerFacts ==
    ASSUME NEW n, IsNumeric(n), n.digits # <<>>, NEW m \in Int,
           m = Width * (n.weight - Len(n.digits)) + Width
    PROVE  /\ IntegerPart(n) \in Seq(Int) /\ IntegerPart(n) # <<>>
           /\ Head(IntegerPart(n)) = 0 => Len(IntegerPart(n)) = 1
           /\ Covers(Value(n.digits, Power(10, Width)), IntegerPart(n), m)
<1> DEFINE W == Width
           B == Power(10, W)
           u == n.digits
           v == Value(u, B)
           L == Len(u)
           w == n.weight
<1>1. u \in Seq(0..B - 1) /\ W \in Nat \ {0} /\ w \in Int
  BY NumericTyped, WidthAssumption
<1>2. L \in Nat \ {0} /\ v \in Nat
  <2>1. L \in Nat \ {0}
    BY <1>1, EmptySeq, LenProperties
  <2> QED BY <1>1, <2>1, NumericValue
<1>3. CASE w < 0
  <2>1. IntegerPart(n) = <<0>>
    BY <1>3 DEF IntegerPart
  <2>2. m \in Int /\ Shift(v, m) = 0 /\ Shift(v, m - 1) = 0
    <3>1. \A e \in Nat : e >= W * L => Shift(v, -e) = 0
      BY <1>1, NumericValue
    <3> DEFINE t == -w - 1
    <3>2. t \in Nat /\ w - L = -(t + 1) - L
      BY <1>1, <1>2, <1>3, SMTT(30)
    <3>3. \A a, b, c \in Int : a * (-(b + 1) - c) = -(a * b) - a - a * c
      BY SMT
    <3>4. m = -(W * t) - W - W * L + W
      <4>1. W \in Int /\ t \in Int /\ L \in Int /\ m = W * (w - L) + W
        BY <1>1, <1>2, <3>2
      <4> HIDE DEF t, W, L, w
      <4> QED BY <3>2, <3>3, <4>1
    <3>5. W * t \in Nat /\ W * L \in Nat
      <4> HIDE DEF t, L, W
      <4> QED BY <1>1, <1>2, <3>2, SMT
    <3> DEFINE x == W * t
               y == W * L
    <3> HIDE DEF x, y
    <3>6. m = -x - W - y + W
      BY <3>4 DEF x, y
    <3> DEFINE e == x + y
    <3>7. e \in Nat /\ e + 1 \in Nat /\ e >= y /\ e + 1 >= y /\ m = -e /\ m - 1 = -(e + 1)
      <4>1. x \in Nat /\ y \in Nat /\ W \in Int
        BY <1>1, <3>5 DEF x, y
      <4> HIDE DEF W
      <4> QED BY <3>6, <4>1
    <3> HIDE DEF e
    <3> QED BY <3>1, <3>7 DEF y
  <2>3. Covers(v, <<0>>, m)
    <3>1. Len(<<0>>) = 1 /\ <<0>>[1] = 0 /\ m - 1 + 1 = m /\ 0 % 10 = 0
      BY SMT
    <3>2. \A i \in 1..Len(<<0>>) : i = 1
      BY <3>1
    <3> HIDE DEF v
    <3> QED BY <2>2, <3>1, <3>2 DEF Covers, Run
  <2>4. <<0>> \in Seq(Int) /\ <<0>> # <<>> /\ Len(<<0>>) = 1
    OBVIOUS
  <2> QED BY <2>1, <2>3, <2>4
<1>4. CASE w >= 0
  <2> DEFINE a == AppendInt(digitAt(n, 0))
             g == [i \in 1..w |-> appendNumericPad4(digitAt(n, i))]
             ps == <<a>> \o g
             S == Int
             pos(k) == W * ((k - 1) - L) + W
  <2>1. IntegerPart(n) = FlattenSeq(ps)
    BY <1>1, <1>4 DEF IntegerPart
  <2>2. \A k \in Int : pos(k) \in Int /\ pos(k + 1) = pos(k) + W
    <3>1. \A x, y \in Int : x * (y + 1) = x * y + x /\ x * y \in Int
      BY SMT
    <3> SUFFICES ASSUME NEW k \in Int PROVE pos(k) \in Int /\ pos(k + 1) = pos(k) + W
      OBVIOUS
    <3> DEFINE y == (k - 1) - L
    <3>2. y \in Int /\ ((k + 1) - 1) - L = y + 1 /\ W \in Int
      BY <1>1, <1>2
    <3> HIDE DEF y, L, W
    <3>3. W * (y + 1) = W * y + W /\ W * y \in Int
      BY <3>1, <3>2
    <3> QED BY <3>2, <3>3 DEF y
  <2>3. a \in Seq(Int) /\ a # <<>> /\ Head(a) # 0 /\ Covers(v, a, pos(1))
    <3>1. pos(1) = W * (0 - L) + W /\ pos(1) \in Int
      <4>1. 1 - 1 = 0 /\ 1 \in Int
        OBVIOUS
      <4> QED BY <2>2, <4>1
    <3> DEFINE p == pos(1)
    <3> HIDE DEF p, pos
    <3> QED BY <3>1, AppendIntFacts DEF p
  <2>4. ASSUME NEW i \in 1..w
        PROVE  g[i] \in Seq(Int) /\ Len(g[i]) = W /\ Run(v, g[i], pos(i) + W)
    <3>1. g[i] = appendNumericPad4(digitAt(n, i)) /\ i \in Int
      BY <1>1
    <3>2. pos(i) + W = W * (i - L) + W /\ pos(i) + W \in Int
      <4>1. (i + 1) - 1 = i
        BY <3>1
      <4>2. pos(i + 1) = W * (i - L) + W
        BY <4>1
      <4> HIDE DEF pos
      <4>3. pos(i + 1) = pos(i) + W /\ pos(i) \in Int
        BY <2>2, <3>1
      <4>4. pos(i) + W \in Int
        BY <1>1, <4>3
      <4> QED BY <4>2, <4>3, <4>4
    <3> DEFINE p == pos(i) + W
    <3> HIDE DEF p, pos, g
    <3>3. digitAt(n, i) \in Nat /\ Run(v, appendNumericPad4(digitAt(n, i)), p)
      BY <3>1, <3>2, PadRun DEF p
    <3> QED BY <3>1, <3>3, PadFacts DEF p
  <2> HIDE DEF a, v, pos
  <2>5. ps \in Seq(Seq(Int)) /\ Len(ps) = w + 1 /\ ps[1] = a /\ \A i \in 1..w : ps[i + 1] = g[i]
    <3>1. g \in Seq(Seq(Int)) /\ Len(g) = w
      <4>1. \A i \in 1..w : appendNumericPad4(digitAt(n, i)) \in Seq(Int)
        BY <2>4
      <4>2. w \in Nat
        BY <1>1, <1>4
      <4> DEFINE c(i) == appendNumericPad4(digitAt(n, i))
      <4> HIDE DEF c
      <4>3. [i \in 1..w |-> c(i)] \in Seq(Seq(Int)) /\ Len([i \in 1..w |-> c(i)]) = w
        BY <4>1, <4>2 DEF c
      <4> QED BY <4>3 DEF c
    <3> HIDE DEF g, w
    <3> QED BY <2>3, <3>1
  <2> HIDE DEF g, ps, S
  <2>6. PICK F \in [0..w + 1 -> Seq(Int)] :
              /\ FlattenSeq(ps) = F[w + 1] /\ F[0] = <<>>
              /\ \A k \in 1..w + 1 : F[k] = F[k - 1] \o ps[k]
    <3>1. \E F \in [0..Len(ps) -> Seq(S)] :
              /\ FlattenSeq(ps) = F[Len(ps)] /\ F[0] = <<>>
              /\ \A k \in 1..Len(ps) : F[k] = F[k - 1] \o ps[k]
      BY <2>5, FlattenDef, ZenonT(40) DEF S
    <3> QED BY <2>5, <3>1 DEF S
  <2> DEFINE Good(s, k) == s \in Seq(Int) /\ s # <<>> /\ Head(s) # 0 /\ Covers(v, s, pos(k))
             T == {k \in Nat : k <= w => Good(F[k + 1], k + 1)}
  <2>7. 0 \in T /\ T \in SUBSET Nat
    <3>1. 1 \in 1..w + 1 /\ 0 + 1 = 1 /\ 1 - 1 = 0
      BY <1>1, <1>4
    <3>2. F[1] = <<>> \o a
      BY <2>5, <2>6, <3>1
    <3>3. F[1] = a
      BY <2>3, <3>2, ConcatEmptySeq
    <3> QED BY <2>3, <3>1, <3>3
  <2>8. ASSUME NEW k \in T PROVE k + 1 \in T
    <3> SUFFICES ASSUME k + 1 <= w PROVE Good(F[(k + 1) + 1], (k + 1) + 1)
      OBVIOUS
    <3> DEFINE i == k + 1
               s == F[i]
               t == g[i]
    <3>1. i \in 1..w /\ i + 1 \in 1..w + 1 /\ (i + 1) - 1 = i /\ i \in Int /\ i \in 0..w + 1
      BY <1>1, <1>4
    <3>2. Good(s, i)
      BY <1>1, <1>4
    <3> HIDE DEF i, T
    <3>3. F[i + 1] = s \o t
      <4>1. F[i + 1] = F[(i + 1) - 1] \o ps[i + 1]
        BY <2>6, <3>1
      <4> QED BY <2>5, <3>1, <4>1
    <3>4. t \in Seq(Int) /\ Len(t) = W /\ Run(v, t, pos(i) + W)
      BY <2>4, <3>1
    <3>5. pos(i) \in Int /\ pos(i + 1) = pos(i) + W
      BY <2>2, <3>1
    <3> HIDE DEF s, t, W
    <3>6. s \o t \in Seq(Int) /\ Covers(v, s \o t, pos(i) + W)
      BY <1>2, <3>2, <3>4, <3>5, RunConcat DEF v
    <3>7. s \o t # <<>> /\ Head(s \o t) # 0
      <4>1. s \in Seq(Int) /\ s # <<>> /\ Head(s) # 0 /\ t \in Seq(Int)
        BY <3>2, <3>4
      <4>2. Len(s) \in Nat \ {0} /\ Len(s \o t) \in Nat \ {0} /\ (s \o t)[1] = s[1]
        BY <4>1
      <4>3. Head(s \o t) = Head(s)
        BY <4>1, <4>2, <3>6
      <4> QED BY <4>1, <4>2, <4>3
    <3>8. Good(s \o t, i + 1)
      BY <3>5, <3>6, <3>7
    <3> QED BY <3>3, <3>8 DEF i
  <2>9. Good(F[w + 1], w + 1)
    <3>1. T = Nat
      <4> HIDE DEF T
      <4> QED BY <2>7, <2>8, Induction
    <3>2. w \in T
      BY <1>1, <1>4, <3>1, SMTT(30)
    <3> QED BY <1>1, <3>2
  <2>10. pos(w + 1) = m
    BY <1>1, <1>2 DEF pos
  <2> QED BY <2>1, <2>6, <2>9, <2>10 DEF v
<1> QED BY <1>1, <1>3, <1>4

(* The part after the point.                                                  *)
LEMMA FractionFacts ==
    ASSUME NEW n, IsNumeric(n), NEW m \in Int, m = Width * (n.weight - Len(n.digits)) + Width
    PROVE  /\ FractionPart(n) \in Seq(Int) /\ Len(FractionPart(n)) = n.dscale
           /\ Run(Value(n.digits, Power(10, Width)), FractionPart(n), m + n.dscale)
<1> DEFINE W == Width
           B == Power(10, W)
           u == n.digits
           v == Value(u, B)
           L == Len(u)
           w == n.weight
           ds == n.dscale
           c(k) == Shift(v, m + k) % 10
<1>1. u \in Seq(0..B - 1) /\ W \in Nat \ {0} /\ w \in Int /\ ds \in Nat
  BY NumericTyped, WidthAssumption
<1>2. L \in Nat /\ v \in Nat
  BY <1>1, LenProperties, NumericValue
<1>3. FractionPart(n) = [k \in 1..ds |-> c(k)]
  <2>1. ASSUME NEW k \in 1..ds
        PROVE  (digitAt(n, FractionIndex(w, k - 1)) \div Power(10, W - 1 - ((k - 1) % W))) % 10 = c(k)
    <3> DEFINE x == k - 1
               a == x \div W
               r == x % W
               j == w + 1 + a
               q == r + 1
    <3>1. x \in Nat /\ W \in Nat \ {0}
      BY <1>1
    <3>2. a \in Int /\ r \in Int /\ 0 <= r /\ r < W /\ x = a * W + r
      <4> HIDE DEF x, W
      <4> QED BY <3>1, SMT
    <3> HIDE DEF a, r
    <3>3. j \in Int /\ q \in 1..W /\ W - 1 - r = W - q
      BY <1>1, <3>2
    <3>4. m + k \in Int /\ m + k = W * (j - L) + q
      <4>1. \A b, d, e \in Int : b * (d + 1 + e) = b * d + b + e * b /\ b * d \in Int /\ e * b \in Int
        BY SMT
      <4> DEFINE y == w - L
      <4>2. y \in Int /\ W \in Int /\ j - L = y + 1 + a
        BY <1>1, <1>2, <3>2, SMTT(30)
      <4> HIDE DEF y, W, j, x
      <4>3. W * (j - L) = W * y + W + a * W /\ W * y \in Int /\ a * W \in Int
        BY <3>2, <4>1, <4>2
      <4>4. m = W * y + W
        BY DEF y, W
      <4> DEFINE f == W * y
                 g == a * W
      <4> HIDE DEF f, g
      <4>5. W * (j - L) = f + W + g /\ f \in Int /\ g \in Int /\ m = f + W /\ k = g + r + 1
        <5>1. k = x + 1 /\ x = g + r
          BY <3>1, <3>2 DEF x, g
        <5> QED BY <3>2, <4>3, <4>4, <5>1 DEF f, g
      <4> QED BY <3>2, <4>2, <4>5, SMTT(30)
    <3>5. FractionIndex(w, x) = j
      BY DEF FractionIndex, a
    <3> DEFINE p == m + k
    <3> HIDE DEF p, j, q
    <3>6. Shift(v, p) % 10 = (digitAt(n, j) \div Power(10, W - q)) % 10
      BY <3>3, <3>4, DigitIs DEF p
    <3> QED BY <3>3, <3>5, <3>6 DEF p, r
  <2>2. FractionPart(n)
          = [k \in 1..ds |-> (digitAt(n, FractionIndex(w, k - 1)) \div Power(10, W - 1 - ((k - 1) % W))) % 10]
    BY DEF FractionPart
  <2> DEFINE h(k) == (digitAt(n, FractionIndex(w, k - 1)) \div Power(10, W - 1 - ((k - 1) % W))) % 10
  <2>3. \A k \in 1..ds : h(k) = c(k)
    BY <2>1
  <2> HIDE DEF h, c
  <2>4. FractionPart(n) = [k \in 1..ds |-> h(k)]
    BY <2>2 DEF h
  <2> QED BY <2>3, <2>4, Zenon
<1>4. \A k \in 1..ds : c(k) \in Int
  <2> SUFFICES ASSUME NEW k \in 1..ds PROVE c(k) \in Int
    OBVIOUS
  <2> DEFINE e == m + k
  <2>1. e \in Int
    BY <1>1
  <2> HIDE DEF e, v
  <2>2. Shift(v, e) \in Nat
    BY <1>2, <2>1, ShiftStep
  <2>3. Shift(v, e) % 10 \in Int
    BY <2>2, SMT
  <2> QED BY <2>3 DEF e
<1> HIDE DEF c
<1> DEFINE s == [k \in 1..ds |-> c(k)]
<1>5. s \in Seq(Int) /\ Len(s) = ds /\ \A k \in 1..ds : s[k] = c(k)
  <2>1. s \in Seq(Int) /\ Len(s) = ds
    <3>1. ds \in Nat
      BY <1>1
    <3> HIDE DEF ds
    <3> QED BY <1>4, <3>1
  <2> QED BY <2>1, Zenon
<1> HIDE DEF s
<1>6. Run(v, s, m + ds)
  <2> SUFFICES ASSUME NEW k \in 1..Len(s)
               PROVE  s[k] = Shift(v, (m + ds) - Len(s) + k) % 10
    BY DEF Run
  <2>1. k \in 1..ds /\ (m + ds) - Len(s) + k = m + k
    BY <1>1, <1>5
  <2> HIDE DEF v
  <2>2. s[k] = Shift(v, m + k) % 10
    BY <1>5, <2>1 DEF c
  <2> QED BY <2>1, <2>2
<1> QED BY <1>3, <1>5, <1>6 DEF s

(* Nothing, shifted.                                                          *)
LEMMA ShiftZero == ASSUME NEW e \in Int PROVE Shift(0, e) = 0
<1>1. CASE e > 0
  <2> DEFINE P == Power(10, e)
  <2>1. P \in Int
    <3>1. e \in Nat /\ 10 \in Int
      BY <1>1
    <3> QED BY <3>1, PowerDef
  <2>2. Shift(0, e) = 0 * P
    BY <1>1 DEF Shift
  <2> HIDE DEF P
  <2>3. 0 * P = 0
    BY <2>1, SMT
  <2> QED BY <2>2, <2>3
<1>2. CASE ~(e > 0)
  <2> DEFINE P == Power(10, -e)
  <2>1. P \in Nat \ {0}
    <3> DEFINE x == -e
    <3>1. x \in Nat /\ 10 \in Nat \ {0}
      BY <1>2
    <3> HIDE DEF x
    <3>2. Power(10, x) \in Nat \ {0}
      BY <3>1, PowerPositive
    <3> QED BY <3>2 DEF x
  <2>2. Shift(0, e) = 0 \div P
    BY <1>2 DEF Shift
  <2> HIDE DEF P
  <2>3. 0 \in Int /\ 0 <= 0 /\ 0 < P /\ 0 * P + 0 = 0
    BY <2>1
  <2>4. (0 * P + 0) \div P = 0
    BY <2>1, <2>3, QuotientIs
  <2> QED BY <2>2, <2>3, <2>4
<1> QED BY <1>1, <1>2

(* A binary numeric.                                                          *)
LEMMA NumericFacts ==
    ASSUME NEW n, IsNumeric(n)
    PROVE  NumericDenotesItself(n)
<1> DEFINE W == Width
           B == Power(10, W)
           u == n.digits
           v == Value(u, B)
           L == Len(u)
           w == n.weight
           ds == n.dscale
           text == encodeNumericBinary(n)
           m == W * (w - L) + W
           exponent == W * (w - L + 1)
<1>1. u \in Seq(0..B - 1) /\ W \in Nat \ {0} /\ w \in Int /\ ds \in Nat /\ L \in Nat
  <2>1. u \in Seq(0..B - 1) /\ W \in Nat \ {0} /\ w \in Int /\ ds \in Nat
    BY NumericTyped, WidthAssumption
  <2> QED BY <2>1, LenProperties
<1>2. m \in Int /\ exponent = m
  <2>1. \A b, d \in Int : b * (d + 1) = b * d + b /\ b * d \in Int
    BY SMT
  <2> DEFINE y == w - L
  <2>2. y \in Int /\ W \in Int
    BY <1>1
  <2> HIDE DEF y, W
  <2>3. W * (y + 1) = W * y + W /\ W * y \in Int
    BY <2>1, <2>2
  <2>4. W * y + W \in Int
    BY <2>2, <2>3
  <2> QED BY <2>3, <2>4 DEF y
<1>3. CASE n.sign \notin {"pos", "neg"}
  <2>1. text = n.sign
    BY <1>3 DEF encodeNumericBinary
  <2> QED BY <1>3, <2>1 DEF NumericDenotesItself
<1> HIDE DEF m, exponent
<1>4. CASE n.sign \in {"pos", "neg"} /\ u = <<>>
  <2>1. text = [neg |-> FALSE, int |-> <<0>>, frac |-> Zeros(ds)]
    BY <1>4 DEF encodeNumericBinary
  <2> DEFINE z == Zeros(ds)
             s == <<0>> \o z
  <2>2. z \in Seq(Int) /\ Len(z) = ds /\ \A k \in 1..ds : z[k] = 0
    BY <1>1 DEF Zeros
  <2> HIDE DEF z
  <2>3. s \in Seq(Int) /\ \A k \in 1..Len(s) : s[k] = 0
    BY <1>1, <2>2
  <2>4. Value(s, 10) = 0
    <3>1. 10 \in Int
      OBVIOUS
    <3> HIDE DEF s
    <3> QED BY <2>3, <3>1, ValueZero
  <2>5. v = 0
    <3>1. u \in Seq(Int) /\ \A k \in 1..Len(u) : u[k] = 0
      BY <1>4
    <3>2. B \in Int
      <4>1. 10 \in Int /\ W \in Nat
        BY <1>1
      <4> QED BY <4>1, PowerDef
    <3> HIDE DEF B
    <3> QED BY <3>1, <3>2, ValueZero
  <2>6. Shift(v, exponent + ds) = 0
    <3>1. exponent + ds \in Int
      BY <1>1, <1>2
    <3> QED BY <2>5, <3>1, ShiftZero
  <2>7. text.neg = FALSE /\ text.int = <<0>> /\ text.frac = z
    BY <2>1 DEF z
  <2>8. <<0>> # <<>> /\ Len(<<0>>) = 1
    OBVIOUS
  <2> HIDE DEF text
  <2> QED BY <1>4, <2>2, <2>4, <2>6, <2>7, <2>8 DEF NumericDenotesItself, exponent, text
<1>5. CASE n.sign \in {"pos", "neg"} /\ u # <<>>
  <2> DEFINE i == IntegerPart(n)
             f == FractionPart(n)
  <2>1. text = [neg |-> n.sign = "neg", int |-> i, frac |-> f]
    BY <1>5 DEF encodeNumericBinary
  <2>2. i \in Seq(Int) /\ i # <<>> /\ (Head(i) = 0 => Len(i) = 1) /\ Covers(v, i, m)
    BY <1>2, <1>5, IntegerFacts DEF m
  <2>3. f \in Seq(Int) /\ Len(f) = ds /\ Run(v, f, m + ds)
    BY <1>2, FractionFacts DEF m
  <2> HIDE DEF i, f, v
  <2>4. v \in Nat
    BY <1>1, NumericValue DEF v
  <2>5. i \o f \in Seq(Int) /\ Covers(v, i \o f, m + ds)
    BY <1>2, <2>2, <2>3, <2>4, RunConcat
  <2> DEFINE s == i \o f
             e == m + ds
  <2>6. e \in Int
    BY <1>1, <1>2
  <2> HIDE DEF s, e
  <2>7. Value(s, 10) = Shift(v, e)
    BY <2>4, <2>5, <2>6, RunValue DEF s, e
  <2>8. text.int = i /\ text.frac = f /\ (text.neg <=> n.sign = "neg")
    <3> HIDE DEF text
    <3>1. text.int = i /\ text.frac = f
      BY <2>1
    <3>2. text.neg = (n.sign = "neg")
      BY <2>1
    <3> QED BY <3>1, <3>2
  <2>9. Value(i \o f, 10) = Shift(v, exponent + ds)
    BY <1>2, <2>7 DEF s, e
  <2> HIDE DEF text
  <2> QED BY <1>5, <2>2, <2>3, <2>8, <2>9 DEF NumericDenotesItself, exponent, text, v
<1> QED BY <1>3, <1>4, <1>5

(* The loop of validFloat has passed position k: a digit, or the first point. *)
Passed(b, k) ==
    b[k] \in Digit \/ (b[k] = "." /\ \A j \in AfterSign(b)..k - 1 : b[j] # ".")

(* Where the loop stops.                                                      *)
LEMMA StopIs ==
    ASSUME NEW b \in Seq(STRING), b # <<>>
    PROVE  /\ AfterSign(b) \in {1, 2} /\ Len(b) \in Nat \ {0}
           /\ ScanStop(b) \in AfterSign(b)..Len(b) + 1
           /\ \A k \in AfterSign(b)..ScanStop(b) - 1 : Passed(b, k)
           /\ ScanStop(b) <= Len(b) => ~Passed(b, ScanStop(b))
<1> DEFINE a == AfterSign(b)
           L == Len(b)
           stops == {k \in a..L : b[k] \notin Digit
                        /\ ~(b[k] = "." /\ \A j \in a..k - 1 : b[j] # ".")} \cup {L + 1}
           e == ScanStop(b)
<1>1. a \in {1, 2} /\ L \in Nat \ {0}
  <2>1. a \in {1, 2}
    BY DEF AfterSign
  <2>2. L \in Nat \ {0}
    BY EmptySeq, LenProperties
  <2> QED BY <2>1, <2>2
<1>2. e = CHOOSE k \in stops : \A j \in stops : k <= j
  BY Zenon DEF ScanStop
<1>3. \A k : k \in stops <=> (k \in a..L /\ ~Passed(b, k)) \/ k = L + 1
  BY DEF Passed
<1> HIDE DEF stops, e
<1>4. e \in stops /\ \A j \in stops : e <= j
  <2>1. stops \in SUBSET Nat /\ stops # {}
    <3> HIDE DEF a, L
    <3>1. \A k \in stops : k \in Nat
      BY <1>1, <1>3
    <3>2. L + 1 \in stops
      BY <1>3
    <3> QED BY <3>1, <3>2
  <2>2. PICK k \in stops : \A j \in stops : k <= j
    BY <2>1, LeastNat
  <2> QED BY <1>2, <2>2, Zenon
<1> HIDE DEF a, L
<1>5. e \in a..L + 1 /\ (e <= L => ~Passed(b, e))
  <2>1. (e \in a..L /\ ~Passed(b, e)) \/ e = L + 1
    BY <1>3, <1>4
  <2>2. L + 1 \in a..L + 1 /\ ~(L + 1 <= L)
    BY <1>1
  <2>3. e \in a..L => e \in a..L + 1
    BY <1>1
  <2> QED BY <2>1, <2>2, <2>3
<1>6. ASSUME NEW k \in a..e - 1 PROVE Passed(b, k)
  <2>1. k \in a..L /\ k < e
    BY <1>1, <1>5
  <2>2. k \notin stops
    <3> SUFFICES ASSUME k \in stops PROVE FALSE
      OBVIOUS
    <3>1. e <= k
      BY <1>4
    <3> QED BY <1>1, <1>5, <2>1, <3>1
  <2> QED BY <1>3, <2>1, <2>2
<1> QED BY <1>1, <1>5, <1>6 DEF a, L, e

(* Nothing but the loop stops where it does.                                  *)
LEMMA StopAt ==
    ASSUME NEW b \in Seq(STRING), b # <<>>, NEW m \in Int,
           AfterSign(b) <= m, m <= Len(b) + 1,
           \A k \in AfterSign(b)..m - 1 : Passed(b, k), m <= Len(b) => ~Passed(b, m)
    PROVE  ScanStop(b) = m
<1> DEFINE a == AfterSign(b)
           L == Len(b)
           e == ScanStop(b)
<1>1. /\ a \in {1, 2} /\ L \in Nat \ {0} /\ e \in a..L + 1
      /\ (\A k \in a..e - 1 : Passed(b, k)) /\ (e <= L => ~Passed(b, e))
  BY StopIs
<1>2. a <= m /\ m <= L + 1 /\ (\A k \in a..m - 1 : Passed(b, k)) /\ (m <= L => ~Passed(b, m))
  OBVIOUS
<1> HIDE DEF a, L, e
<1>3. CASE e < m
  <2>1. e \in a..m - 1 /\ e <= L
    BY <1>1, <1>2, <1>3
  <2> QED BY <1>1, <1>2, <2>1
<1>4. CASE m < e
  <2>1. m \in a..e - 1 /\ m <= L
    BY <1>1, <1>2, <1>4
  <2> QED BY <1>1, <1>2, <2>1
<1>5. CASE e = m
  BY <1>5 DEF e
<1> QED BY <1>1, <1>3, <1>4, <1>5

(* The signs, the digits, the point and the letters are different.            *)
LEMMA Letters ==
    /\ \A c \in Digit : c \notin Sign /\ c \notin Exp /\ c # "." /\ c # "N" /\ c # "I"
    /\ \A c \in Sign : c \notin Exp /\ c # "." /\ c # "N" /\ c # "I"
    /\ \A c \in Exp : c # "."
    /\ "-" \in Sign
BY DEF Digit, Sign, Exp

(* A text that the loop passes up to an exponent or the end is valid.         *)
LEMMA ValidIs ==
    ASSUME NEW b \in Seq(STRING), b # <<>>, NEW m \in Int,
           AfterSign(b) <= m, m <= Len(b), NEW d \in AfterSign(b)..m, b[d] \in Digit,
           \A k \in AfterSign(b)..m : Passed(b, k), ExponentShape(b, m + 1)
    PROVE  validFloat(b)
<1> DEFINE a == AfterSign(b)
           L == Len(b)
           e == m + 1
<1>1. a \in {1, 2} /\ L \in Nat \ {0}
  BY StopIs
<1>2. /\ a <= m /\ m <= L /\ d \in a..m /\ b[d] \in Digit /\ (\A k \in a..m : Passed(b, k)) /\ e \in Int
      /\ a..e - 1 = a..m /\ e <= L + 1 /\ a <= e
  BY <1>1
<1>3. e <= L => e < L /\ b[e] \in Exp /\ (Digits(b, e + 1, L) \/ (b[e + 1] \in Sign /\ Digits(b, e + 2, L)))
  BY <1>1 DEF ExponentShape
<1> HIDE DEF e
<1>4. ScanStop(b) = e
  <2>1. e <= L => ~Passed(b, e)
    BY <1>3, Letters DEF Passed
  <2> QED BY <1>2, <2>1, StopAt
<1> HIDE DEF a, L
<1>5. \E k \in a..e - 1 : b[k] \in Digit
  BY <1>2
<1>6. ASSUME e <= L PROVE ValidExponent(b, e)
  <2>1. e + 1 <= L /\ e + 2 = (e + 1) + 1
    BY <1>1, <1>2, <1>3, <1>6
  <2>2. CASE b[e + 1] \in Sign
    <3>1. ~Digits(b, e + 1, L)
      <4>1. e + 1 \in e + 1..L
        BY <1>1, <1>2, <2>1
      <4>2. b[e + 1] \notin Digit
        BY <2>2, Letters
      <4> QED BY <4>1, <4>2 DEF Digits
    <3>2. Digits(b, e + 2, L)
      BY <1>3, <1>6, <3>1
    <3> QED BY <2>2, <3>2 DEF ValidExponent, Digits, L
  <2>3. CASE b[e + 1] \notin Sign
    <3>1. Digits(b, e + 1, L)
      BY <1>3, <1>6, <2>3
    <3> QED BY <2>3, <3>1 DEF ValidExponent, Digits, L
  <2> QED BY <2>2, <2>3
<1> QED BY <1>3, <1>4, <1>5, <1>6 DEF validFloat, a, L
(* A number of validFloat's comment behind its sign: digits and one point up  *)
(* to m, then an exponent or the end.                                         *)
Mantissa(b, m) ==
    /\ \A k \in AfterSign(b)..m : b[k] \in Digit \cup {"."}
    /\ \E k \in AfterSign(b)..m : b[k] \in Digit
    /\ \A j, k \in AfterSign(b)..m : b[j] = "." /\ b[k] = "." => j = k
    /\ ExponentShape(b, m + 1)

(* Such a number begins where its sign ends.                                  *)
LEMMA LooseIs ==
    ASSUME NEW b \in Seq(STRING)
    PROVE  LooseNumber(b) <=> b # <<>> /\ \E m \in AfterSign(b)..Len(b) : Mantissa(b, m)
<1> DEFINE L == Len(b)
           a == AfterSign(b)
<1>1. ASSUME LooseNumber(b) PROVE b # <<>> /\ \E m \in a..L : Mantissa(b, m)
  <2>1. PICK i \in {1, 2} :
          /\ i = 2 => b # <<>> /\ b[1] \in Sign
          /\ \E m \in i..L :
              /\ \A k \in i..m : b[k] \in Digit \cup {"."}
              /\ \E k \in i..m : b[k] \in Digit
              /\ \A j, k \in i..m : b[j] = "." /\ b[k] = "." => j = k
              /\ ExponentShape(b, m + 1)
    BY <1>1, Zenon DEF LooseNumber
  <2>2. PICK m \in i..L :
              /\ \A k \in i..m : b[k] \in Digit \cup {"."}
              /\ \E k \in i..m : b[k] \in Digit
              /\ \A j, k \in i..m : b[j] = "." /\ b[k] = "." => j = k
              /\ ExponentShape(b, m + 1)
    BY <2>1
  <2>3. L \in Nat /\ m \in Int /\ i <= m /\ m <= L /\ i \in Int
    BY LenProperties
  <2>4. b # <<>>
    BY <2>3
  <2>5. a = i
    <3>1. CASE i = 1
      <4>1. 1 \in i..m
        BY <2>3, <3>1
      <4>2. b[1] \notin Sign
        BY <2>2, <4>1, Letters
      <4> QED BY <3>1, <4>2 DEF AfterSign
    <3>2. CASE i = 2
      BY <2>1, <3>2 DEF AfterSign
    <3> QED BY <3>1, <3>2
  <2>6. Mantissa(b, m)
    BY <2>2, <2>5, Zenon DEF Mantissa
  <2> QED BY <2>4, <2>5, <2>6
<1>2. ASSUME b # <<>>, NEW m \in a..L, Mantissa(b, m) PROVE LooseNumber(b)
  <2>1. a \in {1, 2} /\ (a = 2 => b[1] \in Sign)
    BY DEF AfterSign
  <2>2. /\ \A k \in a..m : b[k] \in Digit \cup {"."}
        /\ \E k \in a..m : b[k] \in Digit
        /\ \A j, k \in a..m : b[j] = "." /\ b[k] = "." => j = k
        /\ ExponentShape(b, m + 1)
    BY <1>2, Zenon DEF Mantissa
  <2> HIDE DEF a
  <2> QED BY <1>2, <2>1, <2>2, Zenon DEF LooseNumber
<1> QED BY <1>1, <1>2

(* The loop and the exponent of validFloat take these numbers and no others.  *)
LEMMA ValidFloatIs ==
    ASSUME NEW b \in Seq(STRING)
    PROVE  validFloat(b) <=> LooseNumber(b)
<1> DEFINE L == Len(b)
           a == AfterSign(b)
<1>1. ASSUME b # <<>>, NEW m \in a..L, Mantissa(b, m) PROVE validFloat(b)
  <2>1. a \in {1, 2} /\ L \in Nat \ {0} /\ m \in Int /\ a <= m /\ m <= L
    BY <1>1, StopIs
  <2>2. PICK d \in a..m : b[d] \in Digit
    BY <1>1 DEF Mantissa
  <2>3. ASSUME NEW k \in a..m PROVE Passed(b, k)
    <3>1. b[k] \in Digit \cup {"."}
      BY <1>1, <2>3 DEF Mantissa
    <3>2. ASSUME b[k] = ".", NEW j \in a..k - 1, b[j] = "." PROVE FALSE
      <4> HIDE DEF a, L
      <4>1. j \in a..m /\ j # k
        BY <2>1, <2>3, <3>2
      <4>2. j = k
        BY <1>1, <2>3, <3>2, <4>1, Zenon DEF Mantissa, a
      <4> QED BY <4>1, <4>2
    <3> QED BY <3>1, <3>2 DEF Passed
  <2>4. ExponentShape(b, m + 1)
    BY <1>1 DEF Mantissa
  <2> QED BY <1>1, <2>1, <2>2, <2>3, <2>4, ValidIs
<1>2. ASSUME validFloat(b) PROVE b # <<>> /\ \E m \in a..L : Mantissa(b, m)
  <2> DEFINE e == ScanStop(b)
             m == e - 1
  <2>0. b # <<>>
    BY <1>2 DEF validFloat
  <2>1. /\ a \in {1, 2} /\ L \in Nat \ {0} /\ e \in a..L + 1
        /\ \A k \in a..e - 1 : Passed(b, k)
    BY <2>0, StopIs
  <2>2. (\E d \in a..e - 1 : b[d] \in Digit)
        /\ (e <= L => b[e] \in Exp /\ e < L /\ ValidExponent(b, e))
    BY <1>2, Zenon DEF validFloat
  <2>3. \A k \in a..m : b[k] \in Digit \/ (b[k] = "." /\ \A j \in a..k - 1 : b[j] # ".")
    BY <2>1, Zenon DEF Passed
  <2>4. ExponentShape(b, e)
    <3>1. CASE e = L + 1
      BY <3>1 DEF ExponentShape
    <3>2. CASE e <= L
      <4>1. CASE b[e + 1] \in Sign
        <5>1. Digits(b, e + 2, Len(b))
          BY <2>2, <3>2, <4>1 DEF ValidExponent, Digits
        <5> QED BY <2>2, <3>2, <4>1, <5>1, Zenon DEF ExponentShape
      <4>2. CASE b[e + 1] \notin Sign
        <5>1. Digits(b, e + 1, Len(b))
          BY <2>2, <3>2, <4>2 DEF ValidExponent, Digits
        <5> QED BY <2>2, <3>2, <5>1, Zenon DEF ExponentShape
      <4> QED BY <4>1, <4>2
    <3> QED
      <4> HIDE DEF e, a, L
      <4> QED BY <2>1, <3>1, <3>2
  <2> HIDE DEF e, a, L
  <2>5. m \in a..L /\ m + 1 = e
    <3>1. PICK d \in a..e - 1 : b[d] \in Digit
      BY <2>2
    <3> QED BY <2>1, <3>1
  <2>6. ASSUME NEW j \in a..m, NEW k \in a..m, b[j] = ".", b[k] = "." PROVE j = k
    <3>1. b[j] \notin Digit /\ b[k] \notin Digit
      BY <2>6, Letters
    <3>2. (\A i \in a..j - 1 : b[i] # ".") /\ (\A i \in a..k - 1 : b[i] # ".")
      BY <2>3, <2>6, <3>1, Zenon
    <3>3. ~(j < k)
      <4> SUFFICES ASSUME j < k PROVE FALSE
        OBVIOUS
      <4>1. j \in a..k - 1
        BY <2>1, <2>5
      <4> QED BY <2>6, <3>2, <4>1
    <3>4. ~(k < j)
      <4> SUFFICES ASSUME k < j PROVE FALSE
        OBVIOUS
      <4>1. k \in a..j - 1
        BY <2>1, <2>5
      <4> QED BY <2>6, <3>2, <4>1
    <3> QED BY <2>1, <3>3, <3>4
  <2>7. Mantissa(b, m)
    <3>1. \A k \in a..m : b[k] \in Digit \cup {"."}
      BY <2>3
    <3>2. \E k \in a..m : b[k] \in Digit
      BY <2>2
    <3>3. ExponentShape(b, m + 1)
      BY <2>4, <2>5
    <3> HIDE DEF m
    <3> QED BY <2>6, <3>1, <3>2, <3>3 DEF Mantissa, a
  <2> QED BY <2>0, <2>5, <2>7
<1> QED BY <1>1, <1>2, LooseIs

(* None of them is one of the special numbers.                                *)
LEMMA LooseIsFinite ==
    ASSUME NEW b \in Seq(STRING), LooseNumber(b)
    PROVE  ~isNonFiniteFloat(b) /\ b # <<"N", "a", "N">>
<1>0. PICK m \in AfterSign(b)..Len(b) : b # <<>> /\ Mantissa(b, m)
  BY LooseIs
<1>1. AfterSign(b) \in {1, 2} /\ b # <<>>
  BY <1>0, StopIs
<1>2. b[AfterSign(b)] \in Digit \cup {"."}
  <2>1. AfterSign(b) \in AfterSign(b)..m
    BY <1>1
  <2> QED BY <1>0, <2>1 DEF Mantissa
<1>3. \A c \in Digit \cup {"."} \cup Sign : c # "N" /\ c # "I"
  BY Letters
<1>4. b[1] # "N" /\ b[1] # "I"
  <2>1. CASE b[1] \in Sign
    BY <1>3, <2>1
  <2>2. CASE b[1] \notin Sign
    BY <1>2, <1>3, <2>2 DEF AfterSign
  <2> QED BY <2>1, <2>2
<1>5. ASSUME b[1] = "-" PROVE b[2] # "I"
  <2>1. AfterSign(b) = 2
    BY <1>5, Letters DEF AfterSign
  <2> QED BY <1>2, <1>3, <2>1
<1>6. b # <<"N", "a", "N">>
  BY <1>4
<1> QED BY <1>4, <1>5, <1>6 DEF isNonFiniteFloat

(* The integers are those without a point and without an exponent.            *)
LEMMA ValidIntIs ==
    ASSUME NEW b \in Seq(STRING)
    PROVE  validInt(b) <=> LooseNumber(b) /\ \A k \in 1..Len(b) : b[k] \in Digit \cup Sign
<1> DEFINE L == Len(b)
           a == AfterSign(b)
<1>1. ASSUME validInt(b) PROVE LooseNumber(b) /\ \A k \in 1..L : b[k] \in Digit \cup Sign
  <2>1. b # <<>> /\ a <= L /\ \A i \in a..L : b[i] \in Digit
    BY <1>1 DEF validInt
  <2>2. a \in {1, 2} /\ L \in Nat \ {0} /\ (a = 2 => b[1] \in Sign)
    BY <2>1, StopIs DEF AfterSign
  <2>3. ExponentShape(b, L + 1)
    BY DEF ExponentShape
  <2>4. \A i \in a..L : b[i] # "."
    BY <2>1, Letters
  <2>5. L \in a..L /\ a \in a..L
    <3> HIDE DEF a, L
    <3> QED BY <2>1, <2>2
  <2>6. Mantissa(b, L)
    <3>1. \A k \in a..L : b[k] \in Digit \cup {"."}
      BY <2>1
    <3>2. \E k \in a..L : b[k] \in Digit
      BY <2>1, <2>5
    <3> QED BY <2>3, <2>4, <3>1, <3>2, Zenon DEF Mantissa
  <2>7. ASSUME NEW k \in 1..L PROVE b[k] \in Digit \cup Sign
    <3> HIDE DEF a, L
    <3>1. k \in a..L \/ (k = 1 /\ a = 2)
      BY <2>2
    <3> QED BY <2>1, <2>2, <3>1
  <2> QED BY <2>1, <2>5, <2>6, <2>7, LooseIs
<1>2. ASSUME LooseNumber(b), \A k \in 1..L : b[k] \in Digit \cup Sign PROVE validInt(b)
  <2>1. b # <<>>
    BY <1>2, LooseIs
  <2>2. PICK m \in a..L : Mantissa(b, m)
    BY <1>2, LooseIs
  <2>3. a \in {1, 2} /\ L \in Nat \ {0} /\ m \in Int /\ a <= m /\ m <= L
    BY <2>1, <2>2, StopIs
  <2>4. \A k \in a..m : b[k] \in Digit \cup {"."}
    BY <2>2, Zenon DEF Mantissa
  <2>5. ExponentShape(b, m + 1)
    BY <2>2 DEF Mantissa
  <2>6. m = L
    <3> SUFFICES ASSUME m # L PROVE FALSE
      OBVIOUS
    <3>1. m + 1 \in 1..L /\ ~(m + 1 = L + 1)
      <4> HIDE DEF a, L
      <4> QED BY <2>3
    <3>2. b[m + 1] \notin Exp
      BY <1>2, <3>1, Letters
    <3> QED BY <2>5, <3>1, <3>2, Zenon DEF ExponentShape
  <2>7. ASSUME NEW k \in a..L PROVE b[k] \in Digit
    <3>1. k \in 1..L /\ k \in a..m
      <4> HIDE DEF a, L
      <4> QED BY <2>3, <2>6
    <3>2. b[k] # "." \/ b[k] \notin Sign
      BY Letters
    <3>3. "." \notin Digit \cup Sign
      BY Letters
    <3> QED BY <1>2, <2>4, <3>1, <3>3
  <2> QED BY <2>1, <2>3, <2>7 DEF validInt
<1> QED BY <1>1, <1>2

(* There is no point in an exponent.                                          *)
LEMMA ExponentHasNoPoint ==
    ASSUME NEW b \in Seq(STRING), NEW e \in Int, ExponentShape(b, e), NEW k \in e..Len(b)
    PROVE  b[k] # "." /\ b[e] \notin Digit
<1> DEFINE L == Len(b)
<1>1. L \in Nat /\ ~(e = L + 1)
  BY LenProperties
<1>2. /\ b[e] \in Exp
      /\ Digits(b, e + 1, L) \/ (b[e + 1] \in Sign /\ Digits(b, e + 2, L))
  BY <1>1 DEF ExponentShape
<1>3. b[e] # "." /\ b[e] \notin Digit
  BY <1>2, Letters
<1> HIDE DEF L
<1>4. ASSUME k # e PROVE b[k] # "."
  <2>1. k \in e + 1..L /\ (k = e + 1 \/ k \in e + 2..L)
    BY <1>1, <1>4 DEF L
  <2>2. CASE Digits(b, e + 1, L)
    BY <2>1, <2>2, Letters DEF Digits
  <2>3. CASE b[e + 1] \in Sign /\ Digits(b, e + 2, L)
    BY <2>1, <2>3, Letters DEF Digits
  <2> QED BY <1>2, <2>2, <2>3
<1> QED BY <1>3, <1>4

(* A JSON number: its sign, and its digits with or without a point.           *)
JSONShape(b, i, j, m) ==
    /\ i = 2 => b[1] = "-"
    /\ i <= j /\ j <= m /\ m <= Len(b)
    /\ \A k \in i..j : b[k] \in Digit
    /\ b[i] = "0" => i = j
    /\ ExponentShape(b, m + 1)
    /\ \/ m = j
       \/ j + 2 <= m /\ b[j + 1] = "." /\ \A k \in j + 2..m : b[k] \in Digit

(* A JSON number has that shape.                                              *)
LEMMA JSONIs ==
    ASSUME NEW b \in Seq(STRING)
    PROVE  JSONNumber(b) <=> \E i \in {1, 2}, j \in Nat, m \in Nat : JSONShape(b, i, j, m)
<1> DEFINE L == Len(b)
<1>0. L \in Nat /\ (L = 0 => b = <<>>)
  BY LenProperties, EmptySeq
<1>1. ASSUME JSONNumber(b) PROVE \E i \in {1, 2}, j \in Nat, m \in Nat : JSONShape(b, i, j, m)
  <2>1. PICK i \in {1, 2} :
          /\ i = 2 => b # <<>> /\ b[1] = "-"
          /\ \E j \in i..L :
              /\ Digits(b, i, j) /\ (b[i] = "0" => i = j)
              /\ \/ ExponentShape(b, j + 1)
                 \/ \E k \in j + 2 .. L :
                      b[j + 1] = "." /\ Digits(b, j + 2, k) /\ ExponentShape(b, k + 1)
    BY <1>1 DEF JSONNumber
  <2>2. PICK j \in i..L :
          /\ Digits(b, i, j) /\ (b[i] = "0" => i = j)
          /\ \/ ExponentShape(b, j + 1)
             \/ \E k \in j + 2 .. L :
                  b[j + 1] = "." /\ Digits(b, j + 2, k) /\ ExponentShape(b, k + 1)
    BY <2>1
  <2> HIDE DEF L
  <2>3. i \in {1, 2} /\ j \in Nat /\ i <= j /\ j <= L
    BY <1>0
  <2>4. CASE ExponentShape(b, j + 1)
    <3>1. JSONShape(b, i, j, j)
      BY <1>0, <2>1, <2>2, <2>3, <2>4 DEF JSONShape, Digits, L
    <3> QED BY <2>3, <3>1
  <2>5. CASE \E k \in j + 2 .. L :
               b[j + 1] = "." /\ Digits(b, j + 2, k) /\ ExponentShape(b, k + 1)
    <3>1. PICK m \in j + 2..L : b[j + 1] = "." /\ Digits(b, j + 2, m) /\ ExponentShape(b, m + 1)
      BY <2>5
    <3>2. m \in Nat /\ j <= m /\ m <= L /\ j + 2 <= m
      BY <1>0, <2>3
    <3>3. JSONShape(b, i, j, m)
      BY <2>1, <2>2, <2>3, <3>1, <3>2 DEF JSONShape, Digits, L
    <3> QED BY <2>3, <3>2, <3>3
  <2> QED BY <2>2, <2>4, <2>5
<1>2. ASSUME NEW i \in {1, 2}, NEW j \in Nat, NEW m \in Nat, JSONShape(b, i, j, m)
      PROVE  JSONNumber(b)
  <2>1. /\ i = 2 => b[1] = "-"
        /\ i <= j /\ j <= m /\ m <= L
        /\ \A k \in i..j : b[k] \in Digit
        /\ b[i] = "0" => i = j
        /\ ExponentShape(b, m + 1)
        /\ \/ m = j
           \/ j + 2 <= m /\ b[j + 1] = "." /\ \A k \in j + 2..m : b[k] \in Digit
    BY <1>2 DEF JSONShape
  <2> HIDE DEF L
  <2>2. b # <<>>
    BY <1>0, <2>1 DEF L
  <2>3. j \in i..L /\ Digits(b, i, j)
    BY <1>0, <2>1 DEF Digits
  <2>4. ExponentShape(b, j + 1)
        \/ \E k \in j + 2 .. L :
             b[j + 1] = "." /\ Digits(b, j + 2, k) /\ ExponentShape(b, k + 1)
    <3>1. CASE m = j
      BY <2>1, <3>1
    <3>2. CASE j + 2 <= m /\ b[j + 1] = "." /\ \A k \in j + 2..m : b[k] \in Digit
      <4>1. m \in j + 2..L
        BY <1>0, <2>1, <3>2
      <4> QED BY <2>1, <3>2, <4>1 DEF Digits
    <3> QED BY <2>1, <3>1, <3>2
  <2>5. /\ i = 2 => b # <<>> /\ b[1] = "-"
        /\ \E n \in i..Len(b) :
            /\ Digits(b, i, n) /\ (b[i] = "0" => i = n)
            /\ \/ ExponentShape(b, n + 1)
               \/ \E k \in n + 2 .. Len(b) :
                    b[n + 1] = "." /\ Digits(b, n + 2, k) /\ ExponentShape(b, k + 1)
    BY <2>1, <2>2, <2>3, <2>4, Zenon DEF L
  <2> QED BY <2>5, Zenon DEF JSONNumber
<1> QED BY <1>1, <1>2

(* JSON's numbers are the loose ones without what Lax names.                  *)
LEMMA JSONIsLoose ==
    ASSUME NEW b \in Seq(STRING), JSONNumber(b)
    PROVE  LooseNumber(b) /\ ~Lax(b)
<1> DEFINE L == Len(b)
<1>1. PICK i \in {1, 2}, j \in Nat, m \in Nat : JSONShape(b, i, j, m)
  BY JSONIs
<1>2. /\ i = 2 => b[1] = "-"
      /\ i <= j /\ j <= m /\ m <= L
      /\ \A k \in i..j : b[k] \in Digit
      /\ b[i] = "0" => i = j
      /\ ExponentShape(b, m + 1)
      /\ \/ m = j
         \/ j + 2 <= m /\ b[j + 1] = "." /\ \A k \in j + 2..m : b[k] \in Digit
  BY <1>1 DEF JSONShape
<1>3. L \in Nat /\ i \in Int
  BY LenProperties
<1> HIDE DEF L
<1>4. b # <<>>
  BY <1>2, <1>3 DEF L
<1>5. i \in i..j
  BY <1>2, <1>3
<1>6. AfterSign(b) = i
  <2>1. CASE i = 1
    <3>1. b[1] \notin Sign
      BY <1>2, <1>5, <2>1, Letters
    <3> QED BY <2>1, <3>1 DEF AfterSign
  <2>2. CASE i = 2
    BY <1>2, <2>2, Letters DEF AfterSign
  <2> QED BY <2>1, <2>2
<1>7. ASSUME NEW k \in 1..L, b[k] = "."
      PROVE  j + 2 <= m /\ k = j + 1 /\ \A n \in j + 2..m : b[n] \in Digit
  <2>1. k \notin i..j
    BY <1>2, <1>7, Letters
  <2>2. ~(k < i)
    <3> SUFFICES ASSUME k < i PROVE FALSE
      OBVIOUS
    <3>1. i = 2 /\ k = 1
      BY <1>2
    <3> QED BY <1>2, <1>7, <3>1
  <2>3. k \notin m + 1..L
    <3> SUFFICES ASSUME k \in m + 1..L PROVE FALSE
      OBVIOUS
    <3>1. m + 1 \in Int
      OBVIOUS
    <3> QED BY <1>2, <1>7, <3>1, ExponentHasNoPoint DEF L
  <2>4. k \in j + 1..m
    BY <1>2, <1>3, <2>1, <2>2, <2>3
  <2>5. j + 2 <= m /\ b[j + 1] = "." /\ \A n \in j + 2..m : b[n] \in Digit
    BY <1>2, <2>4
  <2>6. k \notin j + 2..m
    BY <1>7, <2>5, Letters
  <2> QED BY <1>2, <2>4, <2>5, <2>6
<1>8. Mantissa(b, m)
  <2>1. ASSUME NEW k \in i..m PROVE b[k] \in Digit \cup {"."}
    <3>1. k \in i..j \/ (j + 2 <= m /\ k = j + 1) \/ (j + 2 <= m /\ k \in j + 2..m) \/ m = j
      BY <1>2, <1>3
    <3>2. CASE m = j
      BY <1>2, <3>2
    <3>3. CASE j + 2 <= m /\ b[j + 1] = "." /\ \A n \in j + 2..m : b[n] \in Digit
      <4>1. k \in i..j \/ k = j + 1 \/ k \in j + 2..m
        BY <1>2, <1>3, <3>3
      <4> QED BY <1>2, <3>3, <4>1
    <3> QED BY <1>2, <3>2, <3>3
  <2>2. \E k \in i..m : b[k] \in Digit
    <3>1. i \in i..m
      BY <1>2, <1>3
    <3> QED BY <1>2, <1>5, <3>1
  <2>3. ASSUME NEW p \in i..m, NEW q \in i..m, b[p] = ".", b[q] = "." PROVE p = q
    <3>1. p \in 1..L /\ q \in 1..L
      BY <1>2, <1>3
    <3>2. p = j + 1
      BY <1>7, <2>3, <3>1
    <3>3. q = j + 1
      BY <1>7, <2>3, <3>1
    <3> QED BY <3>2, <3>3
  <2> QED BY <1>2, <1>6, <2>1, <2>2, <2>3 DEF Mantissa
<1>9. LooseNumber(b)
  <2>1. m \in AfterSign(b)..Len(b)
    BY <1>2, <1>3, <1>6 DEF L
  <2> QED BY <1>4, <1>8, <2>1, LooseIs
<1>10. ~(b[1] = "+")
  <2>1. CASE i = 1
    <3>1. "+" \notin Digit
      BY DEF Digit
    <3> QED BY <1>2, <1>5, <2>1, <3>1
  <2>2. CASE i = 2
    BY <1>2, <2>2
  <2> QED BY <2>1, <2>2
<1>11. ASSUME NEW k \in 1..L - 1, b[k] = "0", b[k + 1] \in Digit, k = 1 \/ (k = 2 /\ b[1] \in Sign)
       PROVE  FALSE
  <2>1. k = i
    <3>1. CASE i = 1
      <4>1. b[1] \notin Sign
        BY <1>2, <1>5, <3>1, Letters
      <4> QED BY <1>11, <3>1, <4>1
    <3>2. CASE i = 2
      <4>1. b[1] # "0"
        BY <1>2, <3>2
      <4> QED BY <1>11, <3>2, <4>1
    <3> QED BY <3>1, <3>2
  <2>2. j = k
    BY <1>2, <1>11, <2>1
  <2>3. CASE m = j
    <3>1. m + 1 \in Int /\ m + 1 \in m + 1..Len(b)
      BY <1>2, <1>3, <2>2, <2>3 DEF L
    <3> QED BY <1>2, <1>11, <2>2, <2>3, <3>1, ExponentHasNoPoint
  <2>4. CASE b[j + 1] = "."
    BY <1>11, <2>2, <2>4, Letters
  <2> QED BY <1>2, <2>3, <2>4
<1>12. ASSUME NEW k \in 1..L, b[k] = "."
       PROVE  1 < k /\ k < L /\ b[k - 1] \in Digit /\ b[k + 1] \in Digit
  <2>1. j + 2 <= m /\ k = j + 1 /\ \A n \in j + 2..m : b[n] \in Digit
    BY <1>7, <1>12
  <2>2. k - 1 \in i..j /\ k + 1 \in j + 2..m /\ 1 < k /\ k < L
    BY <1>2, <1>3, <2>1
  <2> QED BY <1>2, <2>1, <2>2
<1> QED BY <1>9, <1>10, <1>11, <1>12 DEF Lax, L

(* And the other way round.                                                   *)
LEMMA LooseIsJSON ==
    ASSUME NEW b \in Seq(STRING), LooseNumber(b), ~Lax(b)
    PROVE  JSONNumber(b)
<1> DEFINE L == Len(b)
           a == AfterSign(b)
<1>0. b # <<>> /\ \E m \in a..L : Mantissa(b, m)
  BY LooseIs
<1>1. PICK m \in a..L : Mantissa(b, m)
  BY <1>0
<1>2. /\ \A k \in a..m : b[k] \in Digit \cup {"."}
      /\ \E k \in a..m : b[k] \in Digit
      /\ \A j, k \in a..m : b[j] = "." /\ b[k] = "." => j = k
      /\ ExponentShape(b, m + 1)
  BY <1>1, Zenon DEF Mantissa
<1>3. a \in {1, 2} /\ L \in Nat \ {0} /\ m \in Nat /\ a <= m /\ m <= L
  BY <1>0, <1>1, StopIs
<1>4. a = 2 => b[1] \in Sign
  BY DEF AfterSign
<1>5. a = 2 => b[1] = "-"
  <2>1. b[1] # "+"
    BY <1>0 DEF Lax
  <2> QED BY <1>4, <2>1 DEF Sign
<1>6. \A k \in 1..L - 1 : ~(b[k] = "0" /\ b[k + 1] \in Digit /\ (k = 1 \/ (k = 2 /\ b[1] \in Sign)))
  BY DEF Lax
<1>7. \A k \in 1..L : b[k] = "." => 1 < k /\ k < L /\ b[k - 1] \in Digit /\ b[k + 1] \in Digit
  BY DEF Lax
<1> HIDE DEF a, L
\* The digits up to j are all there are before the point.
<1>8. ASSUME NEW j \in Nat, a <= j, j <= L, \A k \in a..j : b[k] \in Digit, b[a] = "0"
      PROVE  a = j
  <2> SUFFICES ASSUME a # j PROVE FALSE
    OBVIOUS
  <2>1. a \in 1..L - 1 /\ a + 1 \in a..j
    BY <1>3, <1>8
  <2> QED BY <1>3, <1>4, <1>6, <1>8, <2>1
<1>9. ASSUME \A k \in a..m : b[k] # "." PROVE JSONShape(b, a, m, m)
  <2>1. \A k \in a..m : b[k] \in Digit
    BY <1>2, <1>9
  <2>2. b[a] = "0" => a = m
    BY <1>3, <1>8, <2>1
  <2> QED BY <1>2, <1>3, <1>5, <2>1, <2>2 DEF JSONShape, L
<1>10. ASSUME NEW p \in a..m, b[p] = "." PROVE JSONShape(b, a, p - 1, m) /\ p - 1 \in Nat
  <2>1. 1 < p /\ p < L /\ b[p - 1] \in Digit /\ b[p + 1] \in Digit
    <3>1. p \in 1..L
      BY <1>3
    <3> QED BY <1>7, <1>10, <3>1
  <2>2. a # p
    <3> SUFFICES ASSUME a = p PROVE FALSE
      OBVIOUS
    <3>1. a = 2 /\ p - 1 = 1
      BY <1>3, <2>1
    <3> QED BY <1>4, <2>1, <3>1, Letters
  <2>3. m # p
    <3> SUFFICES ASSUME m = p PROVE FALSE
      OBVIOUS
    <3>1. m + 1 \in Int /\ m + 1 \in m + 1..Len(b)
      BY <1>3, <2>1 DEF L
    <3> QED BY <1>2, <2>1, <3>1, ExponentHasNoPoint
  <2> DEFINE j == p - 1
  <2>4. j \in Nat /\ a <= j /\ j <= m /\ j <= L /\ j + 2 <= m /\ j + 1 = p
    BY <1>3, <2>2, <2>3
  <2> HIDE DEF j
  <2>5. ASSUME NEW k \in a..m, k # p PROVE b[k] \in Digit
    BY <1>2, <1>10, <2>5
  <2>6. \A k \in a..j : b[k] \in Digit
    BY <1>3, <2>4, <2>5
  <2>7. \A k \in j + 2..m : b[k] \in Digit
    BY <1>3, <2>4, <2>5
  <2>8. b[a] = "0" => a = j
    BY <1>8, <2>4, <2>6
  <2>9. JSONShape(b, a, j, m)
    BY <1>2, <1>3, <1>5, <1>10, <2>4, <2>6, <2>7, <2>8 DEF JSONShape, L
  <2> QED BY <2>4, <2>9 DEF j
<1>11. \E i \in {1, 2}, j \in Nat, n \in Nat : JSONShape(b, i, j, n)
  <2>1. CASE \A k \in a..m : b[k] # "."
    BY <1>3, <1>9, <2>1
  <2>2. CASE ~\A k \in a..m : b[k] # "."
    <3>1. PICK p \in a..m : b[p] = "."
      BY <2>2
    <3> QED BY <1>3, <1>10, <3>1
  <2> QED BY <2>1, <2>2
<1> QED BY <1>11, JSONIs

(* The text validators.                                                       *)
LEMMA TextFacts ==
    ASSUME NEW b \in Seq(STRING)
    PROVE  ValidatorsTakeNumbers(b)
<1>1. EncodeFloat(b) = "number" <=> LooseNumber(b)
  BY ValidFloatIs, LooseIsFinite DEF EncodeFloat
<1>2. EncodeNumeric(b) = "number" <=> LooseNumber(b)
  BY ValidFloatIs, LooseIsFinite DEF EncodeNumeric
<1>3. EncodeInt(b) = "number"
        <=> LooseNumber(b) /\ \A k \in 1..Len(b) : b[k] \in Digit \cup Sign
  <2>1. EncodeInt(b) = "number" <=> validInt(b)
    BY DEF EncodeInt
  <2> QED BY <2>1, ValidIntIs, Zenon
<1>4. EncodeFloat(b) = "number" /\ ~Lax(b) <=> JSONNumber(b)
  BY <1>1, JSONIsLoose, LooseIsJSON, Zenon
<1> QED BY <1>1, <1>2, <1>3, <1>4, Zenon DEF ValidatorsTakeNumbers

(* What the numbers of a behaviour are.                                       *)
LEMMA NumberInputs ==
    ASSUME NEW x
    PROVE  /\ IsInput("numeric", x) => IsNumeric(x)
           /\ IsInput("number", x) => x \in Seq(STRING)
BY DEF IsInput

(* Binary numerics of any weight, scale and number of digits print the value  *)
(* that was sent, in JSON's grammar.  Of the texts, of any length, the        *)
(* validators pass as numbers exactly those of the loose grammar of           *)
(* validFloat's comment: JSON's numbers, and those that JSON writes in        *)
(* another way (a plus, a zero in front, a point without a digit beside it).  *)
THEOREM NumbersTheorem == CodecSpec => []NumbersDenote
<1>1. CodecInv => NumbersDenote
  <2> SUFFICES ASSUME CodecInv PROVE NumbersDenote
    OBVIOUS
  <2>1. ASSUME part = "numeric" PROVE NumericDenotesItself(in)
    <3>1. IsNumeric(in)
      BY <2>1, NumberInputs DEF CodecInv
    <3> QED BY <3>1, NumericFacts
  <2>2. ASSUME part = "number" PROVE ValidatorsTakeNumbers(in)
    <3>1. in \in Seq(STRING)
      BY <2>2, NumberInputs DEF CodecInv
    <3> QED BY <3>1, TextFacts
  <2> QED BY <2>1, <2>2 DEF NumbersDenote
<1> QED BY <1>1, CodecInvariance, PTL

=============================================================================
