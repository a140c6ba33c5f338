------------------------------ MODULE CodecProofs ------------------------------
(* Proofs about Codec: the pure functions for every input there is, and the    *)
(* buffers for every set of goroutines and arrays, every number of writes and  *)
(* every cap.                                                                  *)
EXTENDS Codec, SequenceTheorems, FiniteSetTheorems, WellFoundedInduction, NaturalsInduction, TLAPS

-----------------------------------------------------------------------------
(* Recursive functions *)

(* A set of numbers has a least one.                                          *)
LEMMA LeastNat ==
    ASSUME NEW T \in SUBSET Nat, T # {}
    PROVE  \E x \in T : \A y \in T : x <= y
<1> DEFINE R == {ss \in Nat \X Nat : ss[1] < ss[2]}
<1>1. IsWellFoundedOn(R, Nat)
  BY NatLessThanWellFounded DEF OpToRel
<1>2. PICK x \in T : \A y \in T : ~(<<y, x>> \in R)
  <2> HIDE DEF R
  <2>1. T \subseteq Nat
    OBVIOUS
  <2>2. \E x \in T : \A y \in T : ~(<<y, x>> \in R)
    BY <1>1, <2>1, WFMin, Zenon
  <2> QED BY <2>2, Zenon
<1>3. ASSUME NEW y \in T PROVE x <= y
  <2>1. <<y, x>> \notin R
    BY <1>2, Zenon
  <2>2. x \in Nat /\ y \in Nat
    OBVIOUS
  <2>3. <<y, x>> \in Nat \X Nat  /\ <<y, x>>[1] = y /\ <<y, x>>[2] = x
    BY <2>2
  <2>4. ~(y < x)
    BY <2>1, <2>2, <2>3
  <2> QED BY <2>2, <2>4
<1> QED BY <1>3

(* Induction, on the set of the numbers that have the property.               *)
LEMMA Induction ==
    ASSUME NEW S \in SUBSET Nat, 0 \in S, \A n \in S : n + 1 \in S
    PROVE  S = Nat
<1> SUFFICES ASSUME Nat \ S # {} PROVE FALSE
  OBVIOUS
<1>1. Nat \ S \in SUBSET Nat
  OBVIOUS
<1>2. PICK x \in Nat \ S : \A y \in Nat \ S : x <= y
  BY <1>1, LeastNat
<1>3. x - 1 \in Nat
  OBVIOUS
<1>4. x - 1 \in S
  BY <1>2, <1>3
<1> QED BY <1>4

(* F computes the value of a function at x from its values at the points of   *)
(* a smaller rank.                                                            *)
Computes(F, rank, D, S) ==
    /\ rank \in [D -> Nat]
    /\ F \in [D -> [[D -> S] -> S]]
    /\ \A x \in D : \A g, h \in [D -> S] :
          (\A y \in D : rank[y] < rank[x] => g[y] = h[y]) => F[x][g] = F[x][h]

(* Then there is such a function: the witness that the definition of a        *)
(* recursive function needs.                                                  *)
LEMMA Recursion ==
    ASSUME NEW D, NEW S, NEW s0 \in S, NEW rank, NEW F, Computes(F, rank, D, S)
    PROVE  \E f \in [D -> S] : \A x \in D : f[x] = F[x][f]
<1> USE DEF Computes
<1> DEFINE Good(g, n) == \A x \in D : rank[x] < n => g[x] = F[x][g]
           T == {n \in Nat : \E g \in [D -> S] : Good(g, n)}
<1>1. T = Nat
  <2>1. 0 \in T
    <3>1. [x \in D |-> s0] \in [D -> S] /\ Good([x \in D |-> s0], 0)
      OBVIOUS
    <3> QED BY <3>1
  <2>2. ASSUME NEW n \in T PROVE n + 1 \in T
    <3>1. PICK g \in [D -> S] : Good(g, n)
      OBVIOUS
    <3> DEFINE h == [x \in D |-> IF rank[x] < n THEN g[x] ELSE F[x][g]]
    <3>2. h \in [D -> S]
      OBVIOUS
    <3>3. ASSUME NEW x \in D, rank[x] < n + 1 PROVE h[x] = F[x][h]
      <4>1. \A y \in D : rank[y] < rank[x] => g[y] = h[y]
        BY <3>3
      <4>2. F[x][g] = F[x][h]
        BY <3>2, <4>1
      <4>3. h[x] = F[x][g]
        BY <3>1
      <4> QED BY <4>2, <4>3
    <3>4. Good(h, n + 1)
      BY <3>3
    <3>5. n + 1 \in Nat
      OBVIOUS
    <3> HIDE DEF h, Good
    <3> QED BY <3>2, <3>4, <3>5
  <2>3. T \in SUBSET Nat
    OBVIOUS
  <2> HIDE DEF T
  <2> QED BY <2>1, <2>2, <2>3, Induction
<1>2. ASSUME NEW g \in [D -> S], NEW h \in [D -> S], NEW n \in Nat, Good(g, n), Good(h, n)
      PROVE  \A x \in D : rank[x] < n => g[x] = h[x]
  <2> DEFINE U == {k \in Nat : \A x \in D : rank[x] < k /\ rank[x] < n => g[x] = h[x]}
  <2>1. 0 \in U
    OBVIOUS
  <2>2. ASSUME NEW k \in U PROVE k + 1 \in U
    <3>1. ASSUME NEW x \in D, rank[x] < k + 1, rank[x] < n PROVE g[x] = h[x]
      <4>1. ASSUME NEW y \in D, rank[y] < rank[x] PROVE g[y] = h[y]
        <5>1. rank[y] \in Nat /\ rank[x] \in Nat /\ k \in Nat
          OBVIOUS
        <5>2. rank[y] < k /\ rank[y] < n
          BY <3>1, <4>1, <5>1
        <5>3. \A z \in D : rank[z] < k /\ rank[z] < n => g[z] = h[z]
          OBVIOUS
        <5> QED BY <5>2, <5>3
      <4>2. F[x][g] = F[x][h]
        BY <4>1
      <4> QED BY <1>2, <3>1, <4>2
    <3> QED BY <3>1
  <2>3. U \in SUBSET Nat
    OBVIOUS
  <2> HIDE DEF U
  <2>4. U = Nat
    BY <2>1, <2>2, <2>3, Induction
  <2> QED BY <2>4 DEF U
<1> DEFINE A == [n \in Nat |-> CHOOSE g \in [D -> S] : Good(g, n)]
           f == [x \in D |-> A[rank[x] + 1][x]]
<1>3. ASSUME NEW n \in Nat PROVE A[n] \in [D -> S] /\ Good(A[n], n)
  <2>1. \E g \in [D -> S] : Good(g, n)
    BY <1>1
  <2> HIDE DEF Good
  <2>2. A[n] = CHOOSE g \in [D -> S] : Good(g, n)
    OBVIOUS
  <2> QED BY <2>1, <2>2, Zenon
<1> HIDE DEF A
<1>4. f \in [D -> S]
  <2> SUFFICES ASSUME NEW x \in D PROVE A[rank[x] + 1][x] \in S
    OBVIOUS
  <2>1. rank[x] + 1 \in Nat
    OBVIOUS
  <2>2. A[rank[x] + 1] \in [D -> S]
    BY <1>3, <2>1
  <2> QED BY <2>2
<1>5. ASSUME NEW x \in D PROVE f[x] = F[x][f]
  <2> DEFINE n == rank[x] + 1
             g == A[n]
  <2>1. n \in Nat
    OBVIOUS
  <2>2. g \in [D -> S] /\ Good(g, n)
    <3> HIDE DEF n, Good
    <3> QED BY <1>3, <2>1
  <2>3. ASSUME NEW y \in D, rank[y] < rank[x] PROVE f[y] = g[y]
    <3> DEFINE k == rank[y] + 1
               h == A[k]
    <3>1. k \in Nat /\ rank[y] < k /\ k < n
      BY <2>3
    <3>2. Good(g, k)
      <4> HIDE DEF k, g
      <4> QED BY <2>1, <2>2, <3>1
    <3>3. f[y] = h[y]
      OBVIOUS
    <3> HIDE DEF k, g, Good, n, f
    <3>4. h \in [D -> S] /\ Good(h, k)
      BY <1>3, <3>1
    <3> HIDE DEF h
    <3>5. h[y] = g[y]
      BY <1>2, <2>2, <3>1, <3>2, <3>4, ZenonT(40)
    <3> QED BY <3>3, <3>5
  <2>4. f[x] = g[x]
    OBVIOUS
  <2> HIDE DEF f, g
  <2>5. F[x][f] = F[x][g]
    BY <1>4, <2>2, <2>3
  <2>6. g[x] = F[x][g]
    BY <2>2
  <2> QED BY <2>4, <2>5, <2>6
<1> HIDE DEF f
<1> QED BY <1>4, <1>5

(* A beginning of the natural numbers.                                        *)
Beginning(D) == D \in SUBSET Nat /\ \A n \in D : n # 0 => n - 1 \in D

(* h[0] is a, and h[n] is computed from h[n - 1].                             *)
Steps(h, D, a, G) == \A n \in D : h[n] = IF n = 0 THEN a ELSE G[n][h[n - 1]]

(* Recursion on the number before.                                            *)
LEMMA NatRecursion ==
    ASSUME NEW D, Beginning(D), NEW S, NEW a \in S, NEW G \in [D -> [S -> S]]
    PROVE  \E h \in [D -> S] : Steps(h, D, a, G)
<1> USE DEF Beginning
<1> DEFINE rank == [n \in D |-> n]
           F == [n \in D |-> [h \in [D -> S] |-> IF n = 0 THEN a ELSE G[n][h[n - 1]]]]
<1>1. rank \in [D -> Nat]
  OBVIOUS
<1>2. F \in [D -> [[D -> S] -> S]]
  <2> SUFFICES ASSUME NEW n \in D, NEW h \in [D -> S]
               PROVE  (IF n = 0 THEN a ELSE G[n][h[n - 1]]) \in S
    OBVIOUS
  <2>1. CASE n = 0
    BY <2>1
  <2>2. CASE n # 0
    <3>1. n - 1 \in D
      BY <2>2
    <3>2. h[n - 1] \in S
      BY <3>1
    <3>3. G[n][h[n - 1]] \in S
      BY <3>2
    <3> QED BY <2>2, <3>3
  <2> QED BY <2>1, <2>2
<1>3. ASSUME NEW n \in D, NEW g \in [D -> S], NEW h \in [D -> S],
             \A k \in D : rank[k] < rank[n] => g[k] = h[k]
      PROVE  F[n][g] = F[n][h]
  <2>1. CASE n = 0
    BY <2>1
  <2>2. CASE n # 0
    <3>1. n - 1 \in D /\ n - 1 < n
      BY <2>2
    <3>2. g[n - 1] = h[n - 1]
      BY <1>3, <3>1
    <3> QED BY <2>2, <3>2
  <2> QED BY <2>1, <2>2
<1>4. \E h \in [D -> S] : \A n \in D : h[n] = F[n][h]
  <2> HIDE DEF rank, F
  <2>1. Computes(F, rank, D, S)
    BY <1>1, <1>2, <1>3 DEF Computes
  <2> QED BY <2>1, Recursion
<1>5. PICK h \in [D -> S] : \A n \in D : h[n] = F[n][h]
  BY <1>4
<1>6. Steps(h, D, a, G)
  BY <1>5 DEF Steps
<1> QED BY <1>6

(* The powers of a base.                                                      *)
LEMMA PowerDef ==
    ASSUME NEW b \in Int
    PROVE  Power(b, 0) = 1 /\ \A n \in Nat : Power(b, n) \in Int /\ Power(b, n + 1) = Power(b, n) * b
<1> DEFINE P(p) == p = [k \in Nat |-> IF k = 0 THEN 1 ELSE p[k - 1] * b]
           r == CHOOSE p : P(p)
<1>1. \E p : P(p)
  <2> DEFINE G == [k \in Nat |-> [x \in Int |-> x * b]]
  <2>1. Beginning(Nat)
    BY DEF Beginning
  <2>2. G \in [Nat -> [Int -> Int]] /\ 1 \in Int
    OBVIOUS
  <2>3. PICK h \in [Nat -> Int] : \A n \in Nat : h[n] = IF n = 0 THEN 1 ELSE G[n][h[n - 1]]
    <3> DEFINE D == Nat
               S == Int
               a == 1
    <3>1. Beginning(D) /\ a \in S /\ G \in [D -> [S -> S]]
      BY <2>1, <2>2
    <3> HIDE DEF G, D, S, a
    <3>2. \E h \in [D -> S] : Steps(h, D, a, G)
      BY <3>1, NatRecursion
    <3> QED BY <3>2 DEF D, S, a, Steps
  <2>4. \A n \in Nat : n # 0 => G[n][h[n - 1]] = h[n - 1] * b
    OBVIOUS
  <2> HIDE DEF G
  <2>5. P(h)
    BY <2>3, <2>4
  <2> QED BY <2>5
<1>2. P(r)
  <2> HIDE DEF P
  <2> QED BY <1>1
<1>3. \A n : Power(b, n) = r[n]
  BY DEF Power
<1> HIDE DEF r
<1>4. r[0] = 1 /\ \A n \in Nat : r[n + 1] = r[n] * b
  <2>1. \A n \in Nat : r[n] = IF n = 0 THEN 1 ELSE r[n - 1] * b
    BY <1>2
  <2>2. \A n \in Nat : n + 1 \in Nat /\ n + 1 # 0 /\ n + 1 - 1 = n
    OBVIOUS
  <2> QED BY <2>1, <2>2
<1>5. \A n \in Nat : r[n] \in Int
  <2> DEFINE T == {n \in Nat : r[n] \in Int}
  <2>1. 0 \in T /\ T \in SUBSET Nat
    BY <1>4
  <2>2. \A n \in T : n + 1 \in T
    BY <1>4
  <2> HIDE DEF T
  <2>3. T = Nat
    BY <2>1, <2>2, Induction
  <2> QED BY <2>3 DEF T
<1> QED BY <1>3, <1>4, <1>5

(* The value of a sequence of digits, digit by digit.                         *)
LEMMA ValueDef ==
    ASSUME NEW b \in Int, NEW s \in Seq(Int)
    PROVE  \E v \in [0..Len(s) -> Int] :
              /\ Value(s, b) = v[Len(s)] /\ v[0] = 0
              /\ \A k \in 1..Len(s) : v[k] = v[k - 1] * b + s[k]
<1> DEFINE D == 0..Len(s)
           P(v) == v = [k \in D |-> IF k = 0 THEN 0 ELSE v[k - 1] * b + s[k]]
           r == CHOOSE v : P(v)
<1>0. Len(s) \in Nat /\ \A k \in 1..Len(s) : s[k] \in Int
  OBVIOUS
<1>1. \E v : P(v)
  <2> DEFINE G == [k \in D |-> [x \in Int |-> IF k = 0 THEN 0 ELSE x * b + s[k]]]
  <2>1. Beginning(D)
    BY <1>0 DEF Beginning
  <2>2. 0 \in Int /\ G \in [D -> [Int -> Int]]
    BY <1>0
  <2>3. PICK h \in [D -> Int] : \A n \in D : h[n] = IF n = 0 THEN 0 ELSE G[n][h[n - 1]]
    <3> DEFINE S == Int
               a == 0
    <3>1. Beginning(D) /\ a \in S /\ G \in [D -> [S -> S]]
      BY <2>1, <2>2
    <3> HIDE DEF G, D, S, a
    <3>2. \E h \in [D -> S] : Steps(h, D, a, G)
      BY <3>1, NatRecursion
    <3> QED BY <3>2 DEF S, a, Steps
  <2>4. \A n \in D : n # 0 => G[n][h[n - 1]] = h[n - 1] * b + s[n]
    BY <2>1 DEF Beginning
  <2> HIDE DEF G, D
  <2>5. P(h)
    BY <2>3, <2>4
  <2> QED BY <2>5
<1>2. P(r)
  <2> HIDE DEF P
  <2> QED BY <1>1
<1>3. Value(s, b) = r[Len(s)]
  BY DEF Value
<1> HIDE DEF r
<1>4. r[0] = 0 /\ \A k \in 1..Len(s) : r[k] = r[k - 1] * b + s[k]
  <2>1. \A n \in D : r[n] = IF n = 0 THEN 0 ELSE r[n - 1] * b + s[n]
    BY <1>2
  <2>2. 0 \in D /\ \A n \in 1..Len(s) : n \in D /\ n # 0
    BY <1>0
  <2> HIDE DEF D
  <2> QED BY <2>1, <2>2
<1>5. \A n \in D : r[n] \in Int
  <2> DEFINE T == {n \in Nat : n \in D => r[n] \in Int}
  <2>1. 0 \in T /\ T \in SUBSET Nat
    BY <1>4
  <2>2. ASSUME NEW n \in T PROVE n + 1 \in T
    <3> SUFFICES ASSUME n + 1 \in D PROVE r[n + 1] \in Int
      OBVIOUS
    <3>1. n \in D /\ n + 1 \in 1..Len(s) /\ n + 1 - 1 = n
      BY <1>0
    <3>2. r[n] \in Int /\ s[n + 1] \in Int
      BY <1>0, <3>1
    <3>3. r[n + 1] = r[n] * b + s[n + 1]
      BY <1>4, <3>1
    <3> QED BY <3>2, <3>3
  <2> HIDE DEF T
  <2>3. T = Nat
    BY <2>1, <2>2, Induction
  <2> QED BY <2>3 DEF T
<1>6. r \in [D -> Int]
  <2>1. r = [k \in D |-> r[k]]
    BY <1>2
  <2> QED BY <2>1, <1>5
<1> QED BY <1>3, <1>4, <1>6

(* A power of a positive base is positive.                                    *)
LEMMA PowerPositive ==
    ASSUME NEW b \in Nat \ {0}, NEW n \in Nat
    PROVE  Power(b, n) \in Nat \ {0}
<1> DEFINE T == {k \in Nat : Power(b, k) \in Nat \ {0}}
<1>0. b \in Int
  OBVIOUS
<1>1. 0 \in T /\ T \in SUBSET Nat
  <2>1. Power(b, 0) = 1
    BY <1>0, PowerDef
  <2> QED BY <2>1
<1>2. ASSUME NEW k \in T PROVE k + 1 \in T
  <2>1. Power(b, k + 1) = Power(b, k) * b
    BY <1>0, PowerDef
  <2>2. \A x, y \in Nat \ {0} : x * y \in Nat \ {0}
    BY SMT
  <2> QED BY <2>1, <2>2
<1> HIDE DEF T
<1>3. T = Nat
  BY <1>1, <1>2, Induction
<1> QED BY <1>3 DEF T

(* Powers add.                                                                *)
LEMMA PowerAdd ==
    ASSUME NEW b \in Int, NEW m \in Nat, NEW n \in Nat
    PROVE  Power(b, m + n) = Power(b, m) * Power(b, n)
<1> DEFINE T == {k \in Nat : Power(b, m + k) = Power(b, m) * Power(b, k)}
<1>1. 0 \in T /\ T \in SUBSET Nat
  BY PowerDef
<1>2. ASSUME NEW k \in T PROVE k + 1 \in T
  <2>1. Power(b, k + 1) = Power(b, k) * b /\ Power(b, m + k + 1) = Power(b, m + k) * b
        /\ m + (k + 1) = m + k + 1 /\ m + k \in Nat
    BY PowerDef
  <2>2. Power(b, m) \in Int /\ Power(b, k) \in Int
    BY PowerDef
  <2>3. \A x, y \in Int : (x * y) * b = x * (y * b)
    BY SMT
  <2> QED BY <2>1, <2>2, <2>3
<1> HIDE DEF T
<1>3. T = Nat
  BY <1>1, <1>2, Induction
<1> QED BY <1>3 DEF T

(* Digits below the base are worth less than the power of their number.       *)
LEMMA ValueBound ==
    ASSUME NEW b \in Nat \ {0}, NEW s \in Seq(0..b - 1)
    PROVE  Value(s, b) \in Nat /\ Value(s, b) < Power(b, Len(s))
<1>1. b \in Int /\ s \in Seq(Int) /\ Len(s) \in Nat /\ \A k \in 1..Len(s) : s[k] \in 0..b - 1
  OBVIOUS
<1>2. PICK v \in [0..Len(s) -> Int] :
              /\ Value(s, b) = v[Len(s)] /\ v[0] = 0
              /\ \A k \in 1..Len(s) : v[k] = v[k - 1] * b + s[k]
  BY <1>1, ValueDef, Zenon
<1> DEFINE T == {k \in Nat : k <= Len(s) => v[k] \in Nat /\ v[k] < Power(b, k)}
<1>3. 0 \in T /\ T \in SUBSET Nat
  <2>1. Power(b, 0) = 1
    BY <1>1, PowerDef
  <2> QED BY <1>2, <2>1
<1>4. ASSUME NEW k \in T PROVE k + 1 \in T
  <2> SUFFICES ASSUME k + 1 <= Len(s) PROVE v[k + 1] \in Nat /\ v[k + 1] < Power(b, k + 1)
    OBVIOUS
  <2>1. v[k] \in Int /\ 0 <= v[k] /\ v[k] < Power(b, k) /\ k + 1 \in 1..Len(s)
    BY <1>1
  <2>2. v[k + 1] = v[k] * b + s[k + 1] /\ s[k + 1] \in 0..b - 1
    BY <1>1, <1>2, <2>1
  <2>3. Power(b, k + 1) = Power(b, k) * b /\ Power(b, k) \in Int
    BY <1>1, PowerDef
  <2>4. \A x, y, z \in Int : 0 <= x /\ x < y /\ 0 <= z /\ z < b => x * b + z \in Nat /\ x * b + z < y * b
    <3> SUFFICES ASSUME NEW x \in Int, NEW y \in Int, NEW z \in Int, 0 <= x, x < y, 0 <= z, z < b
                 PROVE  x * b + z \in Nat /\ x * b + z < y * b
      OBVIOUS
    <3>1. (x + 1) * b <= y * b
      BY SMT
    <3>2. (x + 1) * b = x * b + b /\ x * b >= 0 /\ x * b \in Int
      BY SMT
    <3> QED BY <3>1, <3>2, SMTT(30)
  <2>5. v[k] * b + s[k + 1] \in Nat /\ v[k] * b + s[k + 1] < Power(b, k) * b
    <3>1. s[k + 1] \in Int /\ 0 <= s[k + 1] /\ s[k + 1] < b
      BY <2>2
    <3> QED BY <2>1, <2>3, <2>4, <3>1
  <2> QED BY <2>2, <2>3, <2>5
<1> HIDE DEF T
<1>5. T = Nat
  BY <1>3, <1>4, Induction
<1> QED BY <1>1, <1>2, <1>5 DEF T

-----------------------------------------------------------------------------
(* An input stays what it is *)

(* The input of a behaviour stays what the part can be given.                 *)
CodecInv == part \in Parts /\ in \in Inputs(part) /\ IsInput(part, in)

(* It is an invariant.                                                        *)
LEMMA CodecInvariance == CodecSpec => []CodecInv
<1>1. CodecInit => CodecInv
  BY InputsAssumption DEF CodecInit, CodecInv
<1>2. CodecInv /\ [CodecNext]_codecVars => CodecInv'
  <2> SUFFICES ASSUME CodecInv, [CodecNext]_codecVars PROVE CodecInv'
    OBVIOUS
  <2>1. UNCHANGED <<part, in>>
    BY DEF CodecNext, codecVars
  <2> QED BY <2>1 DEF CodecInv
<1> QED BY <1>1, <1>2, PTL DEF CodecSpec

-----------------------------------------------------------------------------
(* Dates and times *)

(* Era is the floor of the division, also before the epoch of the algorithm.  *)
LEMMA EraFloor ==
    ASSUME NEW z \in Int
    PROVE  Era(z) = z \div 146097
BY SMT DEF Era, Quot

(* The year of an era, and the day of that year from March, of a day of the   *)
(* era.                                                                       *)
YearOfEra(doe) == (doe - doe \div 1460 + doe \div 36524 - doe \div 146096) \div 365
DayOfYear(doe) == doe - (365 * YearOfEra(doe) + YearOfEra(doe) \div 4 - YearOfEra(doe) \div 100)

(* The year of an era and the day of that year, counted from March: the last  *)
(* day of a leap year is the only 366th.                                      *)
LEMMA EraFacts ==
    ASSUME NEW doe \in Nat, doe <= 146096
    PROVE  /\ YearOfEra(doe) \in Nat /\ YearOfEra(doe) <= 399
           /\ DayOfYear(doe) \in Nat /\ DayOfYear(doe) <= 365
           /\ DayOfYear(doe) = 365 =>
                (YearOfEra(doe) + 1) % 4 = 0
                /\ ((YearOfEra(doe) + 1) % 100 # 0 \/ YearOfEra(doe) = 399)
BY SMTT(30) DEF YearOfEra, DayOfYear

(* The month of a day of the year, both from March.                           *)
MonthP(doy) == (5 * doy + 2) \div 153

(* Month and day of the month of a day counted from March.                    *)
LEMMA MonthFacts ==
    ASSUME NEW doy \in Nat, doy <= 365
    PROVE  LET mp == MonthP(doy)
               m == IF mp < 10 THEN mp + 3 ELSE mp - 9
               d == doy - (153 * mp + 2) \div 5 + 1
           IN  /\ mp \in 0..11
               /\ m \in 1..12 /\ d \in Nat /\ d >= 1
               /\ d <= (IF m = 2 THEN 29 ELSE IF m \in {4, 6, 9, 11} THEN 30 ELSE 31)
               /\ m = 2 /\ d = 29 => doy = 365
               /\ DaysBefore[m] + d - 1 = IF m > 2 THEN doy + 59 ELSE doy - 306
BY SMT DEF MonthP, DaysBefore

(* The leap days up to year y.                                                *)
Leaps(y) == y \div 4 - y \div 100 + y \div 400

(* A year adds a leap day when it is one.                                     *)
LEMMA LeapStep ==
    ASSUME NEW y \in Int
    PROVE  Leaps(y) = Leaps(y - 1) + (IF IsLeap(y) THEN 1 ELSE 0) /\ Leaps(y) \in Int
BY SMT DEF Leaps, IsLeap

(* An era of 400 years has 97 of them.                                        *)
LEMMA LeapEra ==
    ASSUME NEW e \in Int, NEW y \in Nat, y <= 399
    PROVE  Leaps(y + e * 400) = y \div 4 - y \div 100 + 97 * e
BY SMT DEF Leaps

(* The year that ends with the 366th day counted from March is a leap year.   *)
LEMMA IsLeapEra ==
    ASSUME NEW e \in Int, NEW y \in Nat, y <= 399, (y + 1) % 4 = 0,
           (y + 1) % 100 # 0 \/ y = 399
    PROVE  IsLeap(y + e * 400 + 1)
BY SMT DEF IsLeap

(* The date of a day number is a date of the calendar, and it has that        *)
(* number, for every day there is: the calendar is its own inverse.           *)
LEMMA CivilFacts ==
    ASSUME NEW days \in Int
    PROVE  LET d == CivilDate(days)
           IN  /\ d = [year |-> d.year, month |-> d.month, day |-> d.day]
               /\ d.year \in Int /\ IsDate(d) /\ DayNumber(d) = days
<1> DEFINE z == days + 719468
           era == Era(z)
           doe == z - era * 146097
           yoe == YearOfEra(doe)
           doy == DayOfYear(doe)
           mp == MonthP(doy)
           m == IF mp < 10 THEN mp + 3 ELSE mp - 9
           dd == doy - (153 * mp + 2) \div 5 + 1
           Y == yoe + era * 400 + (IF m <= 2 THEN 1 ELSE 0)
<1>1. z \in Int /\ era \in Int /\ doe \in Nat /\ doe <= 146096
  BY EraFloor, SMT
<1>2. CivilDate(days) = [year |-> Y, month |-> m, day |-> dd]
  BY SMT DEF CivilDate, YearOfEra, DayOfYear, MonthP
<1>3.    /\ yoe \in Nat /\ yoe <= 399
         /\ doy \in Nat /\ doy <= 365
         /\ doy = 365 => (yoe+1) % 4 = 0 /\ ((yoe+1) % 100 # 0 \/ yoe = 399)
         /\ doe = doy + (365 * yoe + yoe \div 4 - yoe \div 100)
  <2> HIDE DEF doe
  <2>1. doe = DayOfYear(doe) + (365 * YearOfEra(doe) + YearOfEra(doe) \div 4 - YearOfEra(doe) \div 100)
    BY <1>1, EraFacts, SMT DEF DayOfYear
  <2> QED BY <1>1, <2>1, EraFacts, SMT
<1>4.      /\ mp \in 0..11
           /\ m \in 1..12 /\ dd \in Nat /\ dd >= 1
           /\ dd <= (IF m = 2 THEN 29 ELSE IF m \in {4, 6, 9, 11} THEN 30 ELSE 31)
           /\ m = 2 /\ dd = 29 => doy = 365
           /\ DaysBefore[m] + dd - 1 = IF m > 2 THEN doy + 59 ELSE doy - 306
           /\ DaysBefore[m] \in Int
  <2> HIDE DEF doy
  <2>1. \A i \in 1..12 : DaysBefore[i] \in Int
    BY SMT DEF DaysBefore
  <2> QED BY <1>3, <2>1, MonthFacts, SMT
<1> HIDE DEF m, dd, doy, yoe, doe, mp
<1>5. z = era * 146097 + doe
  BY <1>1, SMT DEF doe
<1> HIDE DEF era, z
<1>6. Y \in Int
  BY <1>3, <1>1, SMT
<1>7. m = 2 /\ dd = 29 => IsLeap(Y)
  <2> SUFFICES ASSUME m = 2 /\ dd = 29 PROVE IsLeap(Y) OBVIOUS
  <2>1. Y = yoe + era * 400 + 1 OBVIOUS
  <2>2. IsLeap(yoe + era * 400 + 1)
    <3>1. doy = 365
      BY <1>4
    <3> QED BY <3>1, <1>1, <1>3, IsLeapEra
  <2> HIDE DEF Y
  <2> QED BY <2>1, <2>2, Zenon
<1>8. dd \in 1..DaysInMonth(Y, m)
  BY <1>4, <1>6, <1>7, SMT DEF DaysInMonth
<1>9. DayNumber([year |-> Y, month |-> m, day |-> dd]) = 365 * (Y - 1970) + Leaps(Y - 1) - 477
        + DaysBefore[m] + (IF m > 2 /\ IsLeap(Y) THEN 1 ELSE 0)
        + dd - 1
  BY SMT DEF DayNumber, Leaps
<1>10. Leaps(yoe + era * 400) = yoe \div 4 - yoe \div 100 + 97 * era
  BY <1>1, <1>3, LeapEra, SMT
<1>11. yoe \div 4 \in Int /\ yoe \div 100 \in Int
  BY <1>3, SMT
<1>12. DayNumber([year |-> Y, month |-> m, day |-> dd]) = days
  <2>1. days = era * 146097 + doy + 365 * yoe + yoe \div 4 - yoe \div 100 - 719468
    BY <1>1, <1>3, <1>5, <1>11, SMT DEF z
  <2>2. CASE m > 2
    <3>1. Y = yoe + era * 400
      BY <2>2, <1>4, <1>1, <1>3, SMT
    <3>2. Leaps(Y) = Leaps(Y-1) + (IF IsLeap(Y) THEN 1 ELSE 0) /\ Leaps(Y-1) \in Int
      BY <1>6, LeapStep, SMT
    <3> HIDE DEF Y
    <3>3. IsLeap(Y) \in BOOLEAN BY DEF IsLeap
    <3>4. DayNumber([year |-> Y, month |-> m, day |-> dd])
            = 365 * (Y - 1970) + Leaps(Y) - 477 + doy + 59
      BY <1>9, <3>2, <2>2, <1>4, <1>3, <1>6, SMT
    <3> QED BY <3>4, <3>1, <1>10, <2>1, <1>1, <1>3, <1>11, SMT
  <2>3. CASE ~(m > 2)
    <3>1. Y - 1 = yoe + era * 400
      BY <2>3, <1>4, <1>1, <1>3, SMT
    <3> HIDE DEF Y
    <3>4. DayNumber([year |-> Y, month |-> m, day |-> dd])
            = 365 * (Y - 1970) + Leaps(yoe + era * 400) - 477 + doy - 306
      BY <1>9, <3>1, <2>3, <1>4, <1>3, <1>6, <1>10, <1>1, <1>11, SMT
    <3> QED BY <3>4, <3>1, <1>10, <2>1, <1>1, <1>3, <1>11, <1>6, SMT
  <2> QED BY <2>2, <2>3
<1> HIDE DEF Y
<1> QED BY <1>2, <1>4, <1>6, <1>8, <1>12, SMT DEF IsDate

USE TemporalAssumption

(* The units of a clock are positive.                                         *)
LEMMA UnitFacts ==
    /\ SecPerHour \in Nat \ {0} /\ SecPerDay \in Nat \ {0} /\ TicksPerDay \in Nat \ {0}
    /\ TicksPerHour \in Nat \ {0} /\ TicksPerMin \in Nat \ {0}
<1>1. \A a, b \in Nat \ {0} : a * b \in Nat \ {0}
  BY SMT
<1>2. SecPerHour \in Nat \ {0}
  BY <1>1 DEF SecPerHour
<1>3. SecPerDay \in Nat \ {0}
  BY <1>2, SMT DEF SecPerDay
<1>4. /\ SecPerDay * TicksPerSec \in Nat \ {0} /\ SecPerHour * TicksPerSec \in Nat \ {0}
      /\ SecPerMin * TicksPerSec \in Nat \ {0}
  BY <1>1, <1>2, <1>3
<1> QED BY <1>2, <1>3, <1>4 DEF TicksPerDay, TicksPerHour, TicksPerMin

(* Go's division and remainder.                                               *)
LEMMA QuotFacts ==
    ASSUME NEW a \in Int, NEW b \in Nat \ {0}
    PROVE  /\ Quot(a, b) \in Int /\ Rem(a, b) \in Int
           /\ a = Quot(a, b) * b + Rem(a, b)
           /\ a >= 0 => Quot(a, b) >= 0 /\ Rem(a, b) >= 0
           /\ a <= 0 => Quot(a, b) <= 0 /\ Rem(a, b) <= 0
           /\ -b < Rem(a, b) /\ Rem(a, b) < b
BY SMT DEF Quot, Rem

(* Go's division after the correction for negative numbers.                   *)
LEMMA DivisionUnique ==
    ASSUME NEW b \in Nat \ {0}, NEW q \in Int, NEW r \in Int, NEW p \in Int, NEW s \in Int,
           0 <= r, r < b, 0 <= s, s < b, q * b + r = p * b + s
    PROVE  q = p /\ r = s
<1>1. (q - p) * b = s - r
  BY SMT
<1>2. q - p < 1 /\ q - p > -1
  <2>1. CASE q - p >= 1
    <3>1. (q - p) * b >= b BY <2>1, SMT
    <3> QED BY <3>1, <1>1, SMT
  <2>2. CASE q - p <= -1
    <3>1. (q - p) * b <= -b BY <2>2, SMT
    <3> QED BY <3>1, <1>1, SMT
  <2> QED BY <2>1, <2>2, SMT
<1>3. q = p
  BY <1>2, SMT
<1> QED BY <1>3, <1>1, SMT

(* The correction for negative remainders makes it floor division: the second *)
(* of the day is one of the day.                                              *)
LEMMA SplitFacts ==
    ASSUME NEW sec \in Int
    PROVE  LET s == SplitDays(sec)
           IN  /\ s = [days |-> s.days, rem |-> s.rem] /\ s.days \in Int /\ s.rem \in Nat
               /\ s.rem < SecPerDay /\ sec = s.days * SecPerDay + s.rem
<1>1. /\ Quot(sec, SecPerDay) \in Int /\ Rem(sec, SecPerDay) \in Int
      /\ sec = Quot(sec, SecPerDay) * SecPerDay + Rem(sec, SecPerDay)
      /\ -SecPerDay < Rem(sec, SecPerDay) /\ Rem(sec, SecPerDay) < SecPerDay
      /\ Rem(sec, SecPerDay) = sec - Quot(sec, SecPerDay) * SecPerDay
  BY UnitFacts, QuotFacts, SMT DEF Rem
<1>2. (Quot(sec, SecPerDay) - 1) * SecPerDay = Quot(sec, SecPerDay) * SecPerDay - SecPerDay
  BY <1>1, UnitFacts, SMT
<1>3. SplitDays(sec) =
        IF Rem(sec, SecPerDay) < 0
        THEN [days |-> Quot(sec, SecPerDay) - 1, rem |-> Rem(sec, SecPerDay) + SecPerDay]
        ELSE [days |-> Quot(sec, SecPerDay), rem |-> Rem(sec, SecPerDay)]
  BY <1>1 DEF SplitDays
<1> QED BY <1>1, <1>2, <1>3, UnitFacts, SMT

(* The same for the seconds and the fraction of a second.                     *)
LEMMA SecAndFracFacts ==
    ASSUME NEW usec \in Int
    PROVE  LET s == SecAndFrac(usec)
           IN  /\ s = [sec |-> s.sec, frac |-> s.frac] /\ s.sec \in Int /\ s.frac \in Nat
               /\ s.frac < TicksPerSec /\ usec = (s.sec - pgEpochUnix) * TicksPerSec + s.frac
<1> DEFINE q == Quot(usec, TicksPerSec)
           r == Rem(usec, TicksPerSec)
<1>1. /\ q \in Int /\ r \in Int /\ usec = q * TicksPerSec + r /\ -TicksPerSec < r /\ r < TicksPerSec
  BY QuotFacts, SMT
<1>2. pgEpochUnix \in Int
  BY UnitFacts, SMT DEF pgEpochUnix
<1>3. SecAndFrac(usec) = IF r < 0 THEN [sec |-> pgEpochUnix + q - 1, frac |-> r + TicksPerSec]
                                  ELSE [sec |-> pgEpochUnix + q, frac |-> r]
  BY <1>1, <1>2, SMT DEF SecAndFrac
<1> HIDE DEF q, r
<1>4. (q - 1) * TicksPerSec = q * TicksPerSec - TicksPerSec
  BY <1>1, SMT
<1>5. pgEpochUnix + q - 1 - pgEpochUnix = q - 1 /\ pgEpochUnix + q - pgEpochUnix = q
  BY <1>1, <1>2, SMT
<1> QED BY <1>1, <1>2, <1>3, <1>4, <1>5, SMT

(* The hours, minutes and seconds of a second of the day                      *)
LEMMA DayClock ==
    ASSUME NEW rem \in Nat, rem < SecPerDay
    PROVE  LET hour == rem \div SecPerHour
               min == (rem - hour * SecPerHour) \div SecPerMin
               second == rem - hour * SecPerHour - min * SecPerMin
           IN  /\ hour \in 0..23 /\ min \in 0..MinPerHour - 1 /\ second \in 0..SecPerMin - 1
               /\ hour * SecPerHour + min * SecPerMin + second = rem
<1> DEFINE hour == rem \div SecPerHour
           u == rem - hour * SecPerHour
           min == u \div SecPerMin
<1>1. hour \in Int /\ SecPerHour * hour <= rem /\ rem < SecPerHour * hour + SecPerHour
  BY UnitFacts, SMT
<1> HIDE DEF hour
<1>2. hour <= 23 /\ hour >= 0
  <2>1. SecPerDay = SecPerHour * 24
    BY UnitFacts, SMT DEF SecPerDay
  <2>2. CASE hour >= 24
    <3>1. SecPerHour * hour >= SecPerHour * 24
      BY <2>2, <1>1, UnitFacts, SMT
    <3> QED BY <3>1, <2>1, <1>1, UnitFacts, SMT
  <2>3. CASE hour <= -1
    <3>1. SecPerHour * (hour + 1) <= 0
      BY <2>3, <1>1, UnitFacts, SMT
    <3> QED BY <3>1, <1>1, UnitFacts, SMT
  <2> QED BY <2>2, <2>3, <1>1, SMT
<1>3. u \in Nat /\ u < SecPerHour
  BY <1>1, UnitFacts, SMT
<1> HIDE DEF u
<1>4. min \in Int /\ SecPerMin * min <= u /\ u < SecPerMin * min + SecPerMin
  BY <1>3, SMT
<1> HIDE DEF min
<1>5. min <= MinPerHour - 1 /\ min >= 0
  <2>1. SecPerHour = SecPerMin * MinPerHour
    BY SMT DEF SecPerHour
  <2>2. CASE min >= MinPerHour
    <3>1. SecPerMin * min >= SecPerMin * MinPerHour
      BY <2>2, <1>4, SMT
    <3> QED BY <3>1, <2>1, <1>4, <1>3, UnitFacts, SMT
  <2>3. CASE min <= -1
    <3>1. SecPerMin * (min + 1) <= 0
      BY <2>3, <1>4, SMT
    <3> QED BY <3>1, <1>4, <1>3, SMT
  <2> QED BY <2>2, <2>3, <1>4, SMT
<1>6. /\ hour \in 0..23 /\ min \in 0..MinPerHour - 1 /\ u - min * SecPerMin \in 0..SecPerMin - 1
      /\ hour * SecPerHour + min * SecPerMin + (u - min * SecPerMin) = rem
  BY <1>1, <1>2, <1>3, <1>4, <1>5, UnitFacts, SMT DEF u
<1> QED BY <1>6 DEF hour, u, min

(* A record that has a date has its number.                                   *)
LEMMA SameDate ==
    ASSUME NEW t, NEW d, t.year = d.year, t.month = d.month, t.day = d.day
    PROVE  (IsDate(t) <=> IsDate(d)) /\ DayNumber(t) = DayNumber(d)
BY SMT DEF IsDate, DayNumber

(* splitTime takes a second apart into a date and a clock that give it back.  *)
LEMMA SplitTimeFacts ==
    ASSUME NEW sec \in Int
    PROVE  LET t == splitTime(sec)
           IN  /\ IsDate(t) /\ DayNumber(t) \in Int
               /\ t.hour \in 0..23 /\ t.min \in 0..MinPerHour - 1 /\ t.second \in 0..SecPerMin - 1
               /\ DayNumber(t) = SplitDays(sec).days
               /\ DayNumber(t) * SecPerDay + t.hour * SecPerHour + t.min * SecPerMin + t.second = sec
               /\ IsDate([year |-> t.year, month |-> t.month, day |-> t.day])
               /\ DayNumber([year |-> t.year, month |-> t.month, day |-> t.day]) = DayNumber(t)
<1> DEFINE s == SplitDays(sec)
           hour == s.rem \div SecPerHour
           min == (s.rem - hour * SecPerHour) \div SecPerMin
           second == s.rem - hour * SecPerHour - min * SecPerMin
           d == CivilDate(s.days)
           t == [year |-> d.year, month |-> d.month, day |-> d.day,
                 hour |-> hour, min |-> min, second |-> second]
<1>1. splitTime(sec) = t
  BY DEF splitTime
<1>2. s.days \in Int /\ s.rem \in Nat /\ s.rem < SecPerDay /\ sec = s.days * SecPerDay + s.rem
  BY SplitFacts
<1> HIDE DEF s
<1>3. /\ d = [year |-> d.year, month |-> d.month, day |-> d.day]
      /\ IsDate(d) /\ DayNumber(d) = s.days
  BY <1>2, CivilFacts
<1>4. /\ hour \in 0..23 /\ min \in 0..MinPerHour - 1 /\ second \in 0..SecPerMin - 1
      /\ hour * SecPerHour + min * SecPerMin + second = s.rem
  BY <1>2, DayClock
<1> HIDE DEF hour, min, second, d
<1>5. t.year = d.year /\ t.month = d.month /\ t.day = d.day
      /\ t.hour = hour /\ t.min = min /\ t.second = second
  OBVIOUS
<1>6. IsDate(t) /\ DayNumber(t) = s.days
  <2> HIDE DEF t
  <2> QED BY <1>3, <1>5, SameDate
<1> HIDE DEF t
<1>7. s.days * SecPerDay \in Int /\ hour * SecPerHour \in Int /\ min * SecPerMin \in Int
      /\ second \in Int
  BY <1>2, <1>4, UnitFacts
<1>8. s.days * SecPerDay + hour * SecPerHour + min * SecPerMin + second = sec
  BY <1>2, <1>4, <1>7
<1>9. [year |-> t.year, month |-> t.month, day |-> t.day] = d
  BY <1>3, <1>5, Zenon
<1> QED BY <1>1, <1>2, <1>3, <1>4, <1>5, <1>6, <1>8, <1>9 DEF s

(* timestamp and timestamptz.                                                 *)
LEMMA TimestampFacts == ASSUME NEW usec \in Int PROVE TimestampDenotesItself(usec)
<1> SUFFICES ASSUME usec \in Int64Min + 1 .. Int64Max - 1 PROVE TimestampDenotesItself(usec)
  BY DEF TimestampDenotesItself
<1> DEFINE s == SecAndFrac(usec)
           t == splitTime(s.sec)
<1>1. encodeTimestampBinary(usec) = [time |-> t, frac |-> s.frac]
  <2>1. usec # Int64Max /\ usec # Int64Min
    BY DEF Int64Min
  <2> QED BY <2>1 DEF encodeTimestampBinary, appendISOTimestamp
<1>2. /\ s.sec \in Int /\ s.frac \in Nat
      /\ s.frac < TicksPerSec /\ usec = (s.sec - pgEpochUnix) * TicksPerSec + s.frac
  BY SecAndFracFacts
<1> HIDE DEF s
<1>3. /\ IsDate(t) /\ DayNumber(t) \in Int
      /\ t.hour \in 0..23 /\ t.min \in 0..MinPerHour - 1 /\ t.second \in 0..SecPerMin - 1
      /\ DayNumber(t) * SecPerDay + t.hour * SecPerHour + t.min * SecPerMin + t.second = s.sec
  BY <1>2, SplitTimeFacts
<1> HIDE DEF t
<1>4. (DayNumber(t) - 10957) * SecPerDay = DayNumber(t) * SecPerDay - pgEpochUnix
      /\ DayNumber(t) * SecPerDay \in Int /\ pgEpochUnix \in Int
  BY <1>3, UnitFacts, SMT DEF pgEpochUnix
<1>5. (DayNumber(t) - 10957) * SecPerDay + t.hour * SecPerHour + t.min * SecPerMin + t.second
        = s.sec - pgEpochUnix
  <2>1. t.hour * SecPerHour \in Int /\ t.min * SecPerMin \in Int /\ t.second \in Int
    BY <1>3, UnitFacts
  <2> QED BY <1>2, <1>3, <1>4, <2>1, SMT
<1>6. s.frac \in 0..TicksPerSec - 1
  BY <1>2
<1>7. /\ encodeTimestampBinary(usec).time = t /\ encodeTimestampBinary(usec).frac = s.frac
      /\ pgUsecToTime(usec) = s
  BY <1>1 DEF pgUsecToTime, s
<1>8. ((DayNumber(t) - 10957) * SecPerDay + t.hour * SecPerHour + t.min * SecPerMin
          + t.second) * TicksPerSec + s.frac = usec
  BY <1>2, <1>5, SMT
<1> QED BY <1>2, <1>3, <1>6, <1>7, <1>8, SMT DEF TimestampDenotesItself

(* date.                                                                      *)
LEMMA DateFacts == ASSUME NEW days \in Int PROVE DateDenotesItself(days)
<1> DEFINE usec == days * TicksPerDay
<1> SUFFICES ASSUME usec \in Int64Min..Int64Max, days \in Int32Min + 1 .. Int32Max - 1
             PROVE  LET d == encodeDateBinary(days) IN IsDate(d) /\ DayNumber(d) - 10957 = days
  BY DEF DateDenotesItself
<1>1. usec \in Int /\ usec = (days * SecPerDay) * TicksPerSec /\ days * SecPerDay \in Int
  BY UnitFacts, SMT DEF TicksPerDay
<1>2. Wrap(usec) = usec
  <2>1. (usec - Int64Min) % (2 * (Int64Max + 1)) = usec - Int64Min
    BY <1>1, SMT DEF Int64Min
  <2> QED BY <2>1, <1>1, SMT DEF Wrap, Int64Min
<1>3. Quot(usec, TicksPerSec) = days * SecPerDay
  <2>1. /\ Quot(usec, TicksPerSec) \in Int /\ Rem(usec, TicksPerSec) \in Int
        /\ usec = Quot(usec, TicksPerSec) * TicksPerSec + Rem(usec, TicksPerSec)
        /\ -TicksPerSec < Rem(usec, TicksPerSec) /\ Rem(usec, TicksPerSec) < TicksPerSec
    BY <1>1, QuotFacts
  <2> DEFINE q == Quot(usec, TicksPerSec)
             r == Rem(usec, TicksPerSec)
  <2> HIDE DEF q, r, usec
  <2>2. CASE r >= 0
    BY <2>1, <2>2, <1>1, DivisionUnique DEF q, r
  <2>3. CASE r < 0
    <3>1. q * TicksPerSec + r = (q - 1) * TicksPerSec + (r + TicksPerSec)
      BY <2>1, SMT DEF q, r
    <3>2. (q - 1) * TicksPerSec + (r + TicksPerSec) = (days * SecPerDay) * TicksPerSec + 0
      BY <2>1, <3>1, <1>1 DEF q, r
    <3>3. /\ q - 1 \in Int /\ r + TicksPerSec \in Int
          /\ 0 <= r + TicksPerSec /\ r + TicksPerSec < TicksPerSec
      BY <2>1, <2>3 DEF q, r
    <3>4. r + TicksPerSec = 0
      <4> DEFINE a == q - 1
                 b == r + TicksPerSec
                 c == days * SecPerDay
                 o == 0
      <4>1. a \in Int /\ b \in Int /\ c \in Int /\ o \in Int /\ 0 <= b /\ b < TicksPerSec
            /\ 0 <= o /\ o < TicksPerSec /\ a * TicksPerSec + b = c * TicksPerSec + o
        BY <3>2, <3>3, <1>1
      <4> HIDE DEF a, b, c, o
      <4>2. b = o
        BY <4>1, DivisionUnique, Zenon
      <4> QED BY <4>2 DEF b, o
    <3> QED BY <3>4, <2>1, <2>3 DEF q, r
  <2> QED BY <2>1, <2>2, <2>3 DEF q, r
<1> HIDE DEF usec
<1>4. pgEpochUnix + days * SecPerDay = (days + 10957) * SecPerDay
      /\ (days + 10957) * SecPerDay \in Int
  BY UnitFacts, SMT DEF pgEpochUnix
<1> DEFINE sec == (days + 10957) * SecPerDay
           t == splitTime(sec)
<1>5. SplitDays(sec).days = days + 10957
  <2>1. /\ SplitDays(sec).days \in Int /\ SplitDays(sec).rem \in Nat
        /\ SplitDays(sec).rem < SecPerDay
        /\ sec = SplitDays(sec).days * SecPerDay + SplitDays(sec).rem
    BY <1>4, SplitFacts
  <2> HIDE DEF sec
  <2>2. (days + 10957) * SecPerDay + 0 = SplitDays(sec).days * SecPerDay + SplitDays(sec).rem
    BY <2>1, <1>4, SMT DEF sec
  <2>3. days + 10957 \in Int /\ SplitDays(sec).rem \in Int /\ 0 \in Int /\ 0 < SecPerDay /\ 0 <= 0
        /\ 0 <= SplitDays(sec).rem
    BY <2>1, UnitFacts, SMT
  <2> QED BY <2>1, <2>2, <2>3, UnitFacts, DivisionUnique, SMT
<1>6. /\ IsDate([year |-> t.year, month |-> t.month, day |-> t.day])
      /\ DayNumber([year |-> t.year, month |-> t.month, day |-> t.day]) = days + 10957
  <2> HIDE DEF sec
  <2>1. sec \in Int BY <1>4 DEF sec
  <2> QED BY <2>1, <1>5, SplitTimeFacts
<1>7. encodeDateBinary(days) = [year |-> t.year, month |-> t.month, day |-> t.day]
  <2>1. days # Int32Max /\ days # Int32Min
    BY DEF Int32Min
  <2>2. appendISODateOnly(usec) = [year |-> t.year, month |-> t.month, day |-> t.day]
    <3> HIDE DEF t
    <3>1. splitTime(pgEpochUnix + Quot(usec, TicksPerSec)) = t
      BY <1>3, <1>4 DEF t
    <3> QED BY <3>1, SMT DEF appendISODateOnly
  <2> HIDE DEF t
  <2> QED BY <1>2, <2>1, <2>2, Zenon DEF encodeDateBinary, usec
<1> HIDE DEF t
<1>8. days + 10957 - 10957 = days
  BY SMT
<1> QED BY <1>6, <1>7, <1>8, SMT

(* A duration is its hours, minutes, seconds and fraction, all with its sign. *)
LEMMA ClockFacts ==
    ASSUME NEW usec \in Int
    PROVE  LET c == Clock(usec)
           IN  /\ c.hours \in Int /\ c.mins \in Int /\ c.secs \in Int /\ c.frac \in Int
               /\ ((c.hours * MinPerHour + c.mins) * SecPerMin + c.secs) * TicksPerSec + c.frac = usec
               /\ c.mins \in -MinPerHour + 1 .. MinPerHour - 1
               /\ c.secs \in -SecPerMin + 1 .. SecPerMin - 1
               /\ usec >= 0 => c.hours >= 0 /\ c.mins >= 0 /\ c.secs >= 0 /\ c.frac >= 0
               /\ usec <= 0 => c.hours <= 0 /\ c.mins <= 0 /\ c.secs <= 0 /\ c.frac <= 0
<1> DEFINE h == Quot(usec, TicksPerHour)
           u1 == usec - h * TicksPerHour
           m == Quot(u1, TicksPerMin)
           u2 == u1 - m * TicksPerMin
           s == Quot(u2, TicksPerSec)
           f == u2 - s * TicksPerSec
<1>1. Clock(usec) = [hours |-> h, mins |-> m, secs |-> s, frac |-> f]
  BY DEF Clock
<1>2. /\ h \in Int /\ u1 \in Int /\ usec = h * TicksPerHour + u1
      /\ usec >= 0 => h >= 0 /\ u1 >= 0
      /\ usec <= 0 => h <= 0 /\ u1 <= 0
      /\ -TicksPerHour < u1 /\ u1 < TicksPerHour
  BY QuotFacts, UnitFacts, Zenon DEF Rem
<1> HIDE DEF h, u1
<1>3. /\ m \in Int /\ u2 \in Int /\ u1 = m * TicksPerMin + u2
      /\ u1 >= 0 => m >= 0 /\ u2 >= 0
      /\ u1 <= 0 => m <= 0 /\ u2 <= 0
      /\ -TicksPerMin < u2 /\ u2 < TicksPerMin
  BY <1>2, QuotFacts, UnitFacts, Zenon DEF Rem
<1> HIDE DEF m, u2
<1>4. /\ s \in Int /\ f \in Int /\ u2 = s * TicksPerSec + f
      /\ u2 >= 0 => s >= 0 /\ f >= 0
      /\ u2 <= 0 => s <= 0 /\ f <= 0
      /\ -TicksPerSec < f /\ f < TicksPerSec
  BY <1>3, QuotFacts, Zenon DEF Rem
<1> HIDE DEF s, f
<1>5. -MinPerHour < m /\ m < MinPerHour
  <2>1. TicksPerHour = MinPerHour * TicksPerMin
    BY SMT DEF TicksPerHour, TicksPerMin, SecPerHour
  <2>2. ~(m >= MinPerHour)
    <3> SUFFICES ASSUME m >= MinPerHour PROVE FALSE
      OBVIOUS
    <3>1. m * TicksPerMin >= MinPerHour * TicksPerMin
      BY <1>3, UnitFacts, SMT
    <3>2. u1 >= 0 => u2 >= 0
      BY <1>3
    <3>3. u1 >= 0
      BY <1>3, <2>1, <3>1, UnitFacts, SMT
    <3> QED BY <1>2, <1>3, <2>1, <3>1, <3>2, <3>3, UnitFacts, SMT
  <2>3. ~(m <= -MinPerHour)
    <3> SUFFICES ASSUME m <= -MinPerHour PROVE FALSE
      OBVIOUS
    <3>1. m * TicksPerMin <= -(MinPerHour * TicksPerMin)
      BY <1>3, UnitFacts, SMT
    <3>3. u1 <= 0
      BY <1>3, <2>1, <3>1, UnitFacts, SMT
    <3> QED BY <1>2, <1>3, <2>1, <3>1, <3>3, UnitFacts, SMT
  <2> QED BY <1>3, <2>2, <2>3
<1>6. -SecPerMin < s /\ s < SecPerMin
  <2>1. TicksPerMin = SecPerMin * TicksPerSec
    BY SMT DEF TicksPerMin
  <2>2. ~(s >= SecPerMin)
    <3> SUFFICES ASSUME s >= SecPerMin PROVE FALSE
      OBVIOUS
    <3>1. s * TicksPerSec >= SecPerMin * TicksPerSec
      BY <1>4, SMT
    <3>3. u2 >= 0
      BY <1>4, <2>1, <3>1, UnitFacts, SMT
    <3> QED BY <1>3, <1>4, <2>1, <3>1, <3>3, UnitFacts, SMT
  <2>3. ~(s <= -SecPerMin)
    <3> SUFFICES ASSUME s <= -SecPerMin PROVE FALSE
      OBVIOUS
    <3>1. s * TicksPerSec <= -(SecPerMin * TicksPerSec)
      BY <1>4, SMT
    <3>3. u2 <= 0
      BY <1>4, <2>1, <3>1, UnitFacts, SMT
    <3> QED BY <1>3, <1>4, <2>1, <3>1, <3>3, UnitFacts, SMT
  <2> QED BY <1>4, <2>2, <2>3
<1>7. ((h * MinPerHour + m) * SecPerMin + s) * TicksPerSec + f = usec
  <2>1. TicksPerHour = MinPerHour * SecPerMin * TicksPerSec /\ TicksPerMin = SecPerMin * TicksPerSec
    BY DEF TicksPerHour, TicksPerMin, SecPerHour
  <2>2. ((h * MinPerHour + m) * SecPerMin + s) * TicksPerSec + f
          = h * (MinPerHour * SecPerMin * TicksPerSec) + (m * (SecPerMin * TicksPerSec) + (s * TicksPerSec + f))
    BY <1>2, <1>3, <1>4, SMT
  <2> QED BY <1>2, <1>3, <1>4, <2>1, <2>2
<1>8. m \in -MinPerHour + 1 .. MinPerHour - 1 /\ s \in -SecPerMin + 1 .. SecPerMin - 1
  BY <1>3, <1>4, <1>5, <1>6
<1> QED BY <1>1, <1>2, <1>3, <1>4, <1>7, <1>8, SMT

(* time.                                                                      *)
LEMMA TimeFacts == ASSUME NEW usec \in Nat PROVE ClockValue(appendTimeOfDay(usec)) = usec
<1>1. appendTimeOfDay(usec) = Clock(usec)
  BY DEF appendTimeOfDay
<1> QED BY <1>1, ClockFacts, SMT DEF ClockValue

(* interval.                                                                  *)
LEMMA IntervalFacts ==
    ASSUME NEW micros \in Int, NEW days \in Int, NEW months \in Int
    PROVE  IntervalDenotesItself(micros, days, months)
<1> DEFINE c == Clock(micros)
           text == encodeIntervalBinary(micros, days, months)
<1>1. /\ text.years = Quot(months, 12) /\ text.months = months - Quot(months, 12) * 12
      /\ text.days = days /\ text.hours = c.hours /\ text.mins = c.mins /\ text.secs = c.secs
      /\ text.frac = IF c.frac < 0 THEN -c.frac ELSE c.frac
  BY DEF encodeIntervalBinary
<1> HIDE DEF text
<1>2. text.years * 12 + text.months = months /\ text.months \in -11..11
  BY <1>1, SMT DEF Quot
<1>3. /\ c.hours \in Int /\ c.mins \in Int /\ c.secs \in Int /\ c.frac \in Int
      /\ ((c.hours * MinPerHour + c.mins) * SecPerMin + c.secs) * TicksPerSec + c.frac = micros
      /\ c.mins \in -MinPerHour + 1 .. MinPerHour - 1
      /\ c.secs \in -SecPerMin + 1 .. SecPerMin - 1
      /\ micros >= 0 => c.secs >= 0 /\ c.frac >= 0
      /\ micros <= 0 => c.secs <= 0 /\ c.frac <= 0
  BY ClockFacts
<1>4. ASSUME text.secs # 0 \/ c.frac >= 0 PROVE ClockValue(text) = micros
  <2>1. (IF text.secs < 0 THEN -text.frac ELSE text.frac) = c.frac
    BY <1>1, <1>3, <1>4
  <2> QED BY <1>1, <1>3, <2>1 DEF ClockValue
<1> QED BY <1>1, <1>2, <1>3, <1>4 DEF IntervalDenotesItself, text

(* timetz.                                                                    *)
LEMMA TimeTZFacts ==
    ASSUME NEW usec \in Nat, NEW zone \in Int
    PROVE  TimeTZDenotesItself(usec, zone)
<1> DEFINE east == -zone
           abs == IF east >= 0 THEN east ELSE -east
           text == encodeTimeTZBinary(usec, zone)
           sign == IF east >= 0 THEN 1 ELSE -1
           h == abs \div SecPerHour
           u == abs % SecPerHour
           m == u \div SecPerMin
           q == abs \div SecPerMin
<1>1. text.time = appendTimeOfDay(usec) /\ text.sign = sign /\ text.hours = h /\ text.mins = m
  BY SMT DEF encodeTimeTZBinary, EastOfUTC
<1>2. abs \in Nat /\ abs = h * SecPerHour + u /\ h \in Int /\ u \in Int /\ 0 <= u /\ u < SecPerHour
  BY UnitFacts, SMT
<1> HIDE DEF h, u
<1>3. m \in Int /\ m * SecPerMin <= u /\ u < m * SecPerMin + SecPerMin
  BY <1>2, SMT
<1>4. q \in Int /\ q * SecPerMin <= abs /\ abs < q * SecPerMin + SecPerMin
  BY <1>2, SMT
<1> HIDE DEF m, q
<1>5. m < MinPerHour
  <2> SUFFICES ASSUME m >= MinPerHour PROVE FALSE
    BY <1>3
  <2>1. m * SecPerMin >= MinPerHour * SecPerMin
    BY <1>3, SMT
  <2> QED BY <1>2, <1>3, <2>1 DEF SecPerHour
<1>6. h * MinPerHour + m = q
  <2> DEFINE p == h * MinPerHour + m
             r == u - m * SecPerMin
             s == abs - q * SecPerMin
  <2>1. p * SecPerMin = h * SecPerHour + m * SecPerMin
    BY <1>2, <1>3, SMT DEF SecPerHour
  <2>2. /\ p \in Int /\ r \in Int /\ s \in Int /\ 0 <= r /\ r < SecPerMin /\ 0 <= s /\ s < SecPerMin
        /\ p * SecPerMin + r = q * SecPerMin + s
    BY <1>2, <1>3, <1>4, <2>1, UnitFacts, SMT
  <2> HIDE DEF p, r, s
  <2>3. p = q
    BY <1>4, <2>2, DivisionUnique, Zenon
  <2> QED BY <2>3 DEF p
<1>7. sign * (h * MinPerHour + m) * SecPerMin = -(zone - Rem(zone, SecPerMin))
  <2>1. Rem(zone, SecPerMin) = zone - Quot(zone, SecPerMin) * SecPerMin
    BY DEF Rem
  <2>2. Quot(zone, SecPerMin) = -(sign * q)
    <3>1. CASE zone = 0
      BY <3>1, <1>4, SMT DEF Quot, q
    <3>2. CASE zone > 0
      BY <3>2, <1>4, SMT DEF Quot, q
    <3>3. CASE zone < 0
      BY <3>3, <1>4, SMT DEF Quot, q
    <3> QED BY <3>1, <3>2, <3>3
  <2> HIDE DEF sign
  <2>3. sign \in Int
    BY DEF sign
  <2>4. sign * (h * MinPerHour + m) * SecPerMin = (sign * q) * SecPerMin
    BY <1>6
  <2>5. -(zone - (zone - (-(sign * q)) * SecPerMin)) = (sign * q) * SecPerMin
    <3>1. sign * q \in Int
      BY <2>3, <1>4
    <3> QED BY <3>1, SMT
  <2> QED BY <2>1, <2>2, <2>4, <2>5
<1>8. ClockValue(text.time) = usec
  BY <1>1, TimeFacts
<1> HIDE DEF text, sign
<1> QED BY <1>1, <1>5, <1>7, <1>8, Zenon DEF TimeTZDenotesItself, text

(* The date and time encoders denote what the server sent, for every instant, *)
(* day, time of day and interval there is, however long a minute and however  *)
(* wide an integer: the calendar of splitTime inverts the day number, and the *)
(* corrections of truncated division make it floor division.                  *)
THEOREM TimeTheorem == CodecSpec => []TimeTextDenotes
<1>1. CodecInv => TimeTextDenotes
  <2> SUFFICES ASSUME CodecInv PROVE TimeTextDenotes
    OBVIOUS
  <2>1. IsInput(part, in)
    BY DEF CodecInv
  <2>2. ASSUME part = "timestamp" PROVE TimestampDenotesItself(in)
    <3>1. in \in Int
      BY <2>1, <2>2 DEF IsInput
    <3> QED BY <3>1, TimestampFacts
  <2>3. ASSUME part = "date" PROVE DateDenotesItself(in)
    <3>1. in \in Int
      BY <2>1, <2>3 DEF IsInput
    <3> QED BY <3>1, DateFacts
  <2>4. ASSUME part = "time" PROVE TimeDenotesItself(in)
    <3>1. in \in Int
      BY <2>1, <2>4 DEF IsInput
    <3> QED BY <3>1, TimeFacts DEF TimeDenotesItself
  <2>5. ASSUME part = "timetz" PROVE TimeTZDenotesItself(in[1], in[2])
    <3>1. in \in Nat \X Int
      BY <2>1, <2>5 DEF IsInput
    <3> QED BY <3>1, TimeTZFacts
  <2>6. ASSUME part = "interval" PROVE IntervalDenotesItself(in[1], in[2], in[3])
    <3>1. in \in Int \X Int \X Int
      BY <2>1, <2>6 DEF IsInput
    <3> QED BY <3>1, IntervalFacts
  <2> QED BY <2>2, <2>3, <2>4, <2>5, <2>6 DEF TimeTextDenotes
<1> QED BY <1>1, CodecInvariance, PTL

HIDE TemporalAssumption

-----------------------------------------------------------------------------
(* Formats and encoders *)

(* The types with a binary encoder of their own, and the arrays.              *)
LEMMA Domains ==
    /\ DOMAIN Binary = {"Bool", "Int2", "Int4", "OID", "Int8", "Float4", "Float8", "UUID", "Timestamp",
                        "TimestampTZ", "Date", "JSONB", "Interval", "Time", "TimeTZ", "Bytea"}
    /\ DOMAIN ArrayElem = {"BoolArray", "Int2Array", "Int4Array", "Int8Array", "Float4Array",
                           "Float8Array", "TextArray", "VarcharArray", "BPCharArray", "UUIDArray",
                           "JSONArray", "JSONBArray", "TimestampArray", "TimestampTZArray",
                           "DateArray", "OIDArray", "ByteaArray", "NumericArray"}
    /\ \A o \in DOMAIN Binary :
          Binary[o] \in {"bool", "int2", "int4", "int8", "float4", "float8", "uuid", "timestamp",
                         "date", "jsonb", "interval", "time", "timetz", "bytes"}
BY DEF Binary, ArrayElem

(* The encoder a binary column gets makes sense of the form the server sends  *)
(* its type in.                                                               *)
LEMMA EncoderReads ==
    ASSUME NEW oid, oid \notin {"text", "range"}
    PROVE  Reads(IF HasBinary(oid) THEN PickBinary(oid) ELSE "EncodeOpaqueBinary", ServerForm(oid))
<1>1. CASE oid \in DOMAIN Binary
  <2>1. oid \notin DOMAIN ArrayElem
    BY <1>1, Domains
  <2>2. PickBinary(oid) = Binary[oid] /\ ServerForm(oid) = Binary[oid]
    BY <1>1, <2>1 DEF PickBinary, ServerForm
  <2> QED BY <1>1, <2>2, Domains DEF HasBinary, Reads
<1>2. CASE oid \in Strings \cup Ranges \cup {"JSON"}
  <2>1. oid \notin DOMAIN ArrayElem /\ oid \notin DOMAIN Binary
    BY <1>2, Domains DEF Strings, Ranges
  <2>2. CASE oid = "JSON"
    BY <2>1, <2>2 DEF PickBinary, ServerForm, HasBinary, Reads, Strings, Ranges
  <2>3. CASE oid \in Strings
    <3>1. PickBinary(oid) = "EncodeString" /\ ServerForm(oid) = "text"
      BY <2>1, <2>3 DEF PickBinary, ServerForm, Strings, Ranges
    <3> QED BY <3>1 DEF HasBinary, Reads
  <2>4. CASE oid \in Ranges
    <3>1. PickBinary(oid) = "EncodeString" /\ ServerForm(oid) = "range"
      BY <2>1, <2>4 DEF PickBinary, ServerForm, Strings, Ranges
    <3> QED BY <3>1 DEF HasBinary, Reads
  <2> QED BY <1>2, <2>2, <2>3, <2>4
<1>3. CASE oid \in DOMAIN ArrayElem
  <2>1. ServerForm(oid) = "array"
    <3>1. oid \notin DOMAIN Binary /\ oid \notin Strings \cup {"JSON"} /\ oid \notin Ranges
      BY <1>3, Domains DEF Strings, Ranges
    <3> QED BY <1>3, <3>1 DEF ServerForm
  <2>2. PickBinary(oid) \in {"nil", "array"}
    BY <1>3 DEF PickBinary
  <2> QED BY <2>1, <2>2 DEF HasBinary, Reads
<1>4. CASE oid \notin DOMAIN Binary /\ oid \notin Strings \cup Ranges \cup {"JSON"}
           /\ oid \notin DOMAIN ArrayElem
  <2>1. PickBinary(oid) = "nil" /\ ServerForm(oid) = oid
    BY <1>4 DEF PickBinary, ServerForm
  <2> QED BY <2>1 DEF HasBinary, Reads
<1> QED BY <1>1, <1>2, <1>3, <1>4

(* Bind, the server and the plan agree on the format of every column.         *)
LEMMA FormatsFacts ==
    ASSUME NEW cols \in Seq(STRING \ {"text", "range"}), NEW binaryOIDs
    PROVE  FormatsMatch(cols, binaryOIDs)
<1> DEFINE fmts == ResultFormats(cols, binaryOIDs)
           codes == BindFormats(fmts)
           plan == ApplyFormats(cols, fmts)
<1>1. Len(cols) \in Nat /\ \A i \in 1..Len(cols) : cols[i] \in STRING \ {"text", "range"}
  OBVIOUS
<1>2. fmts \in Seq({0, 1}) /\ Len(fmts) = Len(cols)
      /\ \A i \in 1..Len(cols) : fmts[i] \in {0, 1}
  BY <1>1 DEF ResultFormats
<1> HIDE DEF fmts
<1> SUFFICES ASSUME NEW i \in 1..Len(cols)
             PROVE  /\ plan[i].format = ServerFormat(codes, i)
                    /\ IF ServerFormat(codes, i) = 0 THEN plan[i].encoder = Pick(cols[i])
                       ELSE Reads(plan[i].encoder, ServerForm(cols[i]))
  BY DEF FormatsMatch, fmts
<1>3. plan[i] = [format |-> fmts[i],
                 encoder |-> IF fmts[i] = 0 THEN Pick(cols[i])
                             ELSE IF HasBinary(cols[i]) THEN PickBinary(cols[i])
                             ELSE "EncodeOpaqueBinary"]
  <2>1. (IF Len(fmts) = 1 THEN fmts[1] ELSE IF Len(fmts) = Len(cols) THEN fmts[i] ELSE 0) = fmts[i]
    BY <1>1, <1>2
  <2> QED BY <2>1 DEF ApplyFormats
<1>4. ServerFormat(codes, i) = fmts[i]
  <2>1. CASE allBinary(fmts)
    <3>1. codes = <<1>> /\ fmts[i] = 1
      BY <1>2, <2>1 DEF BindFormats, allBinary
    <3> QED BY <3>1 DEF ServerFormat
  <2>2. CASE ~allBinary(fmts)
    <3>1. codes = fmts
      BY <2>2 DEF BindFormats
    <3>2. fmts # <<>> /\ (Len(fmts) = 1 => i = 1)
      BY <1>1, <1>2
    <3> QED BY <3>1, <3>2 DEF ServerFormat
  <2> QED BY <2>1, <2>2
<1>5. Reads(IF HasBinary(cols[i]) THEN PickBinary(cols[i]) ELSE "EncodeOpaqueBinary",
            ServerForm(cols[i]))
  BY <1>1, EncoderReads
<1>6. plan[i].format = fmts[i]
      /\ (fmts[i] = 0 => plan[i].encoder = Pick(cols[i]))
      /\ (fmts[i] # 0 => plan[i].encoder = IF HasBinary(cols[i]) THEN PickBinary(cols[i])
                                           ELSE "EncodeOpaqueBinary")
  BY <1>3
<1> HIDE DEF plan, codes
<1> QED BY <1>4, <1>5, <1>6

(* The formats of Bind, the encoders of the plan and the bytes of the server  *)
(* agree for every list of columns and every set of registered types.         *)
THEOREM FormatsTheorem == CodecSpec => []FormatsAgree
<1>1. CodecInv => FormatsAgree
  <2> SUFFICES ASSUME CodecInv, part = "formats" PROVE FormatsMatch(in.cols, in.binaryOIDs)
    BY DEF FormatsAgree
  <2>1. in \in [cols : Seq(TypeNames), binaryOIDs : SUBSET TypeNames]
    BY DEF CodecInv, IsInput
  <2>2. in.cols \in Seq(STRING \ {"text", "range"})
    BY <2>1 DEF TypeNames
  <2> QED BY <2>2, FormatsFacts
<1> QED BY <1>1, CodecInvariance, PTL

-----------------------------------------------------------------------------
(* The readers of a cell *)

(* The span of an integer of some bytes is even, and it splits at its half    *)
(* into the numbers and their negatives.                                      *)
LEMMA SpanFacts ==
    ASSUME NEW n \in Nat \ {0}
    PROVE  LET span == Power(ByteBase, n)
           IN  span \in Nat \ {0} /\ span \div 2 \in Nat \ {0} /\ span = 2 * (span \div 2)
<1>1. ByteBase \in Nat \ {0} /\ ByteBase % 2 = 0 /\ ByteBase \in Int
  BY DispatchAssumption
<1>2. n - 1 \in Nat /\ n - 1 + 1 = n
  OBVIOUS
<1>3. Power(ByteBase, n) = Power(ByteBase, n - 1) * ByteBase
  BY <1>1, <1>2, PowerDef
<1>4. Power(ByteBase, n - 1) \in Nat \ {0}
  BY <1>1, <1>2, PowerPositive
<1>5. PICK c \in Nat \ {0} : ByteBase = 2 * c
  <2>1. ByteBase \div 2 \in Nat \ {0} /\ ByteBase = 2 * (ByteBase \div 2)
    BY <1>1, SMT
  <2> QED BY <2>1
<1> DEFINE p == Power(ByteBase, n - 1)
<1> HIDE DEF p
<1>6. p * c \in Nat \ {0}
  <2>1. \A x, y \in Nat \ {0} : x * y \in Nat \ {0}
    BY SMT
  <2> QED BY <1>4, <1>5, <2>1 DEF p
<1>7. Power(ByteBase, n) = 2 * (p * c)
  <2>1. \A x, y \in Nat : x * (2 * y) = 2 * (x * y)
    BY SMT
  <2> QED BY <1>3, <1>4, <1>5, <2>1 DEF p
<1> QED BY <1>6, <1>7, SMT

(* The bytes of a cell are an integer.                                        *)
LEMMA SignedInt ==
    ASSUME NEW raw \in Seq(0..ByteBase - 1), Len(raw) # 0
    PROVE  Signed(raw) \in Int
<1>1. ByteBase \in Nat \ {0}
  BY DispatchAssumption
<1>2. Value(raw, ByteBase) \in Nat
  BY <1>1, ValueBound
<1>3. Len(raw) \in Nat \ {0}
  OBVIOUS
<1>4. Power(ByteBase, Len(raw)) \in Nat
  BY <1>3, SpanFacts
<1> QED BY <1>2, <1>4 DEF Signed, SignedOf, Unsigned

(* A field that can represent an integer keeps it: the low bytes of a number  *)
(* in the range of the field, read back, are the number.                      *)
LEMMA StoreFits ==
    ASSUME IntSize = 8, NEW k \in DOMAIN KindSize, NEW v \in Int, Fits(k, v)
    PROVE  StoreInt(v, KindSize[k], k \in SignedKinds).v = v
<1>1. KindSize[k] \in Nat \ {0}
  BY DEF KindSize
<1> DEFINE span == Power(ByteBase, KindSize[k])
           half == span \div 2
           low == v % span
<1>2. span \in Nat \ {0} /\ half \in Nat \ {0} /\ span = 2 * half
  BY <1>1, SpanFacts
<1>3. StoreInt(v, KindSize[k], k \in SignedKinds).v
        = IF k \in SignedKinds THEN (IF low >= half THEN low - span ELSE low) ELSE low
  BY DEF StoreInt, SignedOf
<1>4. Fits(k, v) <=> IF k \in SignedKinds THEN v \in -half..half - 1 ELSE v \in 0..2 * half - 1
  BY DEF Fits
<1> HIDE DEF span, half
<1>5. CASE k \in SignedKinds
  <2>1. v \in -half..half - 1
    BY <1>4, <1>5
  <2>2. CASE v >= 0
    <3>1. low = v
      BY <1>2, <2>1, <2>2, SMT
    <3> QED BY <1>2, <1>3, <1>5, <2>1, <3>1
  <2>3. CASE v < 0
    <3>1. low = v + span
      BY <1>2, <2>1, <2>3, SMT
    <3> HIDE DEF low
    <3> QED BY <1>2, <1>3, <1>5, <2>1, <3>1
  <2> QED BY <2>1, <2>2, <2>3
<1>6. CASE k \notin SignedKinds
  <2>1. v \in 0..2 * half - 1
    BY <1>4, <1>6
  <2>2. low = v
    BY <1>2, <2>1, SMT
  <2> QED BY <1>3, <1>6, <2>2
<1> QED BY <1>5, <1>6

(* The sizes on the wire.                                                     *)
LEMMA WireFacts ==
    /\ DOMAIN WireLen = {"Bool"} \cup Ints \cup Floats \cup Instants \cup {"UUID"}
    /\ WireLen["Bool"] = 1
    /\ \A o \in DOMAIN WireLen : WireLen[o] \in Nat \ {0}
    /\ WireLen["Int2"] = 2 /\ WireLen["Int4"] = 4 /\ WireLen["OID"] = 4 /\ WireLen["Int8"] = 8
    /\ WireLen["Float4"] = 4 /\ WireLen["Float8"] = 8
BY DEF WireLen, Ints, Floats, Instants

(* The kinds of the values.                                                   *)
LEMMA ValFacts ==
    /\ \A v : Val("int", v).kind = "int" /\ Val("int", v).v = v /\ Meaning(Val("int", v)) = Val("int", v)
    /\ \A v : \A c \in {"bool", "float", "time", "bytes"} :
          Meaning(Val(c, v)) = Val(c, v) /\ Val(c, v).kind # "int"
    /\ \A v : \A c \in {"hex", "uuid"} :
          Meaning(Val(c, v)) = Val("bytes", v) /\ Val(c, v).kind # "int"
BY DEF Val, Meaning

(* Every sized type, and jsonb, has a binary encoder.                         *)
LEMMA BinaryTypes ==
    \A o \in DOMAIN WireLen \cup {"JSONB"} : HasBinary(o)
<1> SUFFICES ASSUME NEW o \in DOMAIN WireLen \cup {"JSONB"} PROVE HasBinary(o)
  OBVIOUS
<1>1. o \in {"Bool", "Int2", "Int4", "OID", "Int8", "Float4", "Float8", "Timestamp", "TimestampTZ",
             "Date", "UUID", "JSONB"}
  BY DEF WireLen
<1>2. o \in DOMAIN Binary /\ o \notin DOMAIN ArrayElem
  BY <1>1 DEF Binary, ArrayElem
<1>3. Binary[o] # "nil"
  BY <1>1 DEF Binary
<1> QED BY <1>2, <1>3 DEF HasBinary, PickBinary

(* The JSON of a binary cell, when another reader makes the same of it.       *)
LEMMA BinaryJSON ==
    ASSUME NEW oid, NEW raw, ~OwnText(oid, 1)
    PROVE  JSONValue(oid, 1, raw) =
             CASE oid = "Bool" -> Val("bool", Len(raw) = 1 /\ raw[1] # 0)
               [] oid \in Ints /\ Len(raw) = WireLen[oid] -> Val("int", Signed(raw))
               [] oid \in Floats /\ Len(raw) = WireLen[oid] -> Val("float", raw)
               [] oid \in Instants /\ Len(raw) = WireLen[oid] ->
                     Val(IF Infinite(oid, raw) THEN "infinity" ELSE "time", Signed(raw))
               [] oid = "UUID" /\ Len(raw) = WireLen[oid] -> Val("uuid", raw)
               [] oid = "Bytea" \/ ~HasBinary(oid) -> Val("hex", raw)
               [] oid = "JSONB" /\ raw # <<>> /\ raw[1] = 1 -> Val("bytes", Tail(raw))
               [] OTHER -> Val("bytes", raw)
<1>1. 1 # 0
  OBVIOUS
<1> QED BY <1>1, Zenon DEF JSONValue

(* What there is to show of a cell: that the fast paths agree with the slow   *)
(* ones, and that the three values are one where they are said to be.         *)
LEMMA OneValue ==
    ASSUME NEW oid, NEW format, NEW target, NEW raw, NEW json, NEW field,
           OwnText(oid, format) \/ json = JSONValue(oid, format, raw),
           FieldStores(oid, format, target, raw) = field,
           NextYields(oid, format, raw) = DriverDecodes(oid, format, raw),
           inlineOpFor(oid, format, target).len # 0 => HasSetter(oid, format, target.kind),
           HasSetter(oid, format, target.kind) => SetterStores(oid, format, target.kind, raw) = field,
           format = 1 /\ oid = "OID" /\ target.kind = "Uint32" => field.v = Unsigned(raw),
           OwnText(oid, format) \/ (format = 1 /\ (Infinite(oid, raw) \/ HighOid(oid, raw)))
             \/ /\ NextYields(oid, format, raw) = Meaning(json)
                /\ HasSetter(oid, format, target.kind) /\ json.kind # "int"
                     => Meaning(field) = Meaning(json)
                /\ HasSetter(oid, format, target.kind) /\ json.kind = "int"
                     => field.kind = "int" /\ (Fits(target.kind, json.v) => field.v = json.v)
    PROVE  CellHasOneValue(oid, format, target, raw)
BY Zenon DEF CellHasOneValue

(* A cell in text format is its bytes to every reader, but for a boolean.     *)
LEMMA TextCell ==
    ASSUME NEW oid, NEW target, NEW raw
    PROVE  CellHasOneValue(oid, 0, target, raw)
<1> DEFINE bytes == Val("bytes", raw)
<1>1. inlineOpFor(oid, 0, target).len = 0
  BY DEF inlineOpFor
<1>2. FieldStores(oid, 0, target, raw) = bytes /\ SetterStores(oid, 0, target.kind, raw) = bytes
  BY <1>1 DEF FieldStores, SetterStores
<1>3. NextYields(oid, 0, raw) = bytes /\ DriverDecodes(oid, 0, raw) = bytes
  BY DEF NextYields, DriverDecodes
<1>4. OwnText(oid, 0) \/ bytes = JSONValue(oid, 0, raw)
  BY DEF JSONValue
<1>5. Meaning(bytes) = bytes /\ bytes.kind # "int"
  BY ValFacts
<1> HIDE DEF bytes
<1> QED BY <1>1, <1>2, <1>3, <1>4, <1>5, OneValue

(* A bool.                                                                    *)
LEMMA BoolCell ==
    ASSUME NEW target, NEW S, NEW raw \in Seq(S), Len(raw) = 1
    PROVE  CellHasOneValue("Bool", 1, target, raw)
<1> DEFINE b == Val("bool", raw[1] # 0)
           op == inlineOpFor("Bool", 1, target)
<1>1. "Bool" \notin Ints /\ "Bool" \notin Floats /\ "Bool" \notin Instants /\ "Bool" \notin Strings
      /\ (Len(raw) = 1 /\ raw[1] # 0) = (raw[1] # 0)
  BY DEF Instants, Ints, Floats, Strings
<1>2. OwnText("Bool", 1) \/ b = JSONValue("Bool", 1, raw)
  <2> SUFFICES ASSUME ~OwnText("Bool", 1) PROVE b = JSONValue("Bool", 1, raw)
    OBVIOUS
  <2>0. HasBinary("Bool")
    BY BinaryTypes, WireFacts
  <2>1. JSONValue("Bool", 1, raw) = Val("bool", Len(raw) = 1 /\ raw[1] # 0)
    BY <1>1, <2>0, BinaryJSON
  <2> QED BY <1>1, <2>1
<1>3. NextYields("Bool", 1, raw) = b /\ DriverDecodes("Bool", 1, raw) = b
  <2>1. DriverDecodes("Bool", 1, raw) = Val("bool", Len(raw) = 1 /\ raw[1] # 0)
    BY <1>1 DEF DriverDecodes
  <2>2. NextYields("Bool", 1, raw) = b
    BY <1>1, WireFacts DEF NextYields
  <2> QED BY <1>1, <2>1, <2>2
<1>4. SetterStores("Bool", 1, target.kind, raw) = b
  BY WireFacts DEF SetterStores
<1>5. HasSetter("Bool", 1, target.kind) <=> target.kind = "Bool"
  BY <1>1 DEF HasSetter, Floats
<1>6. op.len = 0 \/ (target.kind = "Bool" /\ op.len = 1)
  BY DEF inlineOpFor, Ints, Floats, Strings
<1>7. FieldStores("Bool", 1, target, raw) = b
  <2>1. CASE op.len = 0
    BY <1>4, <2>1 DEF FieldStores
  <2>2. CASE op.len = 1
    BY <1>1, <2>2 DEF FieldStores
  <2> QED BY <1>6, <2>1, <2>2
<1>8. b.kind # "int" /\ Meaning(b) = b
  BY ValFacts
<1>9. op.len # 0 => HasSetter("Bool", 1, target.kind)
  BY <1>5, <1>6
<1> HIDE DEF b
<1> QED BY <1>2, <1>3, <1>4, <1>7, <1>8, <1>9, OneValue DEF op

(* An integer: the opcode stores in a field of its own size what the setter   *)
(* stores, and the low bytes of an oid are the oid.                           *)
LEMMA IntCell ==
    ASSUME IntSize = 8, NEW oid \in Ints, NEW target, NEW raw \in Seq(0..ByteBase - 1),
           Len(raw) = WireLen[oid]
    PROVE  CellHasOneValue(oid, 1, target, raw)
<1> DEFINE v == Signed(raw)
           k == target.kind
           op == inlineOpFor(oid, 1, target)
           signed == k \in SignedKinds
           store == StoreInt(v, KindSize[k], signed)
           json == Val("int", v)
<1>1. oid # "Bool" /\ oid \notin Floats /\ oid \notin Instants
      /\ oid \in DOMAIN WireLen /\ Len(raw) # 0 /\ oid \notin Strings
      /\ oid \notin {"Bytea", "JSON", "JSONB"}
  BY WireFacts DEF Instants, Ints, Floats, Strings
<1>2. v \in Int
  BY <1>1, SignedInt
<1>3. OwnText(oid, 1) \/ json = JSONValue(oid, 1, raw)
  <2> SUFFICES ASSUME ~OwnText(oid, 1) PROVE json = JSONValue(oid, 1, raw)
    OBVIOUS
  <2>1. HasBinary(oid) /\ oid # "UUID"
    BY <1>1, BinaryTypes DEF Ints
  <2> QED BY <1>1, <2>1, BinaryJSON
<1>4. NextYields(oid, 1, raw) = json /\ DriverDecodes(oid, 1, raw) = json
  <2>1. NextYields(oid, 1, raw) = json
    BY <1>1 DEF NextYields
  <2>2. DriverDecodes(oid, 1, raw) = Val("int", SignedOf(Unsigned(raw), WireLen[oid]))
    BY <1>1 DEF DriverDecodes
  <2> QED BY <2>1, <2>2 DEF Signed
<1>5. SetterStores(oid, 1, k, raw) = store
  <2>1. ~Infinite(oid, raw)
    BY <1>1 DEF Infinite
  <2> QED BY <1>1, <2>1 DEF SetterStores
<1>6. HasSetter(oid, 1, k) <=> k \in DOMAIN KindSize
  BY <1>1 DEF HasSetter, Floats, Ints
<1>7. op.len = 0 \/ (op.len = WireLen[oid] /\ k \in {"Int16", "Int32", "Int64", "Int"}
                     /\ op.bytes = IF k \in {"Int64", "Int"} THEN 8 ELSE IF k = "Int32" THEN 4 ELSE 2)
  <2>1. CASE oid = "Int2"
    BY <2>1, WireFacts DEF inlineOpFor, Ints, Floats, Strings
  <2>2. CASE oid \in {"Int4", "OID"}
    BY <2>2, WireFacts DEF inlineOpFor, Ints, Floats, Strings
  <2>3. CASE oid = "Int8"
    BY <2>3, WireFacts DEF inlineOpFor, Ints, Floats, Strings
  <2> QED BY <2>1, <2>2, <2>3 DEF Ints
<1>8. op.len # 0 => k \in DOMAIN KindSize /\ signed = TRUE /\ op.bytes = KindSize[k]
  BY <1>7 DEF KindSize, SignedKinds
<1>9. FieldStores(oid, 1, target, raw) = store
  <2>1. CASE op.len = 0
    BY <1>5, <2>1 DEF FieldStores
  <2>2. CASE op.len # 0
    <3>1. op.len = WireLen[oid] /\ op.len # -1
      BY <1>1, <1>7, <2>2, WireFacts
    <3>2. FieldStores(oid, 1, target, raw) = StoreInt(v, op.bytes, TRUE)
      BY <1>1, <2>2, <3>1 DEF FieldStores
    <3> HIDE DEF op, v, signed
    <3> QED BY <1>8, <2>2, <3>2
  <2> QED BY <2>1, <2>2
<1>10. k \in DOMAIN KindSize => store.kind = "int" /\ (Fits(k, v) => store.v = v)
  BY <1>2, StoreFits DEF StoreInt
<1>11. oid = "OID" /\ k = "Uint32" => store.v = Unsigned(raw)
  <2> SUFFICES ASSUME oid = "OID", k = "Uint32" PROVE store.v = Unsigned(raw)
    OBVIOUS
  <2> DEFINE u == Unsigned(raw)
             span == Power(ByteBase, 4)
  <2>1. KindSize[k] = 4 /\ signed = FALSE /\ Len(raw) = 4
    BY WireFacts DEF KindSize, SignedKinds
  <2>2. ByteBase \in Nat \ {0} /\ span \in Nat \ {0}
    <3>1. 4 \in Nat \ {0}
      OBVIOUS
    <3> QED BY <3>1, DispatchAssumption, SpanFacts DEF DispatchAssumption
  <2>3. u \in Nat /\ u < span
    BY <2>1, <2>2, ValueBound DEF Unsigned
  <2>4. v = u \/ v = u - span
    BY <2>1 DEF Signed, SignedOf
  <2>5. store.v = v % span
    BY <2>1 DEF StoreInt
  <2> HIDE DEF u, span, v, store
  <2>6. v % span = u
    BY <2>2, <2>3, <2>4, SMT
  <2> QED BY <2>5, <2>6 DEF u
<1>12. json.kind = "int" /\ json.v = v /\ Meaning(json) = json
  BY ValFacts
<1>13. op.len # 0 => HasSetter(oid, 1, k)
  BY <1>6, <1>8
<1> HIDE DEF store, v, json
<1>14. HasSetter(oid, 1, k) => store.kind = "int" /\ (Fits(k, json.v) => store.v = json.v)
  BY <1>6, <1>10, <1>12
<1> HIDE DEF signed
<1> QED BY <1>3, <1>4, <1>5, <1>9, <1>11, <1>12, <1>13, <1>14, OneValue DEF op, k

(* Floats, instants and UUIDs: no instant that is finite is left out.         *)
LEMMA FixedCell ==
    ASSUME NEW oid \in Floats \cup Instants \cup {"UUID"}, NEW target, NEW raw,
           Len(raw) = WireLen[oid]
    PROVE  CellHasOneValue(oid, 1, target, raw)
<1> DEFINE k == target.kind
           op == inlineOpFor(oid, 1, target)
           json == JSONValue(oid, 1, raw)
           field == FieldStores(oid, 1, target, raw)
<1>1. oid # "Bool" /\ oid \notin Ints /\ oid \in DOMAIN WireLen /\ oid \notin Strings
      /\ oid \notin {"JSON", "JSONB", "Bytea", "OID"}
  BY WireFacts DEF Instants, Ints, Floats, Strings
<1>2. op.len \in {0, WireLen[oid]} /\ (op.len # 0 => HasSetter(oid, 1, k) /\ oid \in Floats)
  <2>1. CASE oid = "Float4"
    BY <2>1, WireFacts DEF inlineOpFor, HasSetter, Ints, Strings, Instants, Floats
  <2>2. CASE oid = "Float8"
    BY <2>2, WireFacts DEF inlineOpFor, HasSetter, Ints, Strings, Instants, Floats
  <2>3. CASE oid \notin Floats
    BY <1>1, <2>3 DEF inlineOpFor, Ints, Floats
  <2> QED BY <2>1, <2>2, <2>3 DEF Floats
<1>3. field = SetterStores(oid, 1, k, raw)
  <2>1. CASE op.len = 0
    BY <2>1 DEF FieldStores
  <2>2. CASE op.len # 0
    <3>1. oid \in Floats /\ oid \notin Instants /\ op.len = WireLen[oid] /\ op.len # -1
      BY <1>2, <2>2, WireFacts DEF Floats, Instants
    <3>2. field = Val("float", raw)
      BY <1>1, <2>2, <3>1 DEF FieldStores
    <3>3. ~Infinite(oid, raw)
      BY <3>1 DEF Infinite
    <3>4. SetterStores(oid, 1, k, raw) = Val("float", raw)
      BY <1>1, <3>1, <3>3 DEF SetterStores
    <3> QED BY <3>2, <3>4
  <2> QED BY <2>1, <2>2
<1>4. NextYields(oid, 1, raw) = DriverDecodes(oid, 1, raw)
  <2>1. CASE oid \in Floats
    <3>0. oid \notin Instants
      BY <2>1 DEF Floats, Instants
    <3>1. NextYields(oid, 1, raw) = Val("float", raw)
      BY <1>1, <2>1 DEF NextYields
    <3>2. DriverDecodes(oid, 1, raw) = Val("float", raw)
      BY <1>1, <2>1, <3>0 DEF DriverDecodes
    <3> QED BY <3>1, <3>2
  <2>2. CASE oid \notin Floats
    BY <1>1, <2>2 DEF NextYields
  <2> QED BY <2>1, <2>2
<1>5. ASSUME ~OwnText(oid, 1), ~Infinite(oid, raw)
      PROVE  /\ NextYields(oid, 1, raw) = Meaning(json) /\ json.kind # "int"
             /\ HasSetter(oid, 1, k) => Meaning(field) = Meaning(json)
  <2>0. HasBinary(oid)
    BY <1>1, BinaryTypes
  <2> DEFINE next == NextYields(oid, 1, raw)
             set == SetterStores(oid, 1, k, raw)
  <2>1. CASE oid \in Floats
    <3>1. oid \notin Instants /\ oid # "UUID"
      BY <2>1 DEF Floats, Instants
    <3>2. json = Val("float", raw)
      BY <1>1, <1>5, <2>0, <2>1, <3>1, BinaryJSON
    <3>3. next = Val("float", raw)
      BY <1>1, <2>1 DEF NextYields
    <3>4. set = Val("float", raw)
      BY <1>1, <1>5, <2>1 DEF SetterStores
    <3> HIDE DEF json, next, set, field
    <3> QED BY <1>3, <3>2, <3>3, <3>4, ValFacts DEF next, set
  <2>2. CASE oid \in Instants
    <3>1. oid \notin Floats /\ oid # "UUID"
      BY <2>2 DEF Floats, Instants
    <3> DEFINE s == Signed(raw)
    <3> HIDE DEF s
    <3>2. json = Val("time", s)
      BY <1>1, <1>5, <2>0, <2>2, <3>1, BinaryJSON DEF s
    <3>3. next = Val("time", s)
      BY <1>1, <2>2, <3>1 DEF NextYields, DriverDecodes, s
    <3>4. set = Val("time", s)
      BY <1>1, <1>5, <2>2, <3>1 DEF SetterStores, s
    <3> HIDE DEF json, next, set, field
    <3> QED BY <1>3, <3>2, <3>3, <3>4, ValFacts DEF next, set
  <2>3. CASE oid = "UUID"
    <3>1. oid \notin Floats /\ oid \notin Instants
      BY <2>3 DEF Floats, Instants
    <3>2. json = Val("uuid", raw)
      BY <1>1, <1>5, <2>0, <2>3, <3>1, BinaryJSON
    <3>3. next = Val("bytes", raw)
      BY <1>1, <2>3, <3>1 DEF NextYields, DriverDecodes
    <3>4. set = Val("uuid", raw) \/ set = Val("bytes", raw)
      BY <1>1, <1>5, <2>3, <3>1 DEF SetterStores
    <3> HIDE DEF json, next, set, field
    <3> QED BY <1>3, <3>2, <3>3, <3>4, ValFacts DEF next, set
  <2> QED BY <2>1, <2>2, <2>3
<1> HIDE DEF json, field
<1>6. OwnText(oid, 1) \/ json = JSONValue(oid, 1, raw)
  BY DEF json
<1> QED BY <1>1, <1>2, <1>3, <1>4, <1>5, <1>6, OneValue DEF op, field, k

(* Everything else is bytes: the version of a jsonb left out, and the         *)
(* hexadecimal of a bytea.                                                    *)
LEMMA BytesCell ==
    ASSUME NEW oid, oid \notin DOMAIN WireLen, NEW target, NEW S, NEW raw \in Seq(S)
    PROVE  CellHasOneValue(oid, 1, target, raw)
<1> DEFINE k == target.kind
           op == inlineOpFor(oid, 1, target)
           bytes == Val("bytes", IF oid = "JSONB" THEN WithoutVersion(raw) ELSE raw)
           json == JSONValue(oid, 1, raw)
<1>1. oid # "Bool" /\ oid \notin Ints /\ oid \notin Floats /\ oid \notin Instants
      /\ oid # "UUID" /\ oid # "OID"
  BY WireFacts DEF Ints
<1>2. "JSONB" \notin DOMAIN ArrayElem /\ HasBinary("JSONB")
  BY DEF ArrayElem, HasBinary, PickBinary, Binary
<1>3. OwnText(oid, 1) \/ (json.kind # "int" /\ Meaning(json) = bytes)
  <2> SUFFICES ASSUME ~OwnText(oid, 1) PROVE json.kind # "int" /\ Meaning(json) = bytes
    OBVIOUS
  <2>1. CASE oid = "Bytea" \/ ~HasBinary(oid)
    <3>1. json = Val("hex", raw) /\ oid # "JSONB"
      BY <1>1, <1>2, <2>1, BinaryJSON
    <3> HIDE DEF json
    <3> QED BY <3>1, ValFacts
  <2>2. CASE ~(oid = "Bytea" \/ ~HasBinary(oid))
    <3>1. json = bytes
      BY <1>1, <2>2, BinaryJSON DEF WithoutVersion
    <3> HIDE DEF json
    <3> QED BY <3>1, ValFacts
  <2> QED BY <2>1, <2>2
<1>4. NextYields(oid, 1, raw) = bytes /\ DriverDecodes(oid, 1, raw) = bytes
  <2>1. DriverDecodes(oid, 1, raw) = bytes
    BY <1>1 DEF DriverDecodes
  <2>2. NextYields(oid, 1, raw) = bytes
    BY <1>1, <2>1 DEF NextYields, WithoutVersion, Strings
  <2> QED BY <2>1, <2>2
<1>5. SetterStores(oid, 1, k, raw) = bytes
  BY DEF SetterStores
<1>6. /\ op.len = 0 \/ (op.len = -1 /\ oid # "JSONB")
      /\ op.len # 0 => HasSetter(oid, 1, k)
  BY <1>1 DEF inlineOpFor, HasSetter, Ints, Floats, Strings
<1>7. FieldStores(oid, 1, target, raw) = bytes
  <2>1. CASE op.len = 0
    BY <1>5, <2>1 DEF FieldStores
  <2>2. CASE op.len = -1 /\ oid # "JSONB"
    BY <2>2 DEF FieldStores
  <2> QED BY <1>6, <2>1, <2>2
<1>8. bytes.kind # "int" /\ Meaning(bytes) = bytes
  BY ValFacts
<1> HIDE DEF bytes, json
<1>9. OwnText(oid, 1) \/ json = JSONValue(oid, 1, raw)
  BY DEF json
<1> QED BY <1>1, <1>3, <1>4, <1>5, <1>6, <1>7, <1>8, <1>9, OneValue DEF op, k

(* Every cell the server may send.                                            *)
LEMMA CellFacts ==
    ASSUME IntSize = 8, NEW oid, NEW format \in {0, 1}, NEW target,
           NEW raw \in Seq(0..ByteBase - 1),
           format = 1 /\ oid \in DOMAIN WireLen => Len(raw) = WireLen[oid]
    PROVE  CellHasOneValue(oid, format, target, raw)
<1>2. CASE format = 0
  BY <1>2, TextCell
<1>3. CASE format = 1 /\ oid \notin DOMAIN WireLen
  BY <1>3, BytesCell
<1>4. CASE format = 1 /\ oid \in DOMAIN WireLen
  <2>1. Len(raw) = WireLen[oid]
    BY <1>4
  <2>2. CASE oid = "Bool"
    BY <1>4, <2>1, <2>2, BoolCell, WireFacts
  <2>3. CASE oid \in Ints
    BY <1>4, <2>1, <2>3, IntCell
  <2>4. CASE oid \in Floats \cup Instants \cup {"UUID"}
    BY <1>4, <2>1, <2>4, FixedCell
  <2> QED BY <1>4, <2>2, <2>3, <2>4, WireFacts
<1> QED BY <1>2, <1>3, <1>4

(* The JSON encoder, the fast path, the setters and the driver make one value *)
(* of a cell, whatever its bytes, on a build where int has 64 bits: for the   *)
(* types they all decode, the finite instants and the oids below 2^31.  A     *)
(* uint32 field holds any oid.                                                *)
THEOREM ViewsTheorem ==
    ASSUME IntSize = 8
    PROVE  CodecSpec => []ViewsAgree
<1>1. CodecInv => ViewsAgree
  <2> SUFFICES ASSUME CodecInv, part = "cell"
               PROVE  CellHasOneValue(in.oid, in.format, in.target, in.raw)
    BY DEF ViewsAgree
  <2>1. IsCell(in)
    BY DEF CodecInv, IsInput
  <2>2. /\ in.format \in {0, 1} /\ in.raw \in Seq(0..ByteBase - 1)
        /\ in.format = 1 /\ in.oid \in DOMAIN WireLen => Len(in.raw) = WireLen[in.oid]
    BY <2>1 DEF IsCell
  <2> QED BY <2>2, CellFacts
<1> QED BY <1>1, CodecInvariance, PTL

-----------------------------------------------------------------------------
(* Embedded structs *)

(* The functions from some of the names to some of the paths.                 *)
Indexes(N, D) == UNION {[n -> D] : n \in SUBSET N}

(* What Merge leaves in the index.                                            *)
LEMMA MergeFacts ==
    ASSUME NEW N, NEW D, NEW f \in Indexes(N, D), NEW g \in Indexes(N, D)
    PROVE  /\ Merge(f, g) \in Indexes(N, D)
           /\ DOMAIN Merge(f, g) = DOMAIN f \cup DOMAIN g
           /\ \A x \in DOMAIN f : Merge(f, g)[x] = f[x]
           /\ \A x \in DOMAIN g \ DOMAIN f : Merge(f, g)[x] = g[x]
<1>1. Merge(f, g) = [x \in DOMAIN f \cup DOMAIN g |-> IF x \in DOMAIN f THEN f[x] ELSE g[x]]
  BY DEF Merge
<1>2. PICK n \in SUBSET N : f \in [n -> D]
  BY DEF Indexes
<1>3. PICK m \in SUBSET N : g \in [m -> D]
  BY DEF Indexes
<1>4. Merge(f, g) \in [n \cup m -> D] /\ n \cup m \in SUBSET N
  BY <1>1, <1>2, <1>3
<1>5. Merge(f, g) \in Indexes(N, D)
  BY <1>4 DEF Indexes
<1> QED BY <1>1, <1>5

(* What MergeAll does, one embedded struct after the other.                   *)
LEMMA MergeAllDef ==
    ASSUME NEW N, NEW D, NEW own \in Indexes(N, D), NEW inner \in Seq(Indexes(N, D))
    PROVE  \E out \in [0..Len(inner) -> Indexes(N, D)] :
              /\ MergeAll(own, inner) = out[Len(inner)] /\ out[0] = own
              /\ \A i \in 1..Len(inner) : out[i] = Merge(out[i - 1], inner[i])
<1> DEFINE I == 0..Len(inner)
           S == Indexes(N, D)
           P(v) == v = [i \in I |-> IF i = 0 THEN own ELSE Merge(v[i - 1], inner[i])]
           r == CHOOSE v : P(v)
<1>0. Len(inner) \in Nat /\ \A k \in 1..Len(inner) : inner[k] \in S
  OBVIOUS
<1>1. \A f, g \in S : Merge(f, g) \in S
  BY MergeFacts
<1> HIDE DEF S
<1>2. \E v \in [I -> S] : P(v)
  <2> DEFINE G == [k \in I |-> [x \in S |-> IF k = 0 THEN own ELSE Merge(x, inner[k])]]
  <2>1. Beginning(I) /\ own \in S
    BY <1>0 DEF Beginning, S
  <2>2. G \in [I -> [S -> S]]
    BY <1>0, <1>1, <2>1
  <2>3. \A k \in I : \A x \in S : G[k][x] = IF k = 0 THEN own ELSE Merge(x, inner[k])
    OBVIOUS
  <2> HIDE DEF G, I
  <2>4. PICK v \in [I -> S] : Steps(v, I, own, G)
    BY <2>1, <2>2, NatRecursion
  <2>5. ASSUME NEW i \in I PROVE v[i] = IF i = 0 THEN own ELSE Merge(v[i - 1], inner[i])
    <3>1. v[i] = IF i = 0 THEN own ELSE G[i][v[i - 1]]
      BY <2>4 DEF Steps
    <3>2. i # 0 => v[i - 1] \in S
      BY <2>1 DEF Beginning
    <3> QED BY <2>3, <3>1, <3>2
  <2>6. P(v)
    BY <2>5
  <2> QED BY <2>6
<1>3. P(r)
  <2> HIDE DEF P
  <2> QED BY <1>2
<1>4. MergeAll(own, inner) = r[Len(inner)]
  BY DEF MergeAll
<1> HIDE DEF r
<1>5. r[0] = own /\ \A i \in 1..Len(inner) : r[i] = Merge(r[i - 1], inner[i])
  <2>1. \A i \in I : r[i] = IF i = 0 THEN own ELSE Merge(r[i - 1], inner[i])
    BY <1>3
  <2>2. 0 \in I /\ \A i \in 1..Len(inner) : i \in I /\ i # 0
    BY <1>0
  <2> HIDE DEF I
  <2> QED BY <2>1, <2>2
<1>6. \A i \in I : r[i] \in S
  <2> DEFINE T == {n \in Nat : n \in I => r[n] \in S}
  <2>1. 0 \in T /\ T \in SUBSET Nat
    BY <1>5 DEF S
  <2>2. ASSUME NEW n \in T PROVE n + 1 \in T
    <3> SUFFICES ASSUME n + 1 \in I PROVE r[n + 1] \in S
      OBVIOUS
    <3>1. n \in I /\ n + 1 \in 1..Len(inner) /\ n + 1 - 1 = n
      BY <1>0
    <3>2. r[n] \in S /\ inner[n + 1] \in S
      BY <1>0, <3>1
    <3>3. r[n + 1] = Merge(r[n], inner[n + 1])
      BY <1>5, <3>1
    <3> QED BY <1>1, <3>2, <3>3
  <2> HIDE DEF T
  <2>3. T = Nat
    BY <2>1, <2>2, Induction
  <2> QED BY <2>3 DEF T
<1>7. r \in [I -> S]
  <2>1. r = [i \in I |-> r[i]]
    BY <1>3
  <2> QED BY <1>6, <2>1
<1> QED BY <1>4, <1>5, <1>7 DEF S

(* The name at q is not declared by a struct between p and q.                 *)
Unhidden(t, p, q, n) == \A k \in Len(p)..Len(q) - 1 : n \notin ToSet(t[SubSeq(q, 1, k)].fields)

(* q is p, or is embedded in it at some depth.                                *)
Under(p, q) == Len(p) <= Len(q) /\ SubSeq(q, 1, Len(p)) = p

(* f resolves the names below p: to fields of the name, not hidden from p,    *)
(* and all of them.                                                           *)
Resolves(t, p, f) ==
    /\ f \in Indexes(STRING, DOMAIN t)
    /\ \A n \in DOMAIN f : /\ Under(p, f[n]) /\ n \in ToSet(t[f[n]].fields)
                           /\ Unhidden(t, p, f[n], n)
    /\ \A q \in DOMAIN t : Under(p, q) => ToSet(t[q].fields) \subseteq DOMAIN f

(* A beginning of a sequence, and the one that is shorter by an element.      *)
LEMMA PrefixFacts ==
    ASSUME NEW S, NEW s \in Seq(S), NEW k \in 0..Len(s)
    PROVE  LET b == SubSeq(s, 1, k)
           IN  /\ b \in Seq(S) /\ Len(b) = k /\ \A i \in 1..k : b[i] = s[i]
               /\ k # 0 => b # <<>> /\ Last(b) = s[k] /\ Front(b) = SubSeq(s, 1, k - 1)
<1> DEFINE b == SubSeq(s, 1, k)
<1>1. Len(s) \in Nat /\ k \in Nat /\ \A i \in 1..Len(s) : s[i] \in S
  OBVIOUS
<1>2. ASSUME NEW n \in 0..Len(s)
      PROVE  LET c == SubSeq(s, 1, n)
             IN  c \in Seq(S) /\ Len(c) = n /\ \A i \in 1..n : c[i] = s[i]
  <2>1. \A i \in 1..n : s[i] \in S
    BY <1>1
  <2> QED BY <1>1, <2>1, SubSeqProperties
<1>3. b \in Seq(S) /\ Len(b) = k /\ \A i \in 1..k : b[i] = s[i]
  BY <1>2
<1> HIDE DEF b
<1>4. ASSUME k # 0 PROVE b # <<>> /\ Last(b) = s[k] /\ Front(b) = SubSeq(s, 1, k - 1)
  <2> DEFINE c == SubSeq(s, 1, k - 1)
             f == Front(b)
  <2>1. k - 1 \in 0..Len(s) /\ k \in 1..k
    BY <1>1, <1>4
  <2>2. c \in Seq(S) /\ Len(c) = k - 1 /\ \A i \in 1..k - 1 : c[i] = s[i]
    BY <1>2, <2>1
  <2>3. b # <<>> /\ Last(b) = s[k]
    BY <1>3, <1>4, <2>1 DEF Last
  <2>4. f \in Seq(S) /\ Len(f) = k - 1 /\ \A i \in 1..k - 1 : f[i] = s[i]
    <3>1. \A i \in 1..k - 1 : b[i] \in S /\ b[i] = s[i]
      BY <1>1, <1>3
    <3>2. f = SubSeq(b, 1, k - 1) /\ 1 \in Int /\ k - 1 \in Int
      BY <1>3, <1>1 DEF Front
    <3>3. f \in Seq(S) /\ Len(f) = (IF 1 <= k - 1 THEN k - 1 - 1 + 1 ELSE 0)
          /\ \A i \in 1..k - 1 - 1 + 1 : f[i] = b[1 + i - 1]
      <4> HIDE DEF f
      <4> QED BY <3>1, <3>2, SubSeqProperties
    <3> QED BY <1>1, <1>4, <3>1, <3>3
  <2> HIDE DEF f, c
  <2>5. f = c
    BY <2>2, <2>4, SeqEqual
  <2> QED BY <2>3, <2>5 DEF f, c
<1> QED BY <1>3, <1>4 DEF b

(* A path below p is p or is below one of the structs embedded in p.          *)
LEMMA UnderFacts ==
    ASSUME NEW t, IsStructType(t), NEW p \in DOMAIN t, NEW q \in DOMAIN t
    PROVE  /\ \A i \in 1..t[p].embeds : Append(p, i) \in DOMAIN t
           /\ Under(p, q) => q = p \/ \E i \in 1..t[p].embeds : Under(Append(p, i), q)
           /\ \A i \in 1..t[p].embeds : Under(Append(p, i), q) => Under(p, q)
<1>1. p \in Seq(Nat) /\ q \in Seq(Nat) /\ t[p].embeds \in Nat
      /\ \A i \in 1..t[p].embeds : Append(p, i) \in DOMAIN t
  BY DEF IsStructType
<1>2. ASSUME NEW i \in Nat
      PROVE  Under(Append(p, i), q) <=> Under(p, q) /\ Len(q) > Len(p) /\ q[Len(p) + 1] = i
  <2>1. Append(p, i) \in Seq(Nat) /\ Len(Append(p, i)) = Len(p) + 1
        /\ \A k \in 1..Len(p) : Append(p, i)[k] = p[k] /\ Append(p, i)[Len(p) + 1] = i
    BY <1>1
  <2>2. ASSUME NEW r \in Seq(Nat) PROVE Under(r, q) <=> Len(r) <= Len(q) /\ \A k \in 1..Len(r) : q[k] = r[k]
    <3>1. Len(r) <= Len(q) => SubSeq(q, 1, Len(r)) = [k \in 1..Len(r) |-> q[k]]
      BY <1>1
    <3>2. r = [k \in 1..Len(r) |-> r[k]]
      OBVIOUS
    <3> QED BY <3>1, <3>2 DEF Under
  <2>3. Under(Append(p, i), q) <=> Len(p) + 1 <= Len(q) /\ \A k \in 1..Len(p) + 1 : q[k] = Append(p, i)[k]
    BY <2>1, <2>2
  <2>4. Under(p, q) <=> Len(p) <= Len(q) /\ \A k \in 1..Len(p) : q[k] = p[k]
    BY <1>1, <2>2
  <2>5. Len(p) \in Nat /\ Len(q) \in Nat /\ Append(p, i)[Len(p) + 1] = i
    BY <1>1
  <2>6. \A k \in 1..Len(p) + 1 : k \in 1..Len(p) \/ k = Len(p) + 1
    BY <2>5
  <2>7. \A k \in 1..Len(p) : k \in 1..Len(p) + 1
    BY <2>5
  <2>8. Len(p) + 1 \in 1..Len(p) + 1
    BY <2>5
  <2> QED BY <2>1, <2>3, <2>4, <2>5, <2>6, <2>7, <2>8
<1>3. ASSUME Under(p, q), q # p PROVE \E i \in 1..t[p].embeds : Under(Append(p, i), q)
  <2>1. Len(q) > Len(p)
    <3>1. Len(q) = Len(p) => SubSeq(q, 1, Len(p)) = q
      BY <1>1
    <3> QED BY <1>1, <1>3, <3>1 DEF Under
  <2> DEFINE at(k) == SubSeq(q, 1, k)
             T == {d \in Nat : d < Len(q) - Len(p) => at(Len(q) - d) \in DOMAIN t}
  <2>0. ASSUME NEW k \in 1..Len(q)
        PROVE  /\ at(k) \in Seq(Nat) /\ Len(at(k)) = k /\ at(k) # <<>> /\ Last(at(k)) = q[k]
               /\ Front(at(k)) = at(k - 1)
    <3>1. k \in 0..Len(q) /\ k # 0
      BY <1>1
    <3> QED BY <1>1, <3>1, PrefixFacts, ZenonT(40)
  <2>2. T = Nat
    <3>1. 0 \in T /\ T \in SUBSET Nat
      <4>1. at(Len(q)) = q /\ Len(q) - 0 = Len(q)
        BY <1>1, SubSeqFull
      <4> QED BY <4>1
    <3>2. ASSUME NEW d \in T PROVE d + 1 \in T
      <4> SUFFICES ASSUME d + 1 < Len(q) - Len(p) PROVE at(Len(q) - (d + 1)) \in DOMAIN t
        OBVIOUS
      <4> DEFINE k == Len(q) - d
      <4>1. at(k) \in DOMAIN t /\ k \in 1..Len(q) /\ k - 1 = Len(q) - (d + 1)
        BY <1>1
      <4> HIDE DEF at, k
      <4>2. at(k) # <<>> /\ Front(at(k)) = at(k - 1)
        BY <2>0, <4>1
      <4>3. Front(at(k)) \in DOMAIN t
        BY <4>1, <4>2 DEF IsStructType
      <4> QED BY <4>1, <4>2, <4>3
    <3> HIDE DEF T
    <3> QED BY <3>1, <3>2, Induction
  <2> DEFINE k == Len(p) + 1
  <2>3. at(k) \in DOMAIN t /\ k \in 1..Len(q)
    <3>1. Len(q) - k \in Nat /\ Len(q) - k < Len(q) - Len(p) /\ Len(q) - (Len(q) - k) = k
      BY <1>1, <2>1
    <3>2. Len(q) - k \in T
      <4> HIDE DEF T
      <4> QED BY <2>2, <3>1
    <3>3. at(Len(q) - (Len(q) - k)) \in DOMAIN t
      BY <3>1, <3>2
    <3> HIDE DEF at
    <3> QED BY <1>1, <2>1, <3>1, <3>3
  <2>4. at(k) \in Seq(Nat) /\ Len(at(k)) = k /\ at(k) # <<>> /\ Last(at(k)) = q[k]
        /\ Front(at(k)) = SubSeq(q, 1, Len(p))
    <3>1. k - 1 = Len(p)
      BY <1>1
    <3> HIDE DEF k
    <3> QED BY <2>0, <2>3, <3>1
  <2>5. q[k] \in 1..t[p].embeds
    <3>1. Last(at(k)) \in 1..t[Front(at(k))].embeds
      <4> HIDE DEF at, k
      <4> QED BY <2>3, <2>4 DEF IsStructType
    <3> QED BY <1>3, <2>4, <3>1 DEF Under
  <2> QED BY <1>1, <1>2, <1>3, <2>1, <2>5
<1>4. \A i \in 1..t[p].embeds : i \in Nat
  BY <1>1
<1> QED BY <1>1, <1>2, <1>3, <1>4

(* The names a struct declares.                                               *)
Own(t, p) == [n \in ToSet(t[p].fields) |-> p]

(* They are in its index, with its own path.                                  *)
LEMMA OwnFacts ==
    ASSUME NEW t, IsStructType(t), NEW p \in DOMAIN t
    PROVE  /\ Own(t, p) \in Indexes(STRING, DOMAIN t) /\ DOMAIN Own(t, p) = ToSet(t[p].fields)
           /\ \A n \in DOMAIN Own(t, p) : Own(t, p)[n] = p
           /\ \A n \in STRING : Under(p, p) /\ Unhidden(t, p, p, n)
<1>1. t[p].fields \in Seq(STRING) /\ p \in Seq(Nat)
  BY DEF IsStructType
<1>2. ToSet(t[p].fields) \in SUBSET STRING
  BY <1>1 DEF ToSet
<1>3. Own(t, p) \in [ToSet(t[p].fields) -> DOMAIN t]
  BY DEF Own
<1>4. Own(t, p) \in Indexes(STRING, DOMAIN t)
  BY <1>2, <1>3 DEF Indexes
<1>5. Len(p) \in Nat /\ SubSeq(p, 1, Len(p)) = p
  BY <1>1, SubSeqFull
<1>6. \A n \in STRING : Under(p, p) /\ Unhidden(t, p, p, n)
  BY <1>5 DEF Under, Unhidden
<1> QED BY <1>3, <1>4, <1>6 DEF Own

(* If the indexes of the embedded structs resolve their names, so does what   *)
(* they are merged into: a name of an embedded struct is taken only when the  *)
(* struct itself does not declare it.                                         *)
LEMMA MergeResolves ==
    ASSUME NEW t, IsStructType(t), NEW p \in DOMAIN t,
           NEW inner \in [1..t[p].embeds -> Indexes(STRING, DOMAIN t)],
           \A i \in 1..t[p].embeds : Resolves(t, Append(p, i), inner[i])
    PROVE  Resolves(t, p, MergeAll(Own(t, p), inner))
<1> DEFINE D == DOMAIN t
           S == Indexes(STRING, D)
           e == t[p].embeds
<1>1. p \in Seq(Nat) /\ e \in Nat /\ Len(p) \in Nat
  BY DEF IsStructType
<1>2. inner \in Seq(S) /\ Len(inner) = e
  BY <1>1, SMTT(30)
<1>3. /\ Own(t, p) \in S /\ DOMAIN Own(t, p) = ToSet(t[p].fields)
      /\ \A n \in DOMAIN Own(t, p) : Own(t, p)[n] = p
      /\ \A n \in STRING : Under(p, p) /\ Unhidden(t, p, p, n)
  BY OwnFacts
<1> HIDE DEF S
<1>4. PICK out \in [0..e -> S] :
          /\ MergeAll(Own(t, p), inner) = out[e] /\ out[0] = Own(t, p)
          /\ \A i \in 1..e : out[i] = Merge(out[i - 1], inner[i])
  <2>1. \E out \in [0..Len(inner) -> S] :
              /\ MergeAll(Own(t, p), inner) = out[Len(inner)] /\ out[0] = Own(t, p)
              /\ \A i \in 1..Len(inner) : out[i] = Merge(out[i - 1], inner[i])
    <3> DEFINE own == Own(t, p)
               N == STRING
    <3>1. own \in Indexes(N, D) /\ inner \in Seq(Indexes(N, D))
      BY <1>2, <1>3 DEF S
    <3> HIDE DEF own, N, D
    <3>2. \E out \in [0..Len(inner) -> Indexes(N, D)] :
              /\ MergeAll(own, inner) = out[Len(inner)] /\ out[0] = own
              /\ \A i \in 1..Len(inner) : out[i] = Merge(out[i - 1], inner[i])
      BY <3>1, MergeAllDef, SMTT(30)
    <3> QED BY <3>2 DEF own, N, S
  <2> QED BY <1>2, <2>1
<1> DEFINE Sound(f) == \A n \in DOMAIN f : /\ Under(p, f[n]) /\ n \in ToSet(t[f[n]].fields)
                                           /\ Unhidden(t, p, f[n], n)
           Good(i) == /\ Sound(out[i]) /\ ToSet(t[p].fields) \subseteq DOMAIN out[i]
                      /\ \A j \in 1..i : DOMAIN inner[j] \subseteq DOMAIN out[i]
           T == {i \in Nat : i <= e => Good(i)}
<1>5. T = Nat
  <2>1. 0 \in T /\ T \in SUBSET Nat
    <3>1. ToSet(t[p].fields) \subseteq STRING
      BY DEF IsStructType, ToSet
    <3>2. Sound(out[0])
      BY <1>3, <1>4, <3>1
    <3>3. ToSet(t[p].fields) \subseteq DOMAIN out[0] /\ 1..0 = {}
      BY <1>3, <1>4
    <3> HIDE DEF Sound
    <3>4. Good(0)
      BY <3>2, <3>3
    <3> HIDE DEF Good
    <3> QED BY <3>4
  <2>2. ASSUME NEW i \in T PROVE i + 1 \in T
    <3> SUFFICES ASSUME i + 1 <= e PROVE Good(i + 1)
      OBVIOUS
    <3> DEFINE f == out[i]
               g == inner[i + 1]
               h == out[i + 1]
               r == Append(p, i + 1)
    <3>1. i + 1 \in 1..e /\ i \in 0..e /\ Good(i) /\ i + 1 - 1 = i
      BY <1>1
    <3>2. h = Merge(f, g) /\ f \in S /\ g \in S
      <4>1. f \in S
        BY <1>4, <3>1
      <4>2. g \in S
        BY <3>1 DEF S
      <4>3. h = Merge(f, g)
        BY <1>4, <3>1
      <4> QED BY <4>1, <4>2, <4>3
    <3>3. DOMAIN h = DOMAIN f \cup DOMAIN g /\ (\A n \in DOMAIN f : h[n] = f[n])
          /\ (\A n \in DOMAIN g \ DOMAIN f : h[n] = g[n])
      <4> HIDE DEF f, g, h
      <4> QED BY <3>2 DEF Merge
    <3>4. Resolves(t, r, g)
      BY <3>1
    <3>5. Sound(f) /\ ToSet(t[p].fields) \subseteq DOMAIN f
          /\ \A j \in 1..i : DOMAIN inner[j] \subseteq DOMAIN f
      BY <3>1
    <3>6. ASSUME NEW n \in DOMAIN h
          PROVE  Under(p, h[n]) /\ n \in ToSet(t[h[n]].fields) /\ Unhidden(t, p, h[n], n)
      <4>1. CASE n \in DOMAIN f
        <5> HIDE DEF f, g, h
        <5> QED BY <3>3, <3>5, <4>1
      <4>2. CASE n \notin DOMAIN f
        <5> DEFINE q == g[n]
        <5>1. n \in DOMAIN g /\ h[n] = q /\ n \notin ToSet(t[p].fields)
          <6> HIDE DEF f, g, h
          <6> QED BY <3>3, <3>5, <4>2
        <5>2. q \in D
          <6> HIDE DEF g
          <6>1. \E m \in SUBSET STRING : g \in [m -> D]
            BY <3>2 DEF S, Indexes
          <6> QED BY <5>1, <6>1
        <5>3. Under(r, q) /\ n \in ToSet(t[q].fields) /\ Unhidden(t, r, q, n)
          BY <3>4, <5>1 DEF Resolves
        <5>4. Under(p, q)
          <6> HIDE DEF q
          <6> QED BY <3>1, <5>2, <5>3, UnderFacts
        <5>5. Unhidden(t, p, q, n)
          <6> HIDE DEF q
          <6> SUFFICES ASSUME NEW k \in Len(p)..Len(q) - 1
                       PROVE  n \notin ToSet(t[SubSeq(q, 1, k)].fields)
            BY DEF Unhidden
          <6>1. Len(r) = Len(p) + 1 /\ q \in Seq(Nat) /\ Len(q) \in Nat
            BY <1>1, <3>1, <5>2 DEF IsStructType
          <6>2. CASE k = Len(p)
            BY <5>1, <5>4, <6>2 DEF Under
          <6>3. CASE k # Len(p)
            <7>1. k \in Len(r)..Len(q) - 1
              BY <1>1, <6>1, <6>3
            <7> QED BY <5>3, <7>1 DEF Unhidden
          <6> QED BY <6>2, <6>3
        <5> HIDE DEF q, h
        <5> QED BY <5>1, <5>3, <5>4, <5>5
      <4> QED BY <4>1, <4>2
    <3>7. ToSet(t[p].fields) \subseteq DOMAIN h
          /\ \A j \in 1..i + 1 : DOMAIN inner[j] \subseteq DOMAIN h
      <4>1. \A j \in 1..i + 1 : j \in 1..i \/ j = i + 1
        BY <3>1
      <4> HIDE DEF f, h
      <4> QED BY <3>3, <3>5, <4>1
    <3> HIDE DEF h
    <3>8. Sound(h)
      BY <3>6
    <3> HIDE DEF Sound
    <3> QED BY <3>7, <3>8 DEF h
  <2> HIDE DEF T
  <2> QED BY <2>1, <2>2, Induction
<1>6. Good(e)
  <2> HIDE DEF Good
  <2> QED BY <1>1, <1>5
<1>7. ASSUME NEW q \in D, Under(p, q) PROVE ToSet(t[q].fields) \subseteq DOMAIN out[e]
  <2>1. CASE q = p
    BY <1>6, <2>1
  <2>2. CASE q # p
    <3>1. PICK i \in 1..e : Under(Append(p, i), q)
      BY <1>7, <2>2, UnderFacts
    <3>2. ToSet(t[q].fields) \subseteq DOMAIN inner[i]
      BY <3>1 DEF Resolves
    <3>3. DOMAIN inner[i] \subseteq DOMAIN out[e]
      BY <1>6, <3>1
    <3> QED BY <3>2, <3>3
  <2> QED BY <2>1, <2>2
<1>8. out[e] \in S /\ Sound(out[e])
  BY <1>1, <1>4, <1>6
<1> HIDE DEF e
<1> QED BY <1>4, <1>7, <1>8 DEF Resolves, S

(* The index of a struct resolves every name of the tree.                     *)
LEMMA WalkFacts ==
    ASSUME NEW t, IsStructType(t)
    PROVE  Resolves(t, <<>>, walkStructFields(t))
<1> DEFINE D == DOMAIN t
           S == Indexes(STRING, D)
           inner(p, w) == [i \in 1..t[p].embeds |-> w[Append(p, i)]]
           F == [p \in D |-> [w \in [D -> S] |-> MergeAll(Own(t, p), inner(p, w))]]
           rank == [p \in D |-> Cardinality(D) - Len(p)]
           P(w) == w = [base \in D |-> MergeAll(Own(t, base), inner(base, w))]
           r == CHOOSE w : P(w)
<1>1. /\ Cardinality(D) \in Nat /\ <<>> \in D
      /\ \A p \in D : /\ Len(p) \in Nat /\ Len(p) < Cardinality(D) /\ t[p].embeds \in Nat
                      /\ p \in Seq(Nat) /\ Own(t, p) \in S
                      /\ \A i \in 1..t[p].embeds : Append(p, i) \in D /\ Len(Append(p, i)) = Len(p) + 1
  <2>1. Cardinality(D) \in Nat
    BY FS_CardinalityType DEF IsStructType
  <2>2. ASSUME NEW p \in D
        PROVE  /\ Len(p) \in Nat /\ Len(p) < Cardinality(D) /\ t[p].embeds \in Nat
               /\ p \in Seq(Nat) /\ Own(t, p) \in S
               /\ \A i \in 1..t[p].embeds : Append(p, i) \in D /\ Len(Append(p, i)) = Len(p) + 1
    <3>1. Len(p) \in Nat /\ Len(p) < Cardinality(D) /\ t[p].embeds \in Nat /\ p \in Seq(Nat)
      BY DEF IsStructType
    <3>2. Own(t, p) \in S
      BY OwnFacts
    <3>3. ASSUME NEW i \in 1..t[p].embeds PROVE Append(p, i) \in D /\ Len(Append(p, i)) = Len(p) + 1
      <4>1. Append(p, i) \in D
        BY DEF IsStructType
      <4> QED BY <3>1, <4>1
    <3> QED BY <3>1, <3>2, <3>3
  <2>3. <<>> \in D
    BY DEF IsStructType
  <2> HIDE DEF D, S
  <2> QED BY <2>1, <2>2, <2>3
<1> HIDE DEF S
<1>2. ASSUME NEW p \in D, NEW w \in [D -> S]
      PROVE  inner(p, w) \in Seq(S) /\ MergeAll(Own(t, p), inner(p, w)) \in S
  <2>1. inner(p, w) \in [1..t[p].embeds -> S] /\ t[p].embeds \in Nat
    BY <1>1
  <2>2. inner(p, w) \in Seq(S) /\ Own(t, p) \in S /\ Len(inner(p, w)) \in Nat
    <3> DEFINE x == inner(p, w)
               n == t[p].embeds
    <3>1. x \in [1..n -> S] /\ n \in Nat
      BY <2>1
    <3> HIDE DEF x, n
    <3>2. x \in Seq(S) /\ Len(x) \in Nat
      BY <3>1
    <3> QED BY <1>1, <3>2 DEF x
  <2> HIDE DEF inner
  <2>3. \E out \in [0..Len(inner(p, w)) -> S] : MergeAll(Own(t, p), inner(p, w)) = out[Len(inner(p, w))]
    BY <2>2, MergeAllDef DEF S
  <2> QED BY <2>2, <2>3
<1>3. ASSUME NEW p \in D, NEW g \in [D -> S], NEW h \in [D -> S],
             \A q \in D : rank[q] < rank[p] => g[q] = h[q]
      PROVE  F[p][g] = F[p][h]
  <2>1. ASSUME NEW i \in 1..t[p].embeds PROVE g[Append(p, i)] = h[Append(p, i)]
    <3>1. Append(p, i) \in D /\ Len(Append(p, i)) = Len(p) + 1 /\ Len(p) \in Nat /\ Cardinality(D) \in Nat
      BY <1>1
    <3>2. rank[Append(p, i)] < rank[p]
      BY <3>1
    <3> HIDE DEF rank
    <3> QED BY <1>3, <3>1, <3>2
  <2>2. inner(p, g) = inner(p, h)
    BY <2>1
  <2> QED BY <2>2
<1>4. \E w \in [D -> S] : P(w)
  <2>1. rank \in [D -> Nat]
    BY <1>1
  <2>2. F \in [D -> [[D -> S] -> S]]
    BY <1>2
  <2>3. \A p \in D : \A w \in [D -> S] : F[p][w] = MergeAll(Own(t, p), inner(p, w))
    OBVIOUS
  <2>4. Own(t, <<>>) \in S
    BY <1>1
  <2> HIDE DEF F, rank, inner, D
  <2>5. Computes(F, rank, D, S)
    BY <1>3, <2>1, <2>2 DEF Computes
  <2>6. PICK w \in [D -> S] : \A p \in D : w[p] = F[p][w]
    BY <2>4, <2>5, Recursion
  <2>7. \A p \in D : w[p] = MergeAll(Own(t, p), inner(p, w))
    BY <2>3, <2>6
  <2>8. P(w)
    BY <2>7
  <2> QED BY <2>8
<1>5. P(r)
  <2> HIDE DEF P
  <2> QED BY <1>4
<1>6. walkStructFields(t) = r[<<>>]
  BY DEF walkStructFields, Own
<1> HIDE DEF r
<1>7. \A p \in D : r[p] = MergeAll(Own(t, p), inner(p, r))
  BY <1>5
<1> DEFINE T == {n \in Nat : \A p \in D : rank[p] <= n => Resolves(t, p, r[p])}
<1>8. T = Nat
  <2>1. 0 \in T /\ T \in SUBSET Nat
    BY <1>1
  <2>2. ASSUME NEW n \in T, NEW p \in D, rank[p] <= n + 1 PROVE Resolves(t, p, r[p])
    <3>1. ASSUME NEW i \in 1..t[p].embeds
          PROVE  Append(p, i) \in D /\ Resolves(t, Append(p, i), r[Append(p, i)])
      <4>1. Append(p, i) \in D /\ rank[Append(p, i)] <= n
        BY <1>1, <2>2
      <4> HIDE DEF rank
      <4> QED BY <4>1
    <3>2. inner(p, r) \in [1..t[p].embeds -> S]
      <4> SUFFICES ASSUME NEW i \in 1..t[p].embeds PROVE r[Append(p, i)] \in S
        OBVIOUS
      <4> QED BY <3>1 DEF Resolves, S
    <3>3. \A i \in 1..t[p].embeds : Resolves(t, Append(p, i), inner(p, r)[i])
      BY <3>1
    <3> HIDE DEF inner
    <3>4. Resolves(t, p, MergeAll(Own(t, p), inner(p, r)))
      BY <3>2, <3>3, MergeResolves DEF S
    <3> QED BY <1>7, <3>4
  <2>3. \A n \in T : n + 1 \in T
    BY <2>2
  <2> HIDE DEF T
  <2> QED BY <2>1, <2>3, Induction
<1>9. Resolves(t, <<>>, r[<<>>])
  <2>1. rank[<<>>] \in Nat /\ rank[<<>>] <= rank[<<>>]
    BY <1>1
  <2> HIDE DEF rank
  <2> QED BY <1>1, <1>8, <2>1
<1> QED BY <1>6, <1>9

(* No column that has a field is skipped, and none goes to a field that is    *)
(* hidden by a struct around it.                                              *)
LEMMA OuterWinsFacts ==
    ASSUME NEW t, IsStructType(t), NEW columns \in Seq(STRING)
    PROVE  OuterWins(t, columns)
<1> DEFINE idx == walkStructFields(t)
           plan == buildStructPlan(t, columns)
<1>1. Resolves(t, <<>>, idx)
  BY WalkFacts
<1> HIDE DEF idx
<1>2. Len(columns) \in Nat
  OBVIOUS
<1>3. \A i \in 1..Len(columns) :
        plan[i] = IF columns[i] \in DOMAIN idx THEN idx[columns[i]] ELSE Skip
  BY DEF buildStructPlan, idx
<1>4. \A p \in DOMAIN t : p \in Seq(Nat) /\ Under(<<>>, p)
  <2>1. ASSUME NEW p \in DOMAIN t PROVE p \in Seq(Nat) /\ Under(<<>>, p)
    <3>1. p \in Seq(Nat) /\ Len(p) \in Nat
      BY DEF IsStructType
    <3> QED BY <3>1, SubSeqEmpty DEF Under
  <2> QED BY <2>1
<1>5. ASSUME NEW i \in 1..Len(columns)
      PROVE  IF plan[i] = Skip
             THEN \A p \in DOMAIN t : columns[i] \notin ToSet(t[p].fields)
             ELSE /\ columns[i] \in ToSet(t[plan[i]].fields)
                  /\ \A k \in 0..Len(plan[i]) - 1 :
                        columns[i] \notin ToSet(t[SubSeq(plan[i], 1, k)].fields)
  <2>1. CASE columns[i] \in DOMAIN idx
    <3> DEFINE q == idx[columns[i]]
    <3>1. q \in DOMAIN t
      <4>1. \E m \in SUBSET STRING : idx \in [m -> DOMAIN t]
        BY <1>1 DEF Resolves, Indexes
      <4> QED BY <2>1, <4>1
    <3>2. q # Skip
      <4>1. q \in Seq(Nat)
        BY <1>4, <3>1
      <4>2. Skip[1] = -1 /\ Len(Skip) = 1
        BY DEF Skip
      <4> HIDE DEF q
      <4>3. Len(q) = 1 => 1 \in 1..Len(q) /\ q[1] \in Nat
        <5>1. 1 \in 1..1
          OBVIOUS
        <5> QED BY <4>1, <5>1, ElementOfSeq
      <4> QED BY <4>2, <4>3
    <3>3. columns[i] \in ToSet(t[q].fields) /\ Unhidden(t, <<>>, q, columns[i])
      BY <1>1, <2>1 DEF Resolves
    <3>4. plan[i] = q
      BY <1>3, <2>1
    <3> HIDE DEF q, plan
    <3> QED BY <3>2, <3>3, <3>4 DEF Unhidden
  <2>2. CASE columns[i] \notin DOMAIN idx
    <3>1. plan[i] = Skip
      BY <1>3, <2>2
    <3>2. \A p \in DOMAIN t : columns[i] \notin ToSet(t[p].fields)
      BY <1>1, <1>4, <2>2 DEF Resolves
    <3> HIDE DEF plan
    <3> QED BY <3>1, <3>2
  <2> QED BY <2>1, <2>2
<1> HIDE DEF plan
<1> QED BY <1>5 DEF OuterWins, plan

(* A field of an outer struct hides the fields of that name in what it        *)
(* embeds, and every column with a field gets one, for every tree of embedded *)
(* structs and every list of columns.                                         *)
THEOREM OuterFieldTheorem == CodecSpec => []OuterFieldWins
<1>1. CodecInv => OuterFieldWins
  <2> SUFFICES ASSUME CodecInv, part = "struct" PROVE OuterWins(in.type, in.columns)
    BY DEF OuterFieldWins
  <2>1. IsStructType(in.type) /\ in.columns \in Seq(STRING)
    BY DEF CodecInv, IsInput
  <2> QED BY <2>1, OuterWinsFacts
<1> QED BY <1>1, CodecInvariance, PTL

-----------------------------------------------------------------------------
(* Framing *)

(* A beginning of two sequences is one of the first, or all of it and a       *)
(* beginning of the second.                                                   *)
LEMMA CutOfConcat ==
    ASSUME NEW S, NEW p \in Seq(S), NEW q \in Seq(S), NEW k \in 0..Len(p) + Len(q)
    PROVE  /\ k <= Len(p) => SubSeq(p \o q, 1, k) = SubSeq(p, 1, k)
           /\ k >= Len(p) => k - Len(p) \in 0..Len(q)
                             /\ SubSeq(p \o q, 1, k) = p \o SubSeq(q, 1, k - Len(p))
<1> DEFINE t == p \o q
           a == SubSeq(t, 1, k)
           b == SubSeq(p, 1, k)
           c == SubSeq(q, 1, k - Len(p))
           d == p \o c
<1>1. /\ t \in Seq(S) /\ Len(t) = Len(p) + Len(q) /\ Len(p) \in Nat /\ Len(q) \in Nat
      /\ \A i \in 1..Len(p) + Len(q) : t[i] = IF i <= Len(p) THEN p[i] ELSE q[i - Len(p)]
      /\ \A i \in 1..Len(p) : p[i] \in S
      /\ \A i \in 1..Len(q) : q[i] \in S
      /\ \A i \in 1..Len(t) : t[i] \in S
  BY ConcatProperties, LenProperties, ElementOfSeq
<1> HIDE DEF t
<1>2. a \in Seq(S) /\ Len(a) = k /\ \A i \in 1..k : a[i] = t[i]
  BY <1>1, SubSeqProperties
<1> HIDE DEF a
<1>3. ASSUME k <= Len(p) PROVE a = b
  <2>1. b \in Seq(S) /\ Len(b) = k /\ \A i \in 1..k : b[i] = p[i]
    BY <1>1, <1>3, SubSeqProperties
  <2> HIDE DEF b
  <2> QED BY <1>1, <1>2, <1>3, <2>1, SeqEqual
<1>4. ASSUME k >= Len(p) PROVE k - Len(p) \in 0..Len(q) /\ a = d
  <2>1. c \in Seq(S) /\ Len(c) = k - Len(p) /\ \A i \in 1..k - Len(p) : c[i] = q[i]
    BY <1>1, <1>4, SubSeqProperties
  <2> HIDE DEF c
  <2>2. /\ d \in Seq(S) /\ Len(d) = Len(p) + Len(c)
        /\ \A i \in 1..Len(p) + Len(c) : d[i] = IF i <= Len(p) THEN p[i] ELSE c[i - Len(p)]
    BY <2>1, ConcatProperties
  <2> HIDE DEF d
  <2>3. ASSUME NEW i \in 1..k PROVE a[i] = d[i]
    <3>0. i \in 1..Len(p) + Len(q) /\ i \in 1..Len(p) + Len(c) /\ a[i] = t[i] /\ i \in Int
          /\ (i > Len(p) => i - Len(p) \in 1..k - Len(p))
      BY <1>1, <1>2, <1>4, <2>1
    <3>1. t[i] = IF i <= Len(p) THEN p[i] ELSE q[i - Len(p)]
      BY <1>1, <3>0
    <3>2. d[i] = IF i <= Len(p) THEN p[i] ELSE c[i - Len(p)]
      BY <2>2, <3>0
    <3>3. i > Len(p) => c[i - Len(p)] = q[i - Len(p)]
      BY <2>1, <3>0
    <3> QED BY <1>1, <3>0, <3>1, <3>2, <3>3
  <2> QED BY <1>1, <1>2, <1>4, <2>1, <2>2, <2>3, SeqEqual
<1> QED BY <1>3, <1>4 DEF a, t

(* What FlattenSeq does, one sequence after the other.                        *)
LEMMA FlattenDef ==
    ASSUME NEW S, NEW ps \in Seq(Seq(S))
    PROVE  \E F \in [0..Len(ps) -> Seq(S)] :
              /\ FlattenSeq(ps) = F[Len(ps)] /\ F[0] = <<>>
              /\ \A k \in 1..Len(ps) : F[k] = F[k - 1] \o ps[k]
<1> DEFINE n == Len(ps)
           B == Seq(S)
<1>0. n \in Nat /\ \A k \in 1..n : ps[k] \in B
  BY LenProperties, ElementOfSeq
<1>1. <<>> \in B /\ \A x, y \in B : x \o y \in B
  BY EmptySeq, ConcatProperties
<1>2. \A x \in B : <<>> \o x = x
  BY ConcatEmptySeq
<1>3. CASE n = 0
  <2>1. FlattenSeq(ps) = ps /\ ps = <<>>
    BY <1>3, EmptySeq DEF FlattenSeq
  <2>2. [k \in 0..n |-> <<>>] \in [0..n -> B] /\ 0 \in 0..n /\ 1..n = {}
    BY <1>1, <1>3
  <2> QED BY <2>1, <2>2, <1>3
<1>4. CASE n # 0
  <2> DEFINE D == 1..n
             E == 0..n
             P(f) == f = [i \in D |-> IF i = 1 THEN ps[i] ELSE f[i - 1] \o ps[i]]
             r == CHOOSE f : P(f)
             G == [k \in E |-> [x \in B |-> IF k = 0 THEN <<>> ELSE x \o ps[k]]]
  <2>1. Beginning(E)
    BY <1>0 DEF Beginning
  <2>2. G \in [E -> [B -> B]]
    <3> HIDE DEF B, n
    <3> QED BY <1>0, <1>1
  <2>3. PICK h \in [E -> B] : \A k \in E : h[k] = IF k = 0 THEN <<>> ELSE G[k][h[k - 1]]
    <3> DEFINE a == <<>>
    <3> HIDE DEF G, E, B, a
    <3>1. \E h \in [E -> B] : Steps(h, E, a, G)
      BY <1>1, <2>1, <2>2, NatRecursion DEF a
    <3> QED BY <3>1 DEF a, Steps
  <2>4. h[0] = <<>> /\ \A k \in D : h[k] = h[k - 1] \o ps[k] /\ h[k - 1] \in B /\ h[k] \in B
    <3>1. \A k \in D : k \in E /\ k - 1 \in E /\ k # 0
      BY <1>0
    <3>2. 0 \in E
      BY <1>0
    <3> HIDE DEF D, E, B
    <3> QED BY <2>3, <3>1, <3>2
  <2>5. P([i \in D |-> h[i]])
    <3> DEFINE f == [i \in D |-> h[i]]
    <3>1. ASSUME NEW i \in D PROVE f[i] = IF i = 1 THEN ps[i] ELSE f[i - 1] \o ps[i]
      <4>1. CASE i = 1
        <5>1. i - 1 = 0 /\ ps[i] \in B
          BY <1>0, <4>1
        <5> HIDE DEF B
        <5> QED BY <1>2, <2>4, <4>1, <5>1, ZenonT(40)
      <4>2. CASE i # 1
        <5>1. i - 1 \in D
          BY <1>0, <4>2
        <5> QED BY <2>4, <4>2, <5>1
      <4> QED BY <4>1, <4>2
    <3> HIDE DEF D
    <3> QED BY <3>1
  <2>6. P(r)
    <3> HIDE DEF P
    <3> QED BY <2>5
  <2>7. FlattenSeq(ps) = r[n]
    BY <1>4 DEF FlattenSeq
  <2> HIDE DEF r
  <2>8. \A i \in D : r[i] = h[i]
    <3>0. \A i \in D : r[i] = IF i = 1 THEN ps[i] ELSE r[i - 1] \o ps[i]
      <4> HIDE DEF D
      <4> QED BY <2>6
    <3> DEFINE T == {k \in Nat : k \in D => r[k] = h[k]}
    <3>1. 0 \in T /\ T \in SUBSET Nat
      BY <1>0
    <3>2. ASSUME NEW k \in T, k + 1 \in D PROVE r[k + 1] = h[k + 1]
      <4>1. k \in Nat /\ (k \in D => r[k] = h[k])
        OBVIOUS
      <4> DEFINE j == k + 1
      <4>0. j \in D /\ j - 1 = k /\ (j = 1 <=> k = 0) /\ j = k + 1
        BY <3>2, <4>1
      <4>2. r[k + 1] = IF k = 0 THEN ps[1] ELSE r[k] \o ps[k + 1]
        <5> HIDE DEF D, T, j
        <5>1. r[j] = IF j = 1 THEN ps[j] ELSE r[j - 1] \o ps[j]
          BY <3>0, <4>0
        <5>2. r[j] = IF k = 0 THEN ps[1] ELSE r[k] \o ps[j]
          BY <4>0, <5>1
        <5> QED BY <5>2 DEF j
      <4>3. h[k + 1] = h[k] \o ps[k + 1]
        <5> HIDE DEF D, T, j
        <5>1. h[j] = h[j - 1] \o ps[j]
          BY <2>4, <4>0
        <5>2. h[j] = h[k] \o ps[j]
          BY <4>0, <5>1
        <5> QED BY <5>2 DEF j
      <4>4. CASE k = 0
        <5>1. ps[1] \in B
          BY <1>0, <1>4
        <5>2. h[0] \o ps[1] = ps[1]
          <6> HIDE DEF B
          <6> QED BY <1>2, <2>4, <5>1
        <5>3. k + 1 = 1
          BY <4>4
        <5> HIDE DEF D, T, B
        <5> QED BY <4>2, <4>3, <4>4, <5>2, <5>3
      <4>5. CASE k # 0
        <5>1. k \in D
          BY <1>0, <3>2, <4>1, <4>5
        <5> HIDE DEF D, T
        <5> QED BY <4>1, <4>2, <4>3, <4>5, <5>1
      <4> QED BY <4>4, <4>5
    <3>3. \A k \in T : k + 1 \in T
      BY <3>2
    <3> HIDE DEF T
    <3>4. T = Nat
      BY <3>1, <3>3, Induction
    <3>5. \A i \in D : i \in T
      BY <1>0, <3>4
    <3> QED BY <3>5 DEF T
  <2>9. n \in D
    BY <1>0, <1>4
  <2> HIDE DEF r
  <2> QED BY <2>3, <2>4, <2>7, <2>8, <2>9, ZenonT(40)
<1> QED BY <1>3, <1>4

(* A beginning of a sequence and the next element.                            *)
LEMMA PrefixStep ==
    ASSUME NEW S, NEW s \in Seq(S), NEW j \in Nat, j + 1 <= Len(s)
    PROVE  /\ SubSeq(s, 1, j) \in Seq(S)
           /\ SubSeq(s, 1, j + 1) = Append(SubSeq(s, 1, j), s[j + 1])
<1> DEFINE a == SubSeq(s, 1, j)
           b == SubSeq(s, 1, j + 1)
           c == Append(a, s[j + 1])
<1>1. Len(s) \in Nat /\ \A i \in 1..Len(s) : s[i] \in S
  BY LenProperties, ElementOfSeq
<1>2. a \in Seq(S) /\ Len(a) = j /\ \A i \in 1..j : a[i] = s[i]
  BY <1>1, SubSeqProperties
<1>3. b \in Seq(S) /\ Len(b) = j + 1 /\ \A i \in 1..j + 1 : b[i] = s[i]
  BY <1>1, SubSeqProperties
<1> HIDE DEF a, b
<1>4. /\ c \in Seq(S) /\ Len(c) = j + 1 /\ c[j + 1] = s[j + 1]
      /\ \A i \in 1..j : c[i] = s[i]
  BY <1>1, <1>2, AppendProperties
<1> HIDE DEF c
<1>5. b = c
  BY <1>3, <1>4, SeqEqual
<1> QED BY <1>2, <1>5 DEF a, b, c

(* What a reader of values in V may return, and the readers.                  *)
Results(V) == [ok : BOOLEAN, val : V, rest : Bodies]
Readers(V) == [Bodies -> Results(V)]

(* One more item.                                                             *)
Further(reader, st) ==
    IF ~st.ok THEN st
    ELSE [ok |-> reader[st.rest].ok, val |-> Append(st.val, reader[st.rest].val),
          rest |-> reader[st.rest].rest]

(* What Items does, one item after the other.                                 *)
LEMMA ItemsDef ==
    ASSUME NEW V, NEW reader \in Readers(V), NEW body \in Bodies
    PROVE  /\ Items(reader, body, 0) = Took(<<>>, body)
           /\ \A n \in Nat :
                /\ Items(reader, body, n) \in Results(Seq(V))
                /\ Items(reader, body, n + 1) = Further(reader, Items(reader, body, n))
<1> DEFINE S == Results(Seq(V))
           step(st) == IF ~st.ok THEN st
                       ELSE LET item == reader[st.rest]
                            IN  [ok |-> item.ok, val |-> Append(st.val, item.val), rest |-> item.rest]
           P(f) == f = [i \in Nat |->
                            IF i = 0 THEN Took(<<>>, body)
                            ELSE IF ~f[i - 1].ok THEN f[i - 1]
                            ELSE LET item == reader[f[i - 1].rest]
                                 IN  [ok |-> item.ok, val |-> Append(f[i - 1].val, item.val),
                                      rest |-> item.rest]]
           r == CHOOSE f : P(f)
<1>1. Took(<<>>, body) \in S
  BY EmptySeq DEF Took, Results
<1>2. ASSUME NEW st \in S PROVE Further(reader, st) \in S /\ step(st) = Further(reader, st)
  <2>1. /\ st.ok \in BOOLEAN /\ st.val \in Seq(V) /\ st.rest \in Bodies
        /\ reader[st.rest] \in Results(V)
    BY DEF Results, Readers
  <2>2. /\ reader[st.rest].ok \in BOOLEAN /\ reader[st.rest].val \in V
        /\ reader[st.rest].rest \in Bodies
        /\ Append(st.val, reader[st.rest].val) \in Seq(V)
    BY <2>1, AppendProperties DEF Results
  <2>3. [ok |-> reader[st.rest].ok, val |-> Append(st.val, reader[st.rest].val),
          rest |-> reader[st.rest].rest] \in S
    BY <2>2 DEF Results
  <2> HIDE DEF S
  <2> QED BY <2>3 DEF Further
<1>3. PICK h \in [Nat -> S] : h[0] = Took(<<>>, body) /\ \A n \in Nat : h[n + 1] = step(h[n])
  <2> DEFINE D == Nat
             a == Took(<<>>, body)
             G == [n \in D |-> [st \in S |-> step(st)]]
  <2>1. Beginning(D)
    BY DEF Beginning
  <2>2. G \in [D -> [S -> S]]
    <3> HIDE DEF S, step
    <3> QED BY <1>2
  <2>3. a \in S
    BY <1>1
  <2>4. PICK h \in [D -> S] : Steps(h, D, a, G)
    <3> HIDE DEF D, a, S, G
    <3> QED BY <2>1, <2>2, <2>3, NatRecursion
  <2> HIDE DEF S, step
  <2>5. \A n \in Nat : h[n] = IF n = 0 THEN a ELSE G[n][h[n - 1]]
    BY <2>4 DEF Steps
  <2>6. ASSUME NEW n \in Nat PROVE h[n + 1] = step(h[n])
    <3> DEFINE j == n + 1
    <3>1. j \in Nat /\ j # 0 /\ j - 1 = n
      OBVIOUS
    <3>2. G[j][h[n]] = step(h[n])
      BY <3>1
    <3> HIDE DEF j, G
    <3>3. h[j] = G[j][h[n]]
      BY <2>5, <3>1
    <3> QED BY <3>2, <3>3 DEF j
  <2>7. h[0] = a
    BY <2>5, ZenonT(40)
  <2> QED BY <2>6, <2>7
<1>4. P(h)
  <2> DEFINE body2(n) == IF n = 0 THEN Took(<<>>, body) ELSE step(h[n - 1])
  <2>1. \A n \in Nat : n # 0 => n - 1 \in Nat /\ n - 1 + 1 = n
    OBVIOUS
  <2>2. ASSUME NEW n \in Nat PROVE h[n] = IF n = 0 THEN Took(<<>>, body) ELSE step(h[n - 1])
    <3> HIDE DEF step
    <3>1. CASE n = 0
      BY <1>3, <3>1
    <3>2. CASE n # 0
      <4> DEFINE j == n - 1
      <4>1. j \in Nat /\ j + 1 = n
        BY <3>2
      <4> HIDE DEF j
      <4>2. h[n] = step(h[j])
        BY <1>3, <4>1
      <4> QED BY <3>2, <4>2 DEF j
    <3> QED BY <3>1, <3>2
  <2>3. h = [n \in Nat |-> IF n = 0 THEN Took(<<>>, body) ELSE step(h[n - 1])]
    <3> HIDE DEF step
    <3> QED BY <2>2
  <2> QED BY <2>3, ZenonT(40)
<1>5. P(r)
  <2> HIDE DEF P
  <2> QED BY <1>4
<1>6. \A n : Items(reader, body, n) = r[n]
  BY SMTT(30) DEF Items
<1> HIDE DEF r
<1>7. r = [n \in Nat |-> IF n = 0 THEN Took(<<>>, body) ELSE step(r[n - 1])]
  BY <1>5, ZenonT(40)
<1>8. r[0] = Took(<<>>, body) /\ \A n \in Nat : r[n + 1] = step(r[n])
  <2> HIDE DEF step
  <2>1. r[0] = Took(<<>>, body)
    BY <1>7
  <2>2. ASSUME NEW n \in Nat PROVE r[n + 1] = step(r[n])
    <3> DEFINE j == n + 1
    <3>1. j \in Nat /\ j # 0 /\ j - 1 = n
      OBVIOUS
    <3> HIDE DEF j
    <3>2. r[j] = step(r[j - 1])
      BY <1>7, <3>1
    <3> QED BY <3>1, <3>2 DEF j
  <2> QED BY <2>1, <2>2
<1>9. \A n \in Nat : r[n] \in S
  <2> DEFINE T == {n \in Nat : r[n] \in S}
  <2> HIDE DEF S, step
  <2>1. 0 \in T /\ T \in SUBSET Nat
    BY <1>1, <1>8
  <2>2. \A n \in T : n + 1 \in T
    BY <1>2, <1>8, SMTT(30)
  <2> HIDE DEF T
  <2>3. T = Nat
    BY <2>1, <2>2, Induction
  <2> QED BY <2>3 DEF T
<1> HIDE DEF step
<1> QED BY <1>2, <1>6, <1>8, <1>9

(* p is how v is written for the reader: it takes p, whatever follows, and    *)
(* refuses a part of it.                                                      *)
Exact(reader, p, v) ==
    /\ \A s \in Bodies : reader[p \o s] = Took(v, s)
    /\ \A k \in 0..Len(p) - 1 : ~reader[SubSeq(p, 1, k)].ok

(* What is written item by item is read item by item.                         *)
LEMMA ItemsExact ==
    ASSUME NEW V, NEW reader \in Readers(V), NEW vals \in Seq(V),
           NEW ps \in Seq(Bodies), Len(ps) = Len(vals),
           \A i \in 1..Len(vals) : Exact(reader, ps[i], vals[i])
    PROVE  /\ FlattenSeq(ps) \in Bodies
           /\ \A s \in Bodies :
                Items(reader, FlattenSeq(ps) \o s, Len(vals)) = Took(vals, s)
           /\ \A k \in 0..Len(FlattenSeq(ps)) - 1 :
                ~Items(reader, SubSeq(FlattenSeq(ps), 1, k), Len(vals)).ok
<1> DEFINE n == Len(vals)
<1>0. n \in Nat /\ \A i \in 1..n : ps[i] \in Bodies /\ vals[i] \in V
  BY LenProperties, ElementOfSeq
<1>1. PICK F \in [0..n -> Bodies] :
          /\ FlattenSeq(ps) = F[n] /\ F[0] = <<>>
          /\ \A k \in 1..n : F[k] = F[k - 1] \o ps[k]
  <2> DEFINE S == Int
  <2>1. ps \in Seq(Seq(S)) /\ Bodies = Seq(S) /\ Len(ps) = n
    BY DEF Bodies
  <2> HIDE DEF S, n
  <2> QED BY <2>1, FlattenDef, ZenonT(40)
<1>2. \A x \in Bodies : Len(x) \in Nat /\ <<>> \o x = x /\ \A y \in Bodies : x \o y \in Bodies
  BY LenProperties, ConcatEmptySeq, ConcatProperties DEF Bodies
<1>3. \A x \in Bodies, k \in Nat : k <= Len(x) => SubSeq(x, 1, k) \in Bodies
  BY SubSeqProperties, ElementOfSeq, LenProperties DEF Bodies
<1> DEFINE T == {j \in Nat : j <= n =>
                    /\ \A s \in Bodies : Items(reader, F[j] \o s, j) = Took(SubSeq(vals, 1, j), s)
                    /\ \A k \in 0..Len(F[j]) - 1 : ~Items(reader, SubSeq(F[j], 1, k), j).ok}
<1>4. 0 \in T /\ T \in SUBSET Nat
  <2>1. SubSeq(vals, 1, 0) = <<>>
    BY SubSeqEmpty
  <2>2. \A s \in Bodies : Items(reader, F[0] \o s, 0) = Took(SubSeq(vals, 1, 0), s)
    BY <1>1, <1>2, <2>1, ItemsDef
  <2>3. 0..Len(F[0]) - 1 = {}
    BY <1>1, EmptySeq
  <2> QED BY <2>2, <2>3
<1>5. ASSUME NEW j \in T, j + 1 <= n
      PROVE  /\ \A s \in Bodies :
                    Items(reader, F[j + 1] \o s, j + 1) = Took(SubSeq(vals, 1, j + 1), s)
             /\ \A k \in 0..Len(F[j + 1]) - 1 :
                    ~Items(reader, SubSeq(F[j + 1], 1, k), j + 1).ok
  <2> DEFINE p == ps[j + 1]
             v == vals[j + 1]
             f == F[j]
             u == SubSeq(vals, 1, j)
  <2>1. /\ j \in Nat /\ j \in 0..n /\ j + 1 \in 1..n
        /\ \A s \in Bodies : Items(reader, f \o s, j) = Took(u, s)
        /\ \A k \in 0..Len(f) - 1 : ~Items(reader, SubSeq(f, 1, k), j).ok
    BY <1>0, <1>5
  <2>2. F[j + 1] = f \o p
    <3> DEFINE i == j + 1
    <3>1. i \in 1..n /\ i - 1 = j
      BY <2>1
    <3> HIDE DEF i, n, T
    <3>2. F[i] = F[i - 1] \o ps[i]
      BY <1>1, <3>1
    <3> QED BY <3>1, <3>2 DEF i
  <2>3. p \in Bodies /\ v \in V /\ f \in Bodies /\ Len(p) \in Nat /\ Len(f) \in Nat
    BY <1>0, <1>1, <1>2, <2>1
  <2>4. Exact(reader, p, v)
    BY <2>1
  <2>5. u \in Seq(V) /\ SubSeq(vals, 1, j + 1) = Append(u, v)
    BY <1>0, <2>1, PrefixStep
  <2> HIDE DEF p, v, f, u, T, n
  <2>6. \A b \in Bodies : Items(reader, b, j + 1) = Further(reader, Items(reader, b, j))
                          /\ Items(reader, b, j) \in Results(Seq(V))
    BY <2>1, ItemsDef
  <2>7. ASSUME NEW s \in Bodies
        PROVE  Items(reader, F[j + 1] \o s, j + 1) = Took(SubSeq(vals, 1, j + 1), s)
    <3>1. (f \o p) \o s = f \o (p \o s) /\ p \o s \in Bodies /\ f \o (p \o s) \in Bodies
      BY <1>2, <2>3, ConcatAssociative, SMTT(30) DEF Bodies
    <3>2. Items(reader, f \o (p \o s), j) = Took(u, p \o s)
      BY <2>1, <3>1
    <3>3. reader[p \o s] = Took(v, s)
      BY <2>4 DEF Exact
    <3>4. Further(reader, Took(u, p \o s)) = Took(Append(u, v), s)
      <4> DEFINE x == p \o s
                 w == Took(u, x)
      <4>1. reader[x] = Took(v, s)
        BY <3>3
      <4> HIDE DEF x
      <4>2. w.ok /\ w.val = u /\ w.rest = x
        BY DEF Took
      <4>3. reader[x].ok = TRUE /\ reader[x].val = v /\ reader[x].rest = s
        BY <4>1 DEF Took
      <4> HIDE DEF w
      <4>4. Further(reader, w)
              = [ok |-> reader[x].ok, val |-> Append(u, reader[x].val), rest |-> reader[x].rest]
        BY <4>2 DEF Further
      <4>5. Further(reader, w) = Took(Append(u, v), s)
        BY <4>3, <4>4 DEF Took
      <4> QED BY <4>5 DEF w, x
    <3> QED BY <2>2, <2>5, <2>6, <3>1, <3>2, <3>4
  <2>8. ASSUME NEW k \in 0..Len(F[j + 1]) - 1
        PROVE  ~Items(reader, SubSeq(F[j + 1], 1, k), j + 1).ok
    <3>1. k \in 0..Len(f) + Len(p) /\ k < Len(f) + Len(p)
      BY <2>2, <2>3, ConcatProperties DEF Bodies
    <3>2. CASE k < Len(f)
      <4>1. SubSeq(f \o p, 1, k) = SubSeq(f, 1, k) /\ k \in 0..Len(f) - 1
        BY <2>3, <3>1, <3>2, CutOfConcat DEF Bodies
      <4>2. SubSeq(f, 1, k) \in Bodies /\ ~Items(reader, SubSeq(f, 1, k), j).ok
        BY <1>3, <2>1, <2>3, <4>1
      <4> QED BY <2>2, <2>6, <4>1, <4>2 DEF Further
    <3>3. CASE k >= Len(f)
      <4> DEFINE m == k - Len(f)
                 c == SubSeq(p, 1, m)
      <4>1. SubSeq(f \o p, 1, k) = f \o c /\ m \in 0..Len(p) - 1
        <5> DEFINE S == Int
        <5>1. p \in Seq(S) /\ f \in Seq(S)
          BY <2>3 DEF Bodies
        <5> HIDE DEF S
        <5>2. SubSeq(f \o p, 1, k) = f \o SubSeq(p, 1, k - Len(f))
          BY <3>1, <3>3, <5>1, CutOfConcat, SMTT(30)
        <5>3. m \in 0..Len(p) - 1
          BY <2>3, <3>1, <3>3
        <5> QED BY <5>2, <5>3
      <4>2. c \in Bodies
        BY <1>3, <2>3, <4>1
      <4>3. ~reader[c].ok
        BY <2>4, <4>1 DEF Exact
      <4> HIDE DEF c
      <4>4. Items(reader, f \o c, j) = Took(u, c) /\ f \o c \in Bodies
        BY <1>2, <2>1, <2>3, <4>2
      <4>5. ~Further(reader, Took(u, c)).ok
        BY <4>3 DEF Further, Took
      <4> QED BY <2>2, <2>6, <4>1, <4>4, <4>5
    <3> QED BY <2>3, <3>1, <3>2, <3>3
  <2> QED BY <2>7, <2>8
<1>6. \A j \in T : j + 1 \in T
  BY <1>5, SMTT(30)
<1>7. n \in T
  <2> HIDE DEF T
  <2>1. T = Nat
    BY <1>4, <1>6, Induction
  <2> QED BY <1>0, <2>1
<1>8. SubSeq(vals, 1, n) = vals /\ F[n] \in Bodies
  BY <1>0, <1>1, SubSeqFull
<1> QED BY <1>0, <1>1, <1>7, <1>8

(* A body and its first symbol.                                               *)
LEMMA FirstSymbol ==
    ASSUME NEW S, NEW x \in S, NEW s \in Seq(S)
    PROVE  /\ <<x>> \in Seq(S) /\ Len(<<x>>) = 1
           /\ <<x>> \o s \in Seq(S) /\ <<x>> \o s # <<>> /\ Len(<<x>> \o s) = 1 + Len(s)
           /\ Head(<<x>> \o s) = x /\ Tail(<<x>> \o s) = s
<1> DEFINE b == <<x>> \o s
           t == Tail(b)
<1>1. <<x>> \in Seq(S) /\ Len(<<x>>) = 1 /\ <<x>>[1] = x
  OBVIOUS
<1>2. Len(s) \in Nat
  BY LenProperties
<1>3. /\ b \in Seq(S) /\ Len(b) = 1 + Len(s)
      /\ \A i \in 1..1 + Len(s) : b[i] = IF i <= 1 THEN <<x>>[i] ELSE s[i - 1]
  BY <1>1, ConcatProperties
<1> HIDE DEF b
<1>4. b # <<>>
  BY <1>2, <1>3, EmptySeq
<1>5. Head(b) = x
  <2>1. b[1] = x
    BY <1>1, <1>2, <1>3
  <2> QED BY <1>3, <1>4, <2>1
<1>6. t \in Seq(S) /\ Len(t) = Len(s) /\ \A i \in 1..Len(s) : t[i] = b[i + 1]
  BY <1>2, <1>3, <1>4, HeadTailProperties
<1> HIDE DEF t
<1>7. \A i \in 1..Len(s) : t[i] = s[i]
  BY <1>2, <1>3, <1>6
<1>8. t = s
  BY <1>6, <1>7, SeqEqual
<1> QED BY <1>1, <1>3, <1>4, <1>5, <1>8 DEF b, t

(* The two parts of a concatenation.                                          *)
LEMMA PartsOfConcat ==
    ASSUME NEW S, NEW p \in Seq(S), NEW s \in Seq(S)
    PROVE  /\ p \o s \in Seq(S) /\ Len(p \o s) = Len(p) + Len(s)
           /\ Len(p) \in Nat /\ Len(s) \in Nat
           /\ SubSeq(p \o s, 1, Len(p)) = p
           /\ SubSeq(p \o s, Len(p) + 1, Len(p \o s)) = s
           /\ \A i \in 1..Len(p) : (p \o s)[i] = p[i]
<1> DEFINE b == p \o s
           t == SubSeq(b, Len(p) + 1, Len(b))
<1>1. Len(p) \in Nat /\ Len(s) \in Nat
  BY LenProperties
<1>2. /\ b \in Seq(S) /\ Len(b) = Len(p) + Len(s)
      /\ \A i \in 1..Len(p) + Len(s) : b[i] = IF i <= Len(p) THEN p[i] ELSE s[i - Len(p)]
      /\ \A i \in 1..Len(b) : b[i] \in S
  BY ConcatProperties, ElementOfSeq
<1>3. SubSeq(b, 1, Len(p)) = p
  <2>1. SubSeq(b, 1, Len(p)) = SubSeq(p, 1, Len(p))
    BY <1>1, CutOfConcat
  <2> QED BY <2>1, SubSeqFull
<1> HIDE DEF b
<1>4. /\ t \in Seq(S) /\ Len(t) = Len(s)
      /\ \A i \in 1..Len(s) : t[i] = b[Len(p) + i]
  <2>1. \A i \in Len(p) + 1 .. Len(b) : b[i] \in S
    BY <1>1, <1>2
  <2>2. /\ t \in Seq(S)
        /\ Len(t) = IF Len(p) + 1 <= Len(b) THEN Len(b) - (Len(p) + 1) + 1 ELSE 0
        /\ \A i \in 1 .. Len(b) - (Len(p) + 1) + 1 : t[i] = b[Len(p) + 1 + i - 1]
    BY <1>1, <1>2, <2>1, SubSeqProperties
  <2>3. ASSUME NEW i \in 1..Len(s) PROVE t[i] = b[Len(p) + i]
    <3>1. i \in 1 .. Len(b) - (Len(p) + 1) + 1 /\ Len(p) + 1 + i - 1 = Len(p) + i
      BY <1>1, <1>2
    <3> HIDE DEF t
    <3> QED BY <2>2, <3>1
  <2> HIDE DEF t
  <2> QED BY <1>1, <1>2, <2>2, <2>3
<1> HIDE DEF t
<1>5. \A i \in 1..Len(s) : t[i] = s[i]
  BY <1>1, <1>2, <1>4, SMTT(30)
<1>6. t = s
  BY <1>4, <1>5, SeqEqual
<1> QED BY <1>1, <1>2, <1>3, <1>6 DEF b, t

(* b is a part of p, or all of p and a part of q.                            *)
CutIn(b, p, q) ==
    \/ b \in Cut(p)
    \/ \E m \in 0..Len(q) - 1 : b = p \o SubSeq(q, 1, m)

(* What is left of two parts when the second, or both, are cut.               *)
LEMMA CutCases ==
    ASSUME NEW S, NEW p \in Seq(S), NEW q \in Seq(S), NEW b \in Cut(p \o q)
    PROVE  CutIn(b, p, q)
<1>0. PICK k \in 0..Len(p \o q) - 1 : b = SubSeq(p \o q, 1, k)
  BY DEF Cut
<1>1. Len(p) \in Nat /\ Len(q) \in Nat /\ Len(p \o q) = Len(p) + Len(q)
  BY PartsOfConcat
<1>2. k \in 0..Len(p) + Len(q) /\ k < Len(p) + Len(q)
  BY <1>1
<1>3. CASE k < Len(p)
  <2>1. b = SubSeq(p, 1, k)
    BY <1>0, <1>1, <1>2, <1>3, CutOfConcat
  <2>2. k \in 0..Len(p) - 1
    BY <1>1, <1>2, <1>3
  <2> QED BY <2>1, <2>2 DEF Cut, CutIn
<1>4. CASE k >= Len(p)
  <2> DEFINE m == k - Len(p)
  <2>1. b = p \o SubSeq(q, 1, m)
    BY <1>0, <1>1, <1>2, <1>4, CutOfConcat
  <2>2. m \in 0..Len(q) - 1
    BY <1>1, <1>2, <1>4
  <2> HIDE DEF m
  <2> QED BY <2>1, <2>2, Zenon DEF CutIn
<1>5. k < Len(p) \/ k >= Len(p)
  BY <1>1, <1>2
<1> QED BY <1>3, <1>4, <1>5, Zenon

(* A body that starts with a count, cut short.                                *)
LEMMA CutCounted ==
    ASSUME NEW S, NEW x \in S, NEW q \in Seq(S), NEW b \in Cut(<<x>> \o q), b # <<>>
    PROVE  \E m \in 0..Len(q) - 1 : b = <<x>> \o SubSeq(q, 1, m)
<1> DEFINE p == <<x>>
<1>1. p \in Seq(S) /\ Len(p) = 1
  BY FirstSymbol
<1>2. b \in Cut(p \o q)
  OBVIOUS
<1>3. ASSUME NEW c \in Cut(p) PROVE c = <<>>
  <2>1. PICK k \in 0..Len(p) - 1 : c = SubSeq(p, 1, k)
    BY DEF Cut
  <2>2. k = 0
    BY <1>1, <2>1
  <2> HIDE DEF p
  <2> QED BY <2>1, <2>2, SubSeqEmpty
<1> HIDE DEF p
<1>4. CutIn(b, p, q)
  BY <1>1, <1>2, CutCases
<1> QED BY <1>3, <1>4 DEF CutIn, p

(* A beginning of a body is a body.                                           *)
LEMMA CutBody ==
    ASSUME NEW S, NEW q \in Seq(S), NEW m \in 0..Len(q)
    PROVE  SubSeq(q, 1, m) \in Seq(S) /\ Len(SubSeq(q, 1, m)) = m
BY SubSeqProperties, ElementOfSeq, LenProperties

(* The values of a cell are bytes, or the mark of NULL.                       *)
LEMMA CellTyped ==
    /\ CellValues \subseteq Bodies /\ Null \in Bodies /\ <<>> \in Bodies
    /\ \A c \in CellValues : c # Null => c \in Seq(Nat) /\ Len(c) \in Nat
    /\ \A c \in CellValues : SendCell(c) \in Bodies
    /\ \A row \in Seq(CellValues) : row \in Seq(Bodies)
<1>1. Null \in Bodies
  BY DEF Null, Bodies
<1>2. <<>> \in Bodies
  BY EmptySeq DEF Bodies
<1>3. \A c \in Seq(Nat) : c \in Bodies /\ Len(c) \in Nat
  BY LenProperties, SeqMonotonic DEF Bodies
<1>4. \A c \in CellValues : c # Null => c \in Seq(Nat)
  BY DEF CellValues
<1>5. CellValues \subseteq Bodies
  BY <1>1, <1>3, <1>4
<1>6. ASSUME NEW c \in CellValues PROVE SendCell(c) \in Bodies
  <2>1. CASE c = Null
    BY <1>1, <2>1 DEF SendCell, Null
  <2>2. CASE c # Null
    <3> DEFINE S == Int
               l == Len(c)
    <3>1. l \in S /\ c \in Seq(S)
      BY <1>3, <1>4, <2>2 DEF Bodies
    <3> HIDE DEF S, l
    <3>2. <<l>> \o c \in Seq(S)
      BY <3>1, FirstSymbol
    <3> QED BY <2>2, <3>2 DEF SendCell, Bodies, S, l
  <2> QED BY <2>1, <2>2
<1>7. \A row \in Seq(CellValues) : row \in Seq(Bodies)
  BY <1>5, SeqMonotonic
<1> QED BY <1>1, <1>2, <1>3, <1>4, <1>5, <1>6, <1>7

(* The readers of a cell return sequences of symbols.                         *)
LEMMA CellReaders ==
    /\ \A b \in Bodies : Cell(b) \in Results(Bodies)
    /\ cellReader \in Readers(Bodies) /\ elemReader \in Readers(Bodies)
    /\ fieldReader \in Readers(Bodies)
<1>1. /\ \A val \in Bodies, rest \in Bodies : Took(val, rest) \in Results(Bodies)
      /\ \A rest \in Bodies : Refused(rest) \in Results(Bodies)
  BY CellTyped DEF Took, Refused, Results
<1>2. \A b \in Bodies : b # <<>> => Head(b) \in Int /\ Tail(b) \in Bodies
  BY HeadTailProperties DEF Bodies
<1>3. \A b \in Bodies, m \in Int, n \in Int : 1 <= m /\ n <= Len(b) => SubSeq(b, m, n) \in Bodies
  BY SubSeqProperties, ElementOfSeq, LenProperties DEF Bodies
<1>4. ASSUME NEW b \in Bodies PROVE Cell(b) \in Results(Bodies)
  <2> DEFINE l == Head(b)
             rest == Tail(b)
  <2>1. CASE b = <<>>
    BY <1>1, <2>1 DEF Cell
  <2>2. CASE b # <<>>
    <3>1. l \in Int /\ rest \in Bodies /\ Len(rest) \in Nat
      BY <1>2, <2>2, LenProperties DEF Bodies
    <3>2. CASE l = -1
      BY <1>1, <2>2, <3>1, <3>2, CellTyped DEF Cell
    <3>3. CASE l # -1 /\ (l < 0 \/ l > Len(rest))
      <4>1. Cell(b) = Refused(rest)
        BY <2>2, <3>3 DEF Cell
      <4> QED BY <1>1, <3>1, <4>1
    <3>4. CASE l # -1 /\ ~(l < 0 \/ l > Len(rest))
      <4>1. Cell(b) = Took(SubSeq(rest, 1, l), SubSeq(rest, l + 1, Len(rest)))
        BY <2>2, <3>4 DEF Cell
      <4> HIDE DEF l, rest
      <4>2. SubSeq(rest, 1, l) \in Bodies /\ SubSeq(rest, l + 1, Len(rest)) \in Bodies
        BY <1>3, <3>1, <3>4
      <4> QED BY <1>1, <4>1, <4>2
    <3> QED BY <3>2, <3>3, <3>4
  <2> QED BY <2>1, <2>2
<1>5. ASSUME NEW b \in Bodies PROVE Elem(b) \in Results(Bodies)
  BY <1>1, <1>2, <1>4, CellTyped DEF Elem
<1>6. ASSUME NEW b \in Bodies
      PROVE  (IF Len(b) < 2 THEN Refused(b) ELSE Cell(Tail(b))) \in Results(Bodies)
  <2>1. ~(Len(b) < 2) => b # <<>>
    BY EmptySeq DEF Bodies
  <2> QED BY <1>1, <1>2, <1>4, <2>1
<1> QED BY <1>4, <1>5, <1>6 DEF cellReader, elemReader, fieldReader, Readers

(* A cell is read as it was written.                                          *)
LEMMA CellArrives ==
    ASSUME NEW c \in CellValues
    PROVE  /\ \A s \in Bodies : Cell(SendCell(c) \o s) = Took(c, s)
           /\ \A b \in Cut(SendCell(c)) : ~Cell(b).ok
           /\ \A s \in Bodies : Elem(SendCell(c) \o s) = Took(c, s)
           /\ \A b \in Cut(SendCell(c)) : ~Elem(b).ok
<1> DEFINE S == Int
           p == SendCell(c)
<1>0. Bodies = Seq(S)
  BY DEF Bodies
<1>1. ~Cell(<<>>).ok /\ ~Elem(<<>>).ok
  BY DEF Cell, Elem, Refused
<1>2. CASE c = Null
  <2>1. p = <<-1>> /\ -1 \in S
    BY <1>2 DEF SendCell
  <2>2. ASSUME NEW s \in Bodies PROVE Cell(p \o s) = Took(c, s) /\ Elem(p \o s) = Took(c, s)
    <3> DEFINE b == p \o s
    <3>1. b # <<>> /\ Head(b) = -1 /\ Tail(b) = s
      <4> HIDE DEF S
      <4> QED BY <1>0, <2>1, FirstSymbol
    <3> HIDE DEF b
    <3>2. Cell(b) = Took(c, s) /\ Elem(b) = Took(c, s)
      BY <1>2, <3>1 DEF Cell, Elem
    <3> QED BY <3>2 DEF b
  <2>3. \A b \in Cut(p) : b = <<>>
    <3>1. SubSeq(p, 1, 0) = <<>>
      BY SubSeqEmpty
    <3>2. Len(p) = 1
      <4> HIDE DEF S
      <4> QED BY <2>1, FirstSymbol
    <3>3. ASSUME NEW b \in Cut(p) PROVE b = <<>>
      <4>1. PICK k \in 0..Len(p) - 1 : b = SubSeq(p, 1, k)
        BY DEF Cut
      <4>2. k = 0
        BY <3>2, <4>1
      <4> QED BY <3>1, <4>1, <4>2
    <3> QED BY <3>3
  <2> QED BY <1>1, <2>2, <2>3
<1>3. CASE c # Null
  <2> DEFINE l == Len(c)
  <2>1. p = <<l>> \o c /\ l \in S /\ l \in Nat /\ c \in Seq(S) /\ c \in Bodies
    BY <1>3, CellTyped DEF SendCell, Bodies
  <2>2. ASSUME NEW s \in Bodies PROVE Cell(p \o s) = Took(c, s) /\ Elem(p \o s) = Took(c, s)
    <3> DEFINE t == c \o s
               b == p \o s
    <3>1. /\ t \in Seq(S) /\ Len(t) = l + Len(s) /\ Len(s) \in Nat
          /\ SubSeq(t, 1, l) = c /\ SubSeq(t, l + 1, Len(t)) = s
      <4> HIDE DEF S
      <4> QED BY <1>0, <2>1, PartsOfConcat
    <3>2. <<l>> \in Seq(S)
      <4> HIDE DEF S
      <4> QED BY <2>1, FirstSymbol
    <3>3. b = <<l>> \o t
      <4> HIDE DEF S, l, t
      <4>1. (<<l>> \o c) \o s = <<l>> \o (c \o s)
        BY <1>0, <2>1, <3>2, ConcatAssociative
      <4> QED BY <2>1, <4>1 DEF t
    <3>4. b # <<>> /\ Head(b) = l /\ Tail(b) = t
      <4> HIDE DEF S, l, t, b
      <4> QED BY <2>1, <3>1, <3>3, FirstSymbol, SMTT(30)
    <3> HIDE DEF b, l, t, p
    <3>5. l # -1 /\ ~(l < 0) /\ ~(l > Len(t))
      BY <2>1, <3>1
    <3>6. Cell(b) = Took(c, s) /\ Elem(b) = Took(c, s)
      BY <3>1, <3>4, <3>5 DEF Cell, Elem
    <3> QED BY <3>6 DEF b
  <2>3. ASSUME NEW b \in Cut(p) PROVE ~Cell(b).ok /\ ~Elem(b).ok
    <3>1. CASE b = <<>>
      BY <1>1, <3>1
    <3>2. CASE b # <<>>
      <4>1. PICK m \in 0..Len(c) - 1 : b = <<l>> \o SubSeq(c, 1, m)
        <5> HIDE DEF S, l, p
        <5> QED BY <2>1, <2>3, <3>2, CutCounted, SMTT(30)
      <4> DEFINE r == SubSeq(c, 1, m)
      <4>2. r \in Seq(S) /\ Len(r) = m /\ m < l /\ m \in Nat
        <5>1. m \in 0..Len(c)
          BY <2>1, <4>1
        <5>2. r \in Seq(S) /\ Len(r) = m
          <6> HIDE DEF S
          <6> QED BY <2>1, <5>1, CutBody
        <5> QED BY <2>1, <4>1, <5>2
      <4>3. Head(b) = l /\ Tail(b) = r
        <5> HIDE DEF S, l, p, r
        <5> QED BY <2>1, <4>1, <4>2, FirstSymbol DEF r
      <4> HIDE DEF l, r, p
      <4>4. l # -1 /\ ~(l < 0) /\ l > Len(r)
        BY <2>1, <4>2
      <4>5. Cell(b) = Refused(r)
        BY <3>2, <4>3, <4>4 DEF Cell
      <4>6. Elem(b) = Cell(b)
        BY <4>3, <4>4 DEF Elem
      <4> QED BY <4>5, <4>6 DEF Refused
    <3> QED BY <3>1, <3>2
  <2> QED BY <2>2, <2>3
<1> QED BY <1>2, <1>3

(* So it is by every reader of cells; a field of a composite has its OID      *)
(* before the cell.                                                           *)
LEMMA CellsExact ==
    ASSUME NEW c \in CellValues
    PROVE  /\ Exact(cellReader, SendCell(c), c) /\ Exact(elemReader, SendCell(c), c)
           /\ <<23>> \o SendCell(c) \in Bodies
           /\ Exact(fieldReader, <<23>> \o SendCell(c), c)
<1> DEFINE S == Int
           p == SendCell(c)
           f == <<23>> \o p
<1>0. Bodies = Seq(S) /\ p \in Seq(S) /\ 23 \in S
  BY CellTyped DEF Bodies
<1>1. /\ \A s \in Bodies : p \o s \in Bodies /\ Len(p \o s) = Len(p) + Len(s) /\ Len(s) \in Nat
      /\ Len(p) \in Nat
  <2> HIDE DEF S, p
  <2> QED BY <1>0, PartsOfConcat
<1>2. \A k \in 0..Len(p) - 1 : SubSeq(p, 1, k) \in Bodies /\ SubSeq(p, 1, k) \in Cut(p)
  <2> SUFFICES ASSUME NEW k \in 0..Len(p) - 1
               PROVE  SubSeq(p, 1, k) \in Bodies /\ SubSeq(p, 1, k) \in Cut(p)
    OBVIOUS
  <2>1. k \in 0..Len(p)
    BY <1>1
  <2> HIDE DEF S, p
  <2> QED BY <1>0, <2>1, CutBody DEF Cut
<1>3. Exact(cellReader, p, c)
  <2> HIDE DEF p
  <2> QED BY <1>1, <1>2, CellArrives DEF Exact, cellReader, p
<1>4. Exact(elemReader, p, c)
  <2> HIDE DEF p
  <2> QED BY <1>1, <1>2, CellArrives DEF Exact, elemReader, p
<1>5. f \in Bodies /\ Len(f) = 1 + Len(p) /\ Len(p) > 0
  <2>1. f \in Bodies /\ Len(f) = 1 + Len(p)
    <3> HIDE DEF S, p
    <3> QED BY <1>0, FirstSymbol
  <2>2. Len(p) > 0
    <3>1. CASE c = Null
      BY <3>1 DEF SendCell
    <3>2. CASE c # Null
      <4>1. p = <<Len(c)>> \o c /\ c \in Seq(S) /\ Len(c) \in S /\ Len(c) \in Nat
        BY <3>2, CellTyped DEF SendCell, Bodies
      <4>2. Len(p) = 1 + Len(c)
        <5> HIDE DEF S, p
        <5> QED BY <4>1, FirstSymbol
      <4> QED BY <4>1, <4>2
    <3> QED BY <3>1, <3>2
  <2> QED BY <2>1, <2>2
<1>6. ASSUME NEW s \in Bodies PROVE fieldReader[f \o s] = Took(c, s)
  <2> DEFINE t == p \o s
             b == f \o s
  <2>1. b = <<23>> \o t /\ t \in Bodies
    <3> HIDE DEF S, p
    <3>1. <<23>> \in Seq(S)
      BY <1>0, FirstSymbol
    <3> QED BY <1>0, <1>1, <3>1, ConcatAssociative
  <2>2. b \in Bodies /\ Len(b) = 1 + Len(t) /\ Tail(b) = t
    <3> HIDE DEF S, p, t, b
    <3> QED BY <1>0, <2>1, FirstSymbol
  <2>3. ~(Len(b) < 2)
    BY <1>1, <1>5, <2>2
  <2>4. Cell(t) = Took(c, s)
    BY CellArrives
  <2> HIDE DEF b, t
  <2> QED BY <2>2, <2>3, <2>4 DEF fieldReader, b
<1>7. ASSUME NEW k \in 0..Len(f) - 1 PROVE ~fieldReader[SubSeq(f, 1, k)].ok
  <2> DEFINE b == SubSeq(f, 1, k)
  <2>1. b \in Bodies /\ Len(b) = k /\ b \in Cut(f) /\ k \in Nat
    <3>1. k \in 0..Len(f) /\ k \in Nat
      BY <1>1, <1>5
    <3>2. b \in Cut(f)
      BY DEF Cut
    <3> HIDE DEF S, f, b
    <3>3. f \in Seq(S)
      BY <1>0, <1>5
    <3> QED BY <1>0, <3>1, <3>2, <3>3, CutBody DEF b
  <2>2. CASE k < 2
    <3>1. fieldReader[b] = Refused(b)
      <4> HIDE DEF b
      <4> QED BY <2>1, <2>2 DEF fieldReader
    <3> QED BY <3>1 DEF Refused
  <2>3. CASE ~(k < 2)
    <3> HIDE DEF b
    <3>1. b # <<>>
      BY <2>1, <2>3, EmptySeq
    <3>2. PICK m \in 0..Len(p) - 1 : b = <<23>> \o SubSeq(p, 1, m)
      <4> HIDE DEF S, p
      <4> QED BY <1>0, <2>1, <3>1, CutCounted, ZenonT(40)
    <3> DEFINE r == SubSeq(p, 1, m)
    <3>3. r \in Bodies /\ r \in Cut(p)
      BY <1>2
    <3>4. Tail(b) = r
      <4> HIDE DEF S, p, r
      <4> QED BY <1>0, <3>2, <3>3, FirstSymbol DEF r
    <3>5. ~Cell(r).ok
      <4> HIDE DEF r
      <4> QED BY <3>3, CellArrives
    <3> HIDE DEF r
    <3>6. fieldReader[b] = Cell(r)
      BY <2>1, <2>3, <3>4 DEF fieldReader
    <3> QED BY <3>5, <3>6 DEF b
  <2> QED BY <2>2, <2>3
<1> QED BY <1>3, <1>4, <1>5, <1>6, <1>7 DEF Exact

(* A row of cells.                                                            *)
LEMMA RowExact ==
    ASSUME NEW leaf \in Readers(Bodies), NEW row \in Seq(CellValues),
           \A c \in CellValues : Exact(leaf, SendCell(c), c)
    PROVE  /\ SendCells(row) \in Bodies
           /\ \A s \in Bodies : Items(leaf, SendCells(row) \o s, Len(row)) = Took(row, s)
           /\ Items(leaf, SendCells(row), Len(row)) = Got(row)
           /\ \A b \in Cut(SendCells(row)) : ~Items(leaf, b, Len(row)).ok
<1> DEFINE ps == [i \in 1..Len(row) |-> SendCell(row[i])]
           V == Bodies
<1>1. Len(row) \in Nat /\ \A i \in 1..Len(row) : row[i] \in CellValues
  BY LenProperties, ElementOfSeq
<1>2. ps \in Seq(Bodies) /\ Len(ps) = Len(row)
  BY <1>1, CellTyped
<1>3. \A i \in 1..Len(row) : Exact(leaf, ps[i], row[i])
  BY <1>1
<1>4. leaf \in Readers(V) /\ row \in Seq(V)
  BY CellTyped
<1> HIDE DEF ps, V
<1>5. /\ FlattenSeq(ps) \in Bodies
      /\ \A s \in Bodies : Items(leaf, FlattenSeq(ps) \o s, Len(row)) = Took(row, s)
      /\ \A k \in 0..Len(FlattenSeq(ps)) - 1 :
            ~Items(leaf, SubSeq(FlattenSeq(ps), 1, k), Len(row)).ok
  BY <1>2, <1>3, <1>4, ItemsExact
<1>6. SendCells(row) = FlattenSeq(ps)
  BY DEF SendCells, ps
<1>7. <<>> \in Bodies /\ SendCells(row) \o <<>> = SendCells(row)
  BY <1>5, <1>6, EmptySeq, ConcatEmptySeq DEF Bodies
<1> QED BY <1>5, <1>6, <1>7 DEF Cut, Got

(* Rows.                                                                      *)
LEMMA RowFacts ==
    ASSUME NEW cells \in Seq(CellValues)
    PROVE  RowArrives(cells)
<1> DEFINE n == Len(cells)
           p == SendCells(cells)
           S == Int
           body == SendRow(cells)
<1>1. /\ p \in Bodies /\ Items(cellReader, p, n) = Got(cells)
      /\ \A b \in Cut(p) : ~Items(cellReader, b, n).ok
  BY CellReaders, CellsExact, RowExact
<1>2. n \in Nat /\ n \in S /\ p \in Seq(S) /\ Bodies = Seq(S)
  BY <1>1, LenProperties DEF Bodies
<1>3. body = <<n>> \o p
  BY DEF SendRow
<1>4. body # <<>> /\ Head(body) = n /\ Tail(body) = p
  <2> HIDE DEF n, p, S, body
  <2> QED BY <1>2, <1>3, FirstSymbol
<1>5. DataRow(body, n) = Got(cells)
  <2> HIDE DEF n, p, body
  <2> QED BY <1>1, <1>4 DEF DataRow
<1>6. ASSUME NEW b \in Cut(body) PROVE ~DataRow(b, n).ok
  <2>1. CASE b = <<>>
    BY <2>1 DEF DataRow, Refused
  <2>2. CASE b # <<>>
    <3> HIDE DEF n, p, S, body
    <3>1. PICK m \in 0..Len(p) - 1 : b = <<n>> \o SubSeq(p, 1, m)
      BY <1>2, <1>3, <2>2, CutCounted, SMTT(30)
    <3> DEFINE r == SubSeq(p, 1, m)
    <3>2. r \in Cut(p) /\ r \in Seq(S)
      <4>1. m \in 0..Len(p)
        BY <1>2, <3>1, LenProperties
      <4> QED BY <1>2, <3>1, <4>1, CutBody DEF Cut
    <3> HIDE DEF r
    <3>3. Head(b) = n /\ Tail(b) = r
      BY <1>2, <3>1, <3>2, FirstSymbol DEF r
    <3> QED BY <1>1, <2>2, <3>2, <3>3 DEF DataRow
  <2> QED BY <2>1, <2>2
<1>7. ASSUME NEW k \in 0..n + 1, k # n PROVE ~DataRow(body, k).ok
  <2> HIDE DEF n, body
  <2> QED BY <1>4, <1>7 DEF DataRow, Refused
<1> QED BY <1>5, <1>6, <1>7 DEF RowArrives

(* Composites.                                                                *)
LEMMA CompositeFacts ==
    ASSUME NEW cells \in Seq(CellValues)
    PROVE  CompositeArrives(cells)
<1> DEFINE n == Len(cells)
           ps == [i \in 1..n |-> <<23>> \o SendCell(cells[i])]
           p == FlattenSeq(ps)
           S == Int
           V == Bodies
           raw == SendComposite(cells)
<1>1. n \in Nat /\ n \in S /\ \A i \in 1..n : cells[i] \in CellValues
  BY LenProperties, ElementOfSeq
<1>2. ps \in Seq(Bodies) /\ Len(ps) = n /\ \A i \in 1..n : Exact(fieldReader, ps[i], cells[i])
  BY <1>1, CellsExact
<1>3. fieldReader \in Readers(V) /\ cells \in Seq(V)
  BY CellReaders, CellTyped
<1> HIDE DEF ps, V
<1>4. /\ p \in Bodies /\ \A s \in Bodies : Items(fieldReader, p \o s, n) = Took(cells, s)
      /\ \A k \in 0..Len(p) - 1 : ~Items(fieldReader, SubSeq(p, 1, k), n).ok
  BY <1>2, <1>3, ItemsExact
<1>5. raw = <<n>> \o p
  BY DEF SendComposite, ps
<1> HIDE DEF p
<1>6. p \in Seq(S) /\ Bodies = Seq(S) /\ <<>> \in Bodies /\ p \o <<>> = p /\ Len(p) \in Nat
  BY <1>4, EmptySeq, ConcatEmptySeq, LenProperties DEF Bodies
<1>7. raw # <<>> /\ Head(raw) = n /\ Tail(raw) = p
  <2> HIDE DEF n, S, raw
  <2> QED BY <1>1, <1>5, <1>6, FirstSymbol
<1>8. ASSUME NEW ngo \in 0..n + 1
      PROVE  CompositeScan(raw, ngo) = Got(SubSeq(cells, 1, Min({ngo, n})))
  <2> DEFINE fields == Items(fieldReader, p, n)
  <2>1. fields = Took(cells, <<>>)
    BY <1>4, <1>6
  <2>2. fields.ok = TRUE /\ fields.rest = <<>> /\ fields.val = cells
    BY <2>1 DEF Took
  <2> HIDE DEF raw, fields
  <2>3. CompositeScan(raw, ngo) = Took(SubSeq(fields.val, 1, Min({ngo, Len(fields.val)})), fields.rest)
    <3>1. ~(n < 0)
      BY <1>1
    <3> HIDE DEF n
    <3> QED BY <1>7, <2>2, <3>1 DEF CompositeScan, fields
  <2> QED BY <2>2, <2>3 DEF Got
<1>9. ASSUME NEW b \in Cut(raw) PROVE ~CompositeScan(b, n).ok
  <2>1. CASE b = <<>>
    BY <2>1 DEF CompositeScan, Refused
  <2>2. CASE b # <<>>
    <3>1. ~(n < 0)
      BY <1>1
    <3> HIDE DEF n, p, S, raw
    <3>2. PICK m \in 0..Len(p) - 1 : b = <<n>> \o SubSeq(p, 1, m)
      BY <1>1, <1>5, <1>6, <2>2, CutCounted
    <3> DEFINE r == SubSeq(p, 1, m)
               fields == Items(fieldReader, r, n)
    <3>3. r \in Seq(S) /\ ~fields.ok
      <4>1. m \in 0..Len(p)
        BY <1>6, <3>2
      <4> QED BY <1>4, <1>6, <3>2, <4>1, CutBody
    <3> HIDE DEF r
    <3>4. Head(b) = n /\ Tail(b) = r
      BY <1>1, <3>2, <3>3, FirstSymbol DEF r
    <3> HIDE DEF fields
    <3>5. CompositeScan(b, n) = Refused(b)
      BY <2>2, <3>1, <3>3, <3>4 DEF CompositeScan, fields
    <3> QED BY <3>5 DEF Refused
  <2> QED BY <2>1, <2>2
<1> QED BY <1>8, <1>9 DEF CompositeArrives

(* Ranges.                                                                    *)
LEMMA RangeFacts ==
    ASSUME NEW r, IsRange(r)
    PROVE  RangeArrives(r)
<1> DEFINE S == Int
           lo == IF r.lower = Null THEN <<>> ELSE SendCell(r.lower)
           up == IF r.upper = Null THEN <<>> ELSE SendCell(r.upper)
           raw == SendRange(r)
           f == r.flags
<1>0. /\ f \in Nat /\ r.lower \in CellValues /\ r.upper \in CellValues
      /\ (r.lower = Null <=> Bit(f, 1) \/ Bit(f, 8)) /\ (r.upper = Null <=> Bit(f, 1) \/ Bit(f, 16))
  BY DEF IsRange
<1>1. lo \in Bodies /\ up \in Bodies /\ <<>> \in Bodies
  BY <1>0, CellTyped
<1>2. ASSUME NEW s \in Bodies PROVE Bound(f, 8, lo \o s) = Took(r.lower, s)
  <2>1. CASE r.lower = Null
    BY <1>0, <1>2, <2>1, ConcatEmptySeq DEF Bound, Bodies
  <2>2. CASE r.lower # Null
    <3>1. Cell(lo \o s) = Took(r.lower, s)
      BY <1>0, <1>2, <2>2, CellArrives
    <3> HIDE DEF lo
    <3>2. Cell(lo \o s).val # Null
      BY <2>2, <3>1 DEF Took
    <3> QED BY <1>0, <2>2, <3>1, <3>2 DEF Bound
  <2> QED BY <2>1, <2>2
<1>3. ASSUME NEW s \in Bodies PROVE Bound(f, 16, up \o s) = Took(r.upper, s)
  <2>1. CASE r.upper = Null
    BY <1>0, <1>3, <2>1, ConcatEmptySeq DEF Bound, Bodies
  <2>2. CASE r.upper # Null
    <3>1. Cell(up \o s) = Took(r.upper, s)
      BY <1>0, <1>3, <2>2, CellArrives
    <3> HIDE DEF up
    <3>2. Cell(up \o s).val # Null
      BY <2>2, <3>1 DEF Took
    <3> QED BY <1>0, <2>2, <3>1, <3>2 DEF Bound
  <2> QED BY <2>1, <2>2
<1>4. ASSUME NEW b \in Cut(lo) PROVE ~Bound(f, 8, b).ok
  <2>1. CASE r.lower = Null
    <3>1. Cut(<<>>) = {}
      BY DEF Cut
    <3> QED BY <1>4, <2>1, <3>1
  <2>2. CASE r.lower # Null
    <3>1. ~Cell(b).ok /\ b \in Bodies
      <4>1. ~Cell(b).ok
        BY <1>0, <1>4, <2>2, CellArrives
      <4>2. PICK k \in 0..Len(lo) - 1 : b = SubSeq(lo, 1, k)
        BY <1>4 DEF Cut
      <4> HIDE DEF lo
      <4>3. k \in 0..Len(lo)
        BY <1>1, <4>2, LenProperties DEF Bodies
      <4> QED BY <1>1, <4>1, <4>2, <4>3, CutBody DEF Bodies
    <3> QED BY <1>0, <2>2, <3>1 DEF Bound, Refused
  <2> QED BY <2>1, <2>2
<1>5. ASSUME NEW b \in Cut(up) PROVE ~Bound(f, 16, b).ok
  <2>1. CASE r.upper = Null
    <3>1. Cut(<<>>) = {}
      BY DEF Cut
    <3> QED BY <1>5, <2>1, <3>1
  <2>2. CASE r.upper # Null
    <3>1. ~Cell(b).ok /\ b \in Bodies
      <4>1. ~Cell(b).ok
        BY <1>0, <1>5, <2>2, CellArrives
      <4>2. PICK k \in 0..Len(up) - 1 : b = SubSeq(up, 1, k)
        BY <1>5 DEF Cut
      <4> HIDE DEF up
      <4>3. k \in 0..Len(up)
        BY <1>1, <4>2, LenProperties DEF Bodies
      <4> QED BY <1>1, <4>1, <4>2, <4>3, CutBody DEF Bodies
    <3> QED BY <1>0, <2>2, <3>1 DEF Bound, Refused
  <2> QED BY <2>1, <2>2
<1> HIDE DEF lo, up
<1>6. raw = (<<f>> \o lo) \o up
  BY DEF SendRange, lo, up
<1>7. /\ raw = <<f>> \o (lo \o up) /\ lo \o up \in Bodies /\ up \o <<>> = up
      /\ f \in S /\ Bodies = Seq(S)
  <2>1. f \in S /\ Bodies = Seq(S)
    BY <1>0 DEF Bodies
  <2> HIDE DEF S, f, raw
  <2>2. <<f>> \in Seq(S)
    BY <2>1, FirstSymbol
  <2> QED BY <1>1, <1>6, <2>1, <2>2, ConcatAssociative, ConcatProperties, ConcatEmptySeq
<1>8. raw # <<>> /\ Head(raw) = f /\ Tail(raw) = lo \o up
  <2> HIDE DEF S, f, raw
  <2> QED BY <1>7, FirstSymbol
<1>9. RangeScan(raw) = Got(<<r.lower, r.upper>>)
  <2> DEFINE l == Bound(f, 8, lo \o up)
             u == Bound(f, 16, l.rest)
  <2>1. l = Took(r.lower, up)
    BY <1>1, <1>2
  <2>2. l.ok = TRUE /\ l.val = r.lower /\ l.rest = up
    BY <2>1 DEF Took
  <2>3. u = Took(r.upper, <<>>)
    <3> HIDE DEF l
    <3>1. Bound(f, 16, up \o <<>>) = Took(r.upper, <<>>)
      BY <1>1, <1>3
    <3> QED BY <1>7, <2>2, <3>1
  <2> HIDE DEF l
  <2>4. u.ok = TRUE /\ u.val = r.upper /\ u.rest = <<>>
    BY <2>3 DEF Took
  <2>5. RangeScan(raw) = IF ~l.ok \/ ~u.ok THEN Refused(raw) ELSE Took(<<l.val, u.val>>, u.rest)
    <3> HIDE DEF raw, f
    <3> QED BY <1>8 DEF RangeScan, l
  <2> HIDE DEF u
  <2> QED BY <2>2, <2>4, <2>5 DEF Got
<1>10. ASSUME NEW b \in Cut(raw) PROVE ~RangeScan(b).ok
  <2>1. CASE b = <<>>
    BY <2>1 DEF RangeScan, Refused
  <2>2. CASE b # <<>>
    <3> DEFINE q == lo \o up
    <3>1. PICK m \in 0..Len(q) - 1 : b = <<f>> \o SubSeq(q, 1, m)
      <4> HIDE DEF S, f, raw, q
      <4>1. f \in S /\ q \in Seq(S) /\ b \in Cut(<<f>> \o q)
        BY <1>7, <1>10 DEF q
      <4> QED BY <2>2, <4>1, CutCounted
    <3> DEFINE t == SubSeq(q, 1, m)
    <3>2. t \in Cut(q) /\ t \in Seq(S)
      <4>1. m \in 0..Len(q)
        BY <1>7, <3>1, LenProperties DEF Bodies
      <4> HIDE DEF q, S
      <4>2. q \in Seq(S)
        BY <1>7 DEF q
      <4> QED BY <3>1, <4>1, <4>2, CutBody DEF Cut
    <3>3. Head(b) = f /\ Tail(b) = t
      <4> HIDE DEF S, f, t, q
      <4> QED BY <1>7, <3>1, <3>2, FirstSymbol DEF t
    <3> DEFINE l == Bound(f, 8, t)
               u == Bound(f, 16, l.rest)
    <3>4. RangeScan(b) = IF ~l.ok \/ ~u.ok THEN Refused(b) ELSE Took(<<l.val, u.val>>, u.rest)
      <4> HIDE DEF f, t
      <4> QED BY <2>2, <3>3 DEF RangeScan
    <3>5. ~l.ok \/ ~u.ok
      <4>1. CutIn(t, lo, up)
        <5> HIDE DEF t, S
        <5> QED BY <1>1, <1>7, <3>2, CutCases
      <4> HIDE DEF t
      <4>2. CASE t \in Cut(lo)
        BY <1>4, <4>2
      <4>3. CASE \E k \in 0..Len(up) - 1 : t = lo \o SubSeq(up, 1, k)
        <5>1. PICK k \in 0..Len(up) - 1 : t = lo \o SubSeq(up, 1, k)
          BY <4>3
        <5> DEFINE v == SubSeq(up, 1, k)
        <5>2. v \in Bodies /\ v \in Cut(up)
          <6>1. k \in 0..Len(up)
            BY <1>1, <5>1, LenProperties DEF Bodies
          <6> HIDE DEF S
          <6> QED BY <1>1, <1>7, <6>1, CutBody DEF Cut
        <5> HIDE DEF v
        <5>3. l = Took(r.lower, v)
          BY <1>2, <5>1, <5>2 DEF v
        <5>4. l.rest = v
          BY <5>3 DEF Took
        <5> HIDE DEF l
        <5> QED BY <1>5, <5>2, <5>4
      <4> QED BY <4>1, <4>2, <4>3 DEF CutIn
    <3> HIDE DEF l, u
    <3> QED BY <3>4, <3>5 DEF Refused
  <2> QED BY <2>1, <2>2
<1> QED BY <1>9, <1>10 DEF RangeArrives

(* What Nested is for one dimension.                                          *)
LEMMA NestedOne ==
    ASSUME NEW leaf, NEW dims, Len(dims) = 1
    PROVE  Nested(leaf, dims) = [b \in Bodies |-> Items(leaf, b, dims[1])]
<1> DEFINE n == Len(dims)
           P(f) == f = [d \in 0..n |-> IF d = 0 THEN leaf
                            ELSE [b \in Bodies |-> Items(f[d - 1], b, dims[n - d + 1])]]
           r == CHOOSE f : P(f)
           one == [b \in Bodies |-> Items(leaf, b, dims[1])]
           w == [d \in 0..n |-> IF d = 0 THEN leaf ELSE one]
<1>1. P(w)
  <2>1. ASSUME NEW d \in 0..n
        PROVE  w[d] = IF d = 0 THEN leaf ELSE [b \in Bodies |-> Items(w[d - 1], b, dims[n - d + 1])]
    <3>1. d = 0 \/ d = 1
      OBVIOUS
    <3>2. CASE d = 0
      BY <3>2
    <3>3. CASE d = 1
      <4>1. w[d - 1] = leaf /\ n - d + 1 = 1 /\ w[d] = one
        BY <3>3
      <4> HIDE DEF w, n
      <4> QED BY <3>3, <4>1
    <3> QED BY <3>1, <3>2, <3>3
  <2> QED BY <2>1
<1>2. P(r)
  <2> HIDE DEF P
  <2> QED BY <1>1
<1>3. Nested(leaf, dims) = r[n]
  BY DEF Nested
<1> HIDE DEF r
<1>4. r[0] = leaf
  BY <1>2
<1>5. ASSUME NEW d \in {1}
      PROVE  r[d] = [b \in Bodies |-> Items(r[d - 1], b, dims[n - d + 1])]
  <2>1. d \in 0..n /\ d # 0
    OBVIOUS
  <2> HIDE DEF n
  <2> QED BY <1>2, <2>1
<1>6. r[1] = one
  <2>1. n - 1 + 1 = 1 /\ 1 - 1 = 0
    OBVIOUS
  <2> HIDE DEF n, P
  <2> QED BY <1>4, <1>5, <2>1
<1> QED BY <1>3, <1>6

(* And for two.                                                               *)
LEMMA NestedTwo ==
    ASSUME NEW leaf, NEW dims, Len(dims) = 2
    PROVE  Nested(leaf, dims)
             = [b \in Bodies |-> Items([c \in Bodies |-> Items(leaf, c, dims[2])], b, dims[1])]
<1> DEFINE n == Len(dims)
           P(f) == f = [d \in 0..n |-> IF d = 0 THEN leaf
                            ELSE [b \in Bodies |-> Items(f[d - 1], b, dims[n - d + 1])]]
           r == CHOOSE f : P(f)
           one == [b \in Bodies |-> Items(leaf, b, dims[2])]
           two == [b \in Bodies |-> Items(one, b, dims[1])]
           w == [d \in 0..n |-> IF d = 0 THEN leaf ELSE IF d = 1 THEN one ELSE two]
<1>1. P(w)
  <2>1. ASSUME NEW d \in 0..n
        PROVE  w[d] = IF d = 0 THEN leaf ELSE [b \in Bodies |-> Items(w[d - 1], b, dims[n - d + 1])]
    <3>1. d = 0 \/ d = 1 \/ d = 2
      OBVIOUS
    <3>2. CASE d = 0
      BY <3>2
    <3>3. CASE d = 1
      <4>1. w[d - 1] = leaf /\ n - d + 1 = 2 /\ w[d] = one
        BY <3>3
      <4> HIDE DEF w, n
      <4> QED BY <3>3, <4>1
    <3>4. CASE d = 2
      <4>1. w[d - 1] = one /\ n - d + 1 = 1 /\ w[d] = two
        BY <3>4
      <4> HIDE DEF w, n, one
      <4> QED BY <3>4, <4>1
    <3> QED BY <3>1, <3>2, <3>3, <3>4
  <2> QED BY <2>1
<1>2. P(r)
  <2> HIDE DEF P
  <2> QED BY <1>1
<1>3. Nested(leaf, dims) = r[n]
  BY DEF Nested
<1> HIDE DEF r
<1>4. r[0] = leaf
  BY <1>2
<1>5. ASSUME NEW d \in {1, 2}
      PROVE  r[d] = [b \in Bodies |-> Items(r[d - 1], b, dims[n - d + 1])]
  <2>1. d \in 0..n /\ d # 0
    OBVIOUS
  <2> HIDE DEF n
  <2> QED BY <1>2, <2>1
<1>6. r[1] = one
  <2>1. n - 1 + 1 = 2 /\ 1 - 1 = 0
    OBVIOUS
  <2> HIDE DEF n, P
  <2> QED BY <1>4, <1>5, <2>1
<1>7. r[2] = two
  <2>1. n - 2 + 1 = 1 /\ 2 - 1 = 1
    OBVIOUS
  <2> HIDE DEF n, P, one
  <2> QED BY <1>5, <1>6, <2>1
<1> QED BY <1>3, <1>7

(* What the readers of a binary array make of it and of a part of it.         *)
TakenBy(leaf, raw, ndim, val) ==
    /\ Len(raw) >= 3 /\ raw[1] = ndim
    /\ Elements(leaf, raw, ndim) = Got(val)
    /\ \A b \in Cut(raw) : Len(b) >= 3 => b[1] = ndim /\ ~Elements(leaf, b, ndim).ok

(* A header and the elements.                                                 *)
LEMMA HeaderThenElements ==
    ASSUME NEW leaf, NEW val, NEW ndim \in {1, 2}, NEW hdr \in Bodies, Len(hdr) = 3 + 2 * ndim,
           hdr[1] = ndim, \A i \in 1..ndim : ~(Dims(hdr, ndim)[i] < 0),
           NEW p \in Bodies, Nested(leaf, Dims(hdr, ndim))[p] = Got(val),
           \A c \in Cut(p) : ~Nested(leaf, Dims(hdr, ndim))[c].ok
    PROVE  TakenBy(leaf, hdr \o p, ndim, val)
<1> DEFINE S == Int
           H == Len(hdr)
           raw == hdr \o p
<1>0. Bodies = Seq(S) /\ H \in Nat /\ H = 3 + 2 * ndim
  BY DEF Bodies
<1>1. ASSUME NEW s \in Bodies
      PROVE  /\ Len(hdr \o s) = H + Len(s) /\ Len(s) \in Nat
             /\ SubSeq(hdr \o s, 4 + 2 * ndim, Len(hdr \o s)) = s
             /\ \A i \in 1..H : (hdr \o s)[i] = hdr[i]
  <2> DEFINE t == hdr \o s
  <2>1. /\ Len(t) = H + Len(s) /\ Len(s) \in Nat /\ SubSeq(t, H + 1, Len(t)) = s
        /\ \A i \in 1..H : t[i] = hdr[i]
    <3> HIDE DEF S
    <3> QED BY <1>0, PartsOfConcat
  <2>2. H + 1 = 4 + 2 * ndim
    BY <1>0
  <2> HIDE DEF t, H
  <2> QED BY <2>1, <2>2 DEF t
<1>2. ASSUME NEW s \in Bodies
      PROVE  Elements(leaf, hdr \o s, ndim) = Nested(leaf, Dims(hdr, ndim))[s]
  <2> DEFINE t == hdr \o s
  <2>1. Dims(t, ndim) = Dims(hdr, ndim)
    <3>1. \A i \in 1..ndim : 3 + 2 * i - 1 \in 1..H
      BY <1>0
    <3> HIDE DEF H
    <3>2. \A i \in 1..ndim : t[3 + 2 * i - 1] = hdr[3 + 2 * i - 1]
      BY <1>1, <3>1
    <3> HIDE DEF t
    <3> QED BY <3>2 DEF Dims
  <2>2. ~(Len(t) < 3 + 2 * ndim)
    BY <1>0, <1>1, SMTT(30)
  <2>3. SubSeq(t, 4 + 2 * ndim, Len(t)) = s
    BY <1>1
  <2> HIDE DEF t, H
  <2> QED BY <2>1, <2>2, <2>3 DEF Elements, t
<1>3. Len(raw) >= 3 /\ raw[1] = ndim
  BY <1>0, <1>1, SMTT(30)
<1>4. Elements(leaf, raw, ndim) = Got(val)
  BY <1>2
<1>5. ASSUME NEW b \in Cut(raw), Len(b) >= 3 PROVE b[1] = ndim /\ ~Elements(leaf, b, ndim).ok
  <2>1. CutIn(b, hdr, p)
    <3> HIDE DEF S
    <3> QED BY <1>0, CutCases
  <2>2. CASE b \in Cut(hdr)
    <3>1. PICK k \in 0..Len(hdr) - 1 : b = SubSeq(hdr, 1, k)
      BY <2>2 DEF Cut
    <3>2. k \in Nat /\ k <= Len(hdr) /\ 1 \in Int /\ 1 <= 1
      BY <1>0, <3>1
    <3>3. Len(b) = k /\ \A i \in 1..k : b[i] = hdr[i]
      <4>1. \A i \in 1..k : hdr[i] \in S
        BY <1>0, <3>2, ElementOfSeq
      <4> HIDE DEF S
      <4> QED BY <3>1, <3>2, <4>1, SubSeqProperties
    <3>4. b[1] = ndim /\ Len(b) < 3 + 2 * ndim
      BY <1>0, <1>5, <3>1, <3>3
    <3>5. Elements(leaf, b, ndim) = Refused(b)
      BY <3>4 DEF Elements
    <3> QED BY <3>4, <3>5 DEF Refused
  <2>3. CASE \E m \in 0..Len(p) - 1 : b = hdr \o SubSeq(p, 1, m)
    <3>1. PICK m \in 0..Len(p) - 1 : b = hdr \o SubSeq(p, 1, m)
      BY <2>3
    <3> DEFINE c == SubSeq(p, 1, m)
    <3>2. c \in Bodies /\ c \in Cut(p)
      <4>1. m \in 0..Len(p)
        BY <1>1, <3>1
      <4> HIDE DEF S
      <4> QED BY <1>0, <4>1, CutBody DEF Cut
    <3> HIDE DEF c
    <3>3. b = hdr \o c
      BY <3>1 DEF c
    <3>4. b[1] = ndim
      BY <1>0, <1>1, <3>2, <3>3
    <3> QED BY <1>2, <3>2, <3>3, <3>4
  <2>4. b \in Cut(hdr) \/ \E m \in 0..Len(p) - 1 : b = hdr \o SubSeq(p, 1, m)
    BY <2>1 DEF CutIn
  <2> QED BY <2>2, <2>3, <2>4, Zenon
<1> QED BY <1>3, <1>4, <1>5 DEF TakenBy

(* An array of one dimension.                                                 *)
LEMMA OneDimension ==
    ASSUME NEW leaf \in Readers(Bodies), \A c \in CellValues : Exact(leaf, SendCell(c), c),
           NEW val \in Seq(CellValues), val # <<>>
    PROVE  TakenBy(leaf, SendArray(val, 1), 1, val)
<1> DEFINE n == Len(val)
           p == SendCells(val)
           hdr == <<1, 0, 23, n, 1>>
           dims == Dims(hdr, 1)
           R == Nested(leaf, dims)
<1>1. n \in Nat
  BY LenProperties
<1>2. /\ p \in Bodies /\ Items(leaf, p, n) = Got(val)
      /\ \A b \in Cut(p) : ~Items(leaf, b, n).ok
  BY RowExact
<1> HIDE DEF p, n
<1>3. hdr \in Bodies /\ Len(hdr) = 3 + 2 * 1 /\ hdr[1] = 1 /\ hdr[4] = n
  BY <1>1 DEF Bodies
<1>4. Len(dims) = 1 /\ dims[1] = n /\ \A i \in 1..1 : ~(dims[i] < 0)
  <2>1. dims = [i \in 1..1 |-> hdr[3 + 2 * i - 1]]
    BY DEF Dims
  <2>2. \A i \in 1..1 : 3 + 2 * i - 1 = 4
    OBVIOUS
  <2>3. dims = [i \in 1..1 |-> n]
    <3> HIDE DEF hdr
    <3> QED BY <1>3, <2>1, <2>2
  <2> HIDE DEF dims
  <2> QED BY <1>1, <2>3
<1>5. \A b \in Bodies : R[b] = Items(leaf, b, n)
  <2> HIDE DEF dims
  <2>1. R = [b \in Bodies |-> Items(leaf, b, dims[1])]
    BY <1>4, NestedOne
  <2> HIDE DEF R
  <2> QED BY <1>4, <2>1
<1>6. \A c \in Cut(p) : c \in Bodies
  <2> SUFFICES ASSUME NEW c \in Cut(p) PROVE c \in Bodies
    OBVIOUS
  <2>1. PICK k \in 0..Len(p) - 1 : c = SubSeq(p, 1, k)
    BY DEF Cut
  <2>2. k \in 0..Len(p)
    BY <1>2, LenProperties DEF Bodies
  <2> QED BY <1>2, <2>1, <2>2, CutBody DEF Bodies
<1>7. R[p] = Got(val) /\ \A c \in Cut(p) : ~R[c].ok
  <2> HIDE DEF R
  <2> QED BY <1>2, <1>5, <1>6
<1>8. SendArray(val, 1) = hdr \o p
  BY DEF SendArray, p, n
<1>9. TakenBy(leaf, hdr \o p, 1, val)
  <2> DEFINE one == 1
  <2>1. one \in {1, 2} /\ Len(hdr) = 3 + 2 * one /\ hdr[1] = one
    BY <1>3
  <2> HIDE DEF hdr, one
  <2> QED BY <1>2, <1>3, <1>4, <1>7, <2>1, HeaderThenElements DEF one
<1> QED BY <1>8, <1>9

(* An array of two dimensions.                                                *)
LEMMA TwoDimensions ==
    ASSUME NEW leaf \in Readers(Bodies), \A c \in CellValues : Exact(leaf, SendCell(c), c),
           NEW val \in Seq(Seq(CellValues)), val # <<>>,
           \A i, j \in 1..Len(val) : Len(val[i]) = Len(val[j])
    PROVE  TakenBy(leaf, SendArray(val, 2), 2, val)
<1> DEFINE n == Len(val)
           m == Len(val[1])
           ps == [i \in 1..n |-> SendCells(val[i])]
           p == FlattenSeq(ps)
           hdr == <<2, 0, 23, n, 1, m, 1>>
           dims == Dims(hdr, 2)
           R == Nested(leaf, dims)
           row == [c \in Bodies |-> Items(leaf, c, m)]
           V == Seq(Bodies)
<1>1. /\ n \in Nat /\ n >= 1 /\ \A i \in 1..n : val[i] \in Seq(CellValues) /\ Len(val[i]) \in Nat
  BY LenProperties, ElementOfSeq, EmptySeq
<1>2. m \in Nat /\ \A i \in 1..n : Len(val[i]) = m
  BY <1>1
<1>3. \A x \in Seq(CellValues) : x \in V
  BY CellTyped
<1>4. row \in Readers(V)
  <2>1. \A c \in Bodies : Items(leaf, c, m) \in Results(V)
    BY <1>2, ItemsDef
  <2> HIDE DEF V
  <2> QED BY <2>1 DEF Readers
<1>5. ASSUME NEW x \in Seq(CellValues), Len(x) = m
      PROVE  SendCells(x) \in Bodies /\ Exact(row, SendCells(x), x)
  <2> DEFINE q == SendCells(x)
  <2>1. /\ q \in Bodies /\ \A s \in Bodies : Items(leaf, q \o s, m) = Took(x, s)
        /\ \A b \in Cut(q) : ~Items(leaf, b, m).ok
    <3> HIDE DEF m
    <3> QED BY <1>5, RowExact
  <2> HIDE DEF q, m
  <2>2. \A s \in Bodies : q \o s \in Bodies
    BY <2>1, ConcatProperties DEF Bodies
  <2>3. ASSUME NEW k \in 0..Len(q) - 1 PROVE SubSeq(q, 1, k) \in Bodies /\ SubSeq(q, 1, k) \in Cut(q)
    <3>1. k \in 0..Len(q)
      BY <2>1, LenProperties DEF Bodies
    <3> QED BY <2>1, <3>1, CutBody DEF Bodies, Cut
  <2> QED BY <2>1, <2>2, <2>3 DEF Exact, q
<1>6. /\ ps \in Seq(Bodies) /\ Len(ps) = n
      /\ \A i \in 1..n : Exact(row, ps[i], val[i])
  <2>1. \A i \in 1..n : SendCells(val[i]) \in Bodies /\ Exact(row, SendCells(val[i]), val[i])
    <3> HIDE DEF row, m
    <3> QED BY <1>1, <1>2, <1>5
  <2> HIDE DEF row
  <2>2. ps \in [1..n -> Bodies]
    BY <2>1
  <2>3. ps \in Seq(Bodies) /\ Len(ps) = n
    <3> HIDE DEF n
    <3> QED BY <1>1, <2>1
  <2> QED BY <2>1, <2>2, <2>3
<1>7. val \in Seq(V)
  <2> HIDE DEF V
  <2> QED BY <1>3, SeqMonotonic
<1>8. /\ p \in Bodies /\ \A s \in Bodies : Items(row, p \o s, n) = Took(val, s)
      /\ \A k \in 0..Len(p) - 1 : ~Items(row, SubSeq(p, 1, k), n).ok
  <2> HIDE DEF row, ps, V
  <2> QED BY <1>4, <1>6, <1>7, ItemsExact
<1>9. SendArray(val, 2) = hdr \o p
  BY DEF SendArray
<1> HIDE DEF ps, p, n, m
<1>10. /\ Items(row, p, n) = Got(val)
       /\ \A c \in Cut(p) : c \in Bodies /\ ~Items(row, c, n).ok
  <2>1. <<>> \in Bodies /\ p \o <<>> = p
    BY <1>8, CellTyped, ConcatEmptySeq DEF Bodies
  <2>2. Items(row, p, n) = Got(val)
    <3> HIDE DEF row
    <3> QED BY <1>8, <2>1 DEF Got
  <2>3. ASSUME NEW c \in Cut(p) PROVE c \in Bodies /\ ~Items(row, c, n).ok
    <3> HIDE DEF row
    <3>1. PICK k \in 0..Len(p) - 1 : c = SubSeq(p, 1, k)
      BY DEF Cut
    <3>2. k \in 0..Len(p)
      BY <1>8, LenProperties DEF Bodies
    <3>3. c \in Bodies
      BY <1>8, <3>1, <3>2, CutBody DEF Bodies
    <3> QED BY <1>8, <3>1, <3>3
  <2> QED BY <2>2, <2>3
<1>11. hdr \in Bodies /\ Len(hdr) = 3 + 2 * 2 /\ hdr[1] = 2 /\ hdr[4] = n /\ hdr[6] = m
  BY <1>1, <1>2 DEF Bodies
<1>12. Len(dims) = 2 /\ dims[1] = n /\ dims[2] = m /\ \A i \in 1..2 : ~(dims[i] < 0)
  <2>1. dims = [i \in 1..2 |-> hdr[3 + 2 * i - 1]]
    BY DEF Dims
  <2>2. \A i \in 1..2 : 3 + 2 * i - 1 = IF i = 1 THEN 4 ELSE 6
    OBVIOUS
  <2>3. dims = [i \in 1..2 |-> IF i = 1 THEN n ELSE m]
    <3> HIDE DEF hdr
    <3> QED BY <1>11, <2>1, <2>2
  <2> HIDE DEF dims
  <2> QED BY <1>1, <1>2, <2>3
<1>13. \A b \in Bodies : R[b] = Items(row, b, n)
  <2>1. R = [b \in Bodies |-> Items([c \in Bodies |-> Items(leaf, c, dims[2])], b, dims[1])]
    <3> HIDE DEF dims
    <3> QED BY <1>12, NestedTwo, SMTT(30)
  <2> HIDE DEF R, dims
  <2>2. R = [b \in Bodies |-> Items(row, b, n)]
    BY <1>12, <2>1
  <2> HIDE DEF row
  <2> QED BY <2>2
<1>14. R[p] = Got(val) /\ \A c \in Cut(p) : ~R[c].ok
  <2> HIDE DEF R, row
  <2> QED BY <1>8, <1>10, <1>13
<1>15. TakenBy(leaf, hdr \o p, 2, val)
  <2> DEFINE two == 2
  <2>1. two \in {1, 2} /\ Len(hdr) = 3 + 2 * two /\ hdr[1] = two
    BY <1>11
  <2> HIDE DEF hdr, two
  <2> QED BY <1>8, <1>11, <1>12, <1>14, <2>1, HeaderThenElements DEF two
<1> QED BY <1>9, <1>15

(* Arrays.                                                                    *)
LEMMA ArrayFacts ==
    ASSUME NEW val, NEW ndim \in {1, 2}, IsArray(val, ndim)
    PROVE  ArrayArrives(val, ndim)
<1> DEFINE raw == SendArray(val, ndim)
<1>1. CASE val = <<>>
  <2>1. raw = <<0, 0, 23>>
    BY <1>1 DEF SendArray
  <2>2. Len(raw) = 3 /\ raw[1] = 0 /\ raw \in Seq(Int)
    BY <2>1
  <2> HIDE DEF raw
  <2>3. ArrayJSON(raw) = Took(<<>>, <<>>) /\ ArrayScan(raw, ndim) = Took(<<>>, <<>>)
    BY <2>2 DEF ArrayJSON, ArrayScan
  <2>4. ASSUME NEW b \in Cut(raw) PROVE ~ArrayJSON(b).ok /\ ~ArrayScan(b, ndim).ok
    <3>1. PICK k \in 0..Len(raw) - 1 : b = SubSeq(raw, 1, k)
      BY DEF Cut
    <3>2. k \in 0..Len(raw) /\ k < 3
      BY <2>2, <3>1
    <3>3. Len(b) = k
      BY <2>2, <3>1, <3>2, CutBody
    <3>4. Len(b) < 3
      BY <3>2, <3>3
    <3> QED BY <3>4 DEF ArrayJSON, ArrayScan, Refused
  <2>5. /\ ArrayJSON(raw).ok /\ ArrayJSON(raw).val = val
        /\ ArrayScan(raw, ndim).ok /\ ArrayScan(raw, ndim).val = val
    BY <1>1, <2>3 DEF Took
  <2> QED BY <1>1, <2>4, <2>5 DEF ArrayArrives, raw
<1>2. CASE val # <<>>
  <2>1. TakenBy(elemReader, raw, ndim, val) /\ TakenBy(cellReader, raw, ndim, val)
    <3>1. \A c \in CellValues : Exact(elemReader, SendCell(c), c) /\ Exact(cellReader, SendCell(c), c)
      BY CellsExact
    <3>2. CASE ndim = 1
      <4>1. val \in Seq(CellValues)
        BY <3>2 DEF IsArray
      <4> QED BY <1>2, <3>1, <3>2, <4>1, CellReaders, OneDimension
    <3>3. CASE ndim = 2
      <4>1. val \in Seq(Seq(CellValues)) /\ \A i, j \in 1..Len(val) : Len(val[i]) = Len(val[j])
        BY <3>3 DEF IsArray
      <4> QED BY <1>2, <3>1, <3>3, <4>1, CellReaders, TwoDimensions
    <3> QED BY <3>2, <3>3
  <2> HIDE DEF raw
  <2>2. ~(Len(raw) < 3) /\ ~(raw[1] <= 0) /\ raw[1] # 0 /\ raw[1] = ndim
    <3>1. Len(raw) >= 3 /\ raw[1] = ndim
      BY <2>1 DEF TakenBy
    <3>2. Len(raw) \in Int \/ Len(raw) \notin Int
      OBVIOUS
    <3> QED BY <3>1
  <2>3. ArrayJSON(raw) = Got(val) /\ ArrayScan(raw, ndim) = Got(val)
    BY <2>1, <2>2 DEF TakenBy, ArrayJSON, ArrayScan
  <2>4. ~ArrayScan(raw, 3 - ndim).ok
    <3>1. raw[1] # 3 - ndim
      BY <2>2
    <3> QED BY <2>2, <3>1 DEF ArrayScan, Refused
  <2>5. ASSUME NEW b \in Cut(raw) PROVE ~ArrayJSON(b).ok /\ ~ArrayScan(b, ndim).ok
    <3>1. CASE Len(b) < 3
      BY <3>1 DEF ArrayJSON, ArrayScan, Refused
    <3>2. CASE ~(Len(b) < 3)
      <4>1. b[1] = ndim /\ ~Elements(elemReader, b, ndim).ok /\ ~Elements(cellReader, b, ndim).ok
        BY <2>1, <3>2 DEF TakenBy
      <4> QED BY <3>2, <4>1 DEF ArrayJSON, ArrayScan
    <3> QED BY <3>1, <3>2
  <2>6. /\ ArrayJSON(raw).ok /\ ArrayJSON(raw).val = val
        /\ ArrayScan(raw, ndim).ok /\ ArrayScan(raw, ndim).val = val
    BY <2>3 DEF Got, Took
  <2> QED BY <2>4, <2>5, <2>6 DEF ArrayArrives, raw
<1> QED BY <1>1, <1>2

(* The position of the first zero.                                            *)
LEMMA ZeroFacts ==
    ASSUME NEW b \in Bodies
    PROVE  /\ indexZero(b) \in Nat /\ indexZero(b) <= Len(b) /\ Len(b) \in Nat
           /\ (\A i \in 1..Len(b) : b[i] # 0) => indexZero(b) = 0
           /\ \A e \in 1..Len(b) : b[e] = 0 /\ (\A i \in 1..e - 1 : b[i] # 0) => indexZero(b) = e
<1> DEFINE zeros == {i \in 1..Len(b) : b[i] = 0}
           first(i) == i \in zeros /\ \A j \in zeros : i <= j
           c == CHOOSE i \in zeros : \A j \in zeros : i <= j
<1>1. Len(b) \in Nat
  BY LenProperties DEF Bodies
<1>2. indexZero(b) = IF zeros = {} THEN 0 ELSE c
  BY DEF indexZero
<1>3. zeros # {} => first(c)
  <2>1. zeros \in SUBSET Nat
    BY <1>1
  <2>2. ASSUME zeros # {} PROVE first(c)
    <3> HIDE DEF zeros
    <3>1. \E i \in zeros : \A j \in zeros : i <= j
      BY <2>1, <2>2, LeastNat
    <3> QED BY <3>1
  <2> QED BY <2>2
<1> HIDE DEF c
<1>4. indexZero(b) \in Nat /\ indexZero(b) <= Len(b)
  BY <1>1, <1>2, <1>3
<1>5. (\A i \in 1..Len(b) : b[i] # 0) => indexZero(b) = 0
  BY <1>2
<1>6. ASSUME NEW e \in 1..Len(b), b[e] = 0, \A i \in 1..e - 1 : b[i] # 0
      PROVE  indexZero(b) = e
  <2>1. e \in zeros
    BY <1>6
  <2>2. first(c)
    BY <1>3, <2>1
  <2>3. c <= e /\ c \in 1..Len(b) /\ b[c] = 0
    BY <2>1, <2>2
  <2>4. ~(c < e)
    BY <1>1, <1>6, <2>3
  <2> QED BY <1>1, <1>2, <2>1, <2>3, <2>4
<1> QED BY <1>1, <1>4, <1>5, <1>6

ColumnsRead == [name : Bodies, oid : Int, format : Int]

(* The reader of a column returns one, or refuses.                            *)
LEMMA ColumnReader == columnReader \in Readers(ColumnsRead \cup {<<>>})
<1> DEFINE V == ColumnsRead \cup {<<>>}
<1>1. ASSUME NEW b \in Bodies PROVE ColumnOf(b) \in Results(V)
  <2> DEFINE e == indexZero(b)
             rest == SubSeq(b, e + 1, Len(b))
             name == SubSeq(b, 1, e - 1)
             next == SubSeq(rest, DescriptorLen + 1, Len(rest))
  <2>1. e \in Nat /\ e <= Len(b) /\ Len(b) \in Nat
    BY ZeroFacts
  <2>2. \A x \in Bodies, m, n \in Int : 1 <= m /\ n <= Len(x) => SubSeq(x, m, n) \in Bodies
    BY SubSeqProperties, ElementOfSeq, LenProperties DEF Bodies
  <2>3. \A x \in Bodies : Len(x) \in Nat /\ \A i \in 1..Len(x) : x[i] \in Int
    BY ElementOfSeq, LenProperties DEF Bodies
  <2>4. CASE e = 0 \/ Len(rest) < DescriptorLen
    <3>1. ColumnOf(b) = Refused(b)
      BY <2>4 DEF ColumnOf
    <3> QED BY <3>1 DEF Refused, Results
  <2>5. CASE ~(e = 0 \/ Len(rest) < DescriptorLen)
    <3>1. ColumnOf(b) = Took([name |-> name, oid |-> rest[3], format |-> rest[6]], next)
      BY <2>5 DEF ColumnOf
    <3> HIDE DEF e
    <3>2. rest \in Bodies /\ name \in Bodies
      BY <2>1, <2>2, <2>5
    <3> HIDE DEF name, rest
    <3>3. Len(rest) \in Nat /\ Len(rest) >= 6 /\ DescriptorLen = 6
      BY <2>3, <2>5, <3>2 DEF DescriptorLen
    <3>4. next \in Bodies /\ rest[3] \in Int /\ rest[6] \in Int
      BY <2>2, <2>3, <3>2, <3>3
    <3> HIDE DEF next
    <3>5. [name |-> name, oid |-> rest[3], format |-> rest[6]] \in V
      BY <3>2, <3>4 DEF ColumnsRead
    <3> HIDE DEF V
    <3> QED BY <3>1, <3>4, <3>5 DEF Took, Results
  <2> QED BY <2>4, <2>5
<1> HIDE DEF V
<1>2. columnReader \in Readers(V)
  BY <1>1 DEF columnReader, Readers
<1> QED BY <1>2 DEF V

(* A column is read as it was written.                                        *)
LEMMA ColumnExact ==
    ASSUME NEW col \in ColumnValues
    PROVE  SendColumn(col) \in Bodies /\ Exact(columnReader, SendColumn(col), col)
<1> DEFINE S == Int
           name == col.name
           z == <<0>>
           fixed == <<0, 0, col.oid, 0, 0, col.format>>
           L == Len(name)
           front == name \o z
           p == SendColumn(col)
<1>1. /\ name \in Seq(Nat \ {0}) /\ col.oid \in Int /\ col.format \in Int
      /\ col = [name |-> name, oid |-> col.oid, format |-> col.format]
  BY DEF ColumnValues
<1>2. name \in Seq(S) /\ L \in Nat /\ \A i \in 1..L : name[i] # 0
  <2>1. name \in Seq(S)
    <3>1. Nat \ {0} \subseteq S
      OBVIOUS
    <3> HIDE DEF S, name
    <3> QED BY <1>1, <3>1, SeqMonotonic
  <2>2. \A i \in 1..L : name[i] \in Nat \ {0}
    <3> HIDE DEF name
    <3> QED BY <1>1, ElementOfSeq
  <2>3. L \in Nat
    <3> HIDE DEF name
    <3> QED BY <1>1, LenProperties
  <2> HIDE DEF name
  <2> QED BY <2>1, <2>2, <2>3
<1>3. z \in Seq(S) /\ Len(z) = 1 /\ z[1] = 0 /\ Bodies = Seq(S)
  BY DEF Bodies
<1>4. /\ fixed \in Seq(S) /\ Len(fixed) = 6
      /\ fixed[3] = col.oid /\ fixed[6] = col.format
  <2> DEFINE o == col.oid
             t == col.format
  <2>1. o \in Int /\ t \in Int
    BY <1>1
  <2> HIDE DEF o, t
  <2>2. <<0, 0, o, 0, 0, t>> \in Seq(Int) /\ Len(<<0, 0, o, 0, 0, t>>) = 6
    BY <2>1
  <2> QED BY <2>2 DEF o, t
<1>6. p = front \o fixed
  BY DEF SendColumn
<1> HIDE DEF name, z, fixed, p
<1>7. /\ front \in Seq(S) /\ Len(front) = L + 1 /\ front[L + 1] = 0
      /\ \A i \in 1..L : front[i] = name[i]
  <2> HIDE DEF S
  <2>1. /\ front \in Seq(S) /\ Len(front) = L + Len(z)
        /\ \A i \in 1..L + Len(z) : front[i] = IF i <= L THEN name[i] ELSE z[i - L]
    BY <1>2, <1>3, ConcatProperties
  <2>2. front[L + 1] = z[1]
    <3> DEFINE e == L + 1
    <3>1. e \in 1..L + Len(z) /\ ~(e <= L) /\ e - L = 1
      BY <1>2, <1>3
    <3> HIDE DEF e, L, front
    <3>2. front[e] = IF e <= L THEN name[e] ELSE z[e - L]
      BY <2>1, <3>1
    <3>3. front[e] = z[1]
      BY <3>1, <3>2
    <3> QED BY <3>3 DEF e
  <2>3. \A i \in 1..L : i \in 1..L + Len(z) /\ i <= L
    BY <1>2, <1>3
  <2> HIDE DEF L, front
  <2> QED BY <1>3, <2>1, <2>2, <2>3
<1> HIDE DEF front, L
<1>8. p \in Seq(S) /\ Len(p) = L + 7
  <2>1. p \in Seq(S) /\ Len(p) = Len(front) + Len(fixed)
    <3> HIDE DEF S
    <3> QED BY <1>4, <1>6, <1>7, PartsOfConcat
  <2> QED BY <1>2, <1>4, <1>7, <2>1
(* A body that starts with the name and its zero. *)
<1>9. ASSUME NEW q \in Seq(S), NEW b, b = front \o q
      PROVE  /\ b \in Seq(S) /\ indexZero(b) = L + 1 /\ SubSeq(b, L + 2, Len(b)) = q
             /\ SubSeq(b, 1, L) = name
  <2>1. /\ b \in Seq(S) /\ Len(b) = L + 1 + Len(q) /\ Len(q) \in Nat
        /\ SubSeq(b, L + 1 + 1, Len(b)) = q
        /\ \A i \in 1..L + 1 : b[i] = front[i]
    <3> HIDE DEF S
    <3>0. front \in Seq(S) /\ q \in Seq(S)
      BY <1>7
    <3>1. /\ front \o q \in Seq(S) /\ Len(front \o q) = Len(front) + Len(q) /\ Len(q) \in Nat
          /\ SubSeq(front \o q, Len(front) + 1, Len(front \o q)) = q
          /\ \A i \in 1..Len(front) : (front \o q)[i] = front[i]
      BY <3>0, PartsOfConcat
    <3> QED BY <1>7, <1>9, <3>1
  <2>2. L + 1 + 1 = L + 2 /\ L + 1 \in 1..Len(b) /\ L + 1 - 1 = L
    BY <1>2, <2>1
  <2>3. b[L + 1] = 0 /\ \A i \in 1..L : b[i] # 0
    <3>1. \A i \in 1..L : i \in 1..L + 1
      BY <1>2
    <3>2. L + 1 \in 1..L + 1
      BY <1>2
    <3> QED BY <1>2, <1>7, <2>1, <3>1, <3>2
  <2>4. indexZero(b) = L + 1
    <3> DEFINE e == L + 1
    <3>0. e - 1 = L
      BY <1>2
    <3>1. e \in 1..Len(b) /\ b[e] = 0 /\ \A i \in 1..e - 1 : b[i] # 0
      BY <2>2, <2>3, <3>0
    <3> HIDE DEF e
    <3>2. b \in Bodies
      BY <1>3, <2>1
    <3>3. indexZero(b) = e
      BY <3>1, <3>2, ZeroFacts
    <3> QED BY <3>3 DEF e
  <2>5. SubSeq(b, 1, L) = name
    <3> HIDE DEF S
    <3>0. name \in Seq(S) /\ z \in Seq(S) /\ q \in Seq(S)
      BY <1>2, <1>3
    <3>1. b = name \o (z \o q) /\ z \o q \in Seq(S)
      BY <1>9, <3>0, ConcatAssociative, ConcatProperties, SMTT(30) DEF front
    <3>2. SubSeq(name \o (z \o q), 1, Len(name)) = name
      BY <1>2, <3>1, PartsOfConcat
    <3> QED BY <3>1, <3>2 DEF L
  <2> QED BY <2>1, <2>2, <2>4, <2>5
<1>10. ASSUME NEW s \in Bodies PROVE columnReader[p \o s] = Took(col, s)
  <2> DEFINE b == p \o s
             q == fixed \o s
  <2>1. /\ q \in Seq(S) /\ Len(q) = 6 + Len(s) /\ Len(s) \in Nat
        /\ SubSeq(q, 6 + 1, Len(q)) = s
        /\ \A i \in 1..6 : q[i] = fixed[i]
    <3> HIDE DEF S
    <3>0. s \in Seq(S) /\ fixed \in Seq(S)
      BY <1>3, <1>4
    <3>1. /\ q \in Seq(S) /\ Len(q) = Len(fixed) + Len(s) /\ Len(s) \in Nat
          /\ SubSeq(q, Len(fixed) + 1, Len(q)) = s
          /\ \A i \in 1..Len(fixed) : q[i] = fixed[i]
      BY <3>0, PartsOfConcat
    <3> HIDE DEF q
    <3> QED BY <1>4, <3>1
  <2>2. b = front \o q
    <3> HIDE DEF S
    <3>0. s \in Seq(S)
      BY <1>3
    <3>2. front \in Seq(S) /\ fixed \in Seq(S)
      BY <1>4, <1>7
    <3>1. (front \o fixed) \o s = front \o (fixed \o s)
      BY <3>0, <3>2, ConcatAssociative, SMTT(30)
    <3> QED BY <1>6, <3>1
  <2> HIDE DEF b, q
  <2>3. /\ b \in Seq(S) /\ indexZero(b) = L + 1 /\ SubSeq(b, L + 2, Len(b)) = q
        /\ SubSeq(b, 1, L) = name
    BY <1>9, <2>1, <2>2
  <2>4. q[3] = col.oid /\ q[6] = col.format
    BY <1>4, <2>1, SMTT(30)
  <2>5. L + 1 # 0 /\ L + 1 + 1 = L + 2 /\ L + 1 - 1 = L /\ ~(Len(q) < 6) /\ b \in Bodies
    BY <1>2, <1>3, <2>1, <2>3, SMTT(30)
  <2>6. ColumnOf(b) = Took([name |-> name, oid |-> q[3], format |-> q[6]], SubSeq(q, 6 + 1, Len(q)))
    <3> HIDE DEF S
    <3>1. indexZero(b) - 1 = L /\ indexZero(b) + 1 = L + 2 /\ indexZero(b) # 0
      BY <1>2, <2>3
    <3> QED BY <2>3, <2>5, <3>1 DEF ColumnOf, DescriptorLen
  <2>7. ColumnOf(b) = Took(col, s)
    <3> HIDE DEF S
    <3> QED BY <1>1, <2>1, <2>4, <2>6 DEF name
  <2> QED BY <2>5, <2>7 DEF columnReader, b
<1>11. ASSUME NEW k \in 0..Len(p) - 1 PROVE ~columnReader[SubSeq(p, 1, k)].ok
  <2> DEFINE b == SubSeq(p, 1, k)
  <2>1. b \in Bodies /\ b \in Cut(front \o fixed)
    <3>1. k \in 0..Len(p)
      BY <1>2, <1>8
    <3> HIDE DEF S
    <3> QED BY <1>3, <1>6, <1>8, <3>1, CutBody DEF Cut
  <2> HIDE DEF b
  <2>2. CutIn(b, front, fixed)
    <3> HIDE DEF S
    <3> QED BY <1>4, <1>7, <2>1, CutCases
  <2>3. CASE b \in Cut(front)
    <3>1. PICK m \in 0..Len(front) - 1 : b = SubSeq(front, 1, m)
      BY <2>3 DEF Cut
    <3>2. m \in Nat /\ m <= L /\ m \in 0..Len(front)
      BY <1>2, <1>7, <3>1
    <3>3. Len(b) = m
      <4> HIDE DEF S
      <4> QED BY <1>7, <3>1, <3>2, CutBody
    <3>4. \A i \in 1..m : b[i] = front[i]
      <4>1. \A i \in 1..m : front[i] \in S
        <5>1. \A i \in 1..m : i \in 1..Len(front)
          BY <1>2, <1>7, <3>2
        <5> HIDE DEF S
        <5> QED BY <1>7, <5>1, ElementOfSeq
      <4>2. 1 \in Int /\ 1 <= 1 /\ m \in Int /\ m <= Len(front)
        BY <1>2, <1>7, <3>2
      <4> HIDE DEF S
      <4> QED BY <1>7, <3>1, <3>2, <4>1, <4>2, SubSeqProperties
    <3>5. \A i \in 1..Len(b) : b[i] # 0
      <4>1. \A i \in 1..m : i \in 1..L
        BY <1>2, <3>2
      <4> QED BY <1>2, <1>7, <3>3, <3>4, <4>1
    <3>6. indexZero(b) = 0
      BY <2>1, <3>5, ZeroFacts
    <3> QED BY <2>1, <3>6 DEF columnReader, ColumnOf, Refused, b
  <2>4. CASE \E m \in 0..Len(fixed) - 1 : b = front \o SubSeq(fixed, 1, m)
    <3>1. PICK m \in 0..Len(fixed) - 1 : b = front \o SubSeq(fixed, 1, m)
      BY <2>4
    <3> DEFINE q == SubSeq(fixed, 1, m)
    <3>2. q \in Seq(S) /\ Len(q) = m /\ m < 6 /\ m \in Nat
      <4>1. m \in 0..Len(fixed) /\ m < 6 /\ m \in Nat
        BY <1>4, <3>1, SMTT(30)
      <4> HIDE DEF S
      <4> QED BY <1>4, <4>1, CutBody
    <3> HIDE DEF q
    <3>3. b = front \o q
      BY <3>1 DEF q
    <3>4. indexZero(b) = L + 1 /\ SubSeq(b, L + 2, Len(b)) = q
      BY <1>9, <3>2, <3>3
    <3>5. indexZero(b) + 1 = L + 2 /\ Len(q) < 6
      BY <1>2, <3>2, <3>4
    <3>6. ColumnOf(b) = Refused(b)
      BY <3>4, <3>5 DEF ColumnOf, DescriptorLen
    <3> QED BY <2>1, <3>6 DEF columnReader, Refused, b
  <2>5. b \in Cut(front) \/ \E m \in 0..Len(fixed) - 1 : b = front \o SubSeq(fixed, 1, m)
    BY <2>2 DEF CutIn
  <2> QED BY <2>3, <2>4, <2>5, Zenon
<1>12. p \in Bodies
  BY <1>3, <1>8
<1> QED BY <1>10, <1>11, <1>12 DEF Exact, p

(* Descriptions.                                                              *)
LEMMA DescriptionFacts ==
    ASSUME NEW cols \in Seq(ColumnValues)
    PROVE  DescriptionArrives(cols)
<1> DEFINE n == Len(cols)
           ps == [i \in 1..n |-> SendColumn(cols[i])]
           p == FlattenSeq(ps)
           S == Int
           V == ColumnsRead \cup {<<>>}
           raw == SendDescription(cols)
<1>1. n \in Nat /\ n \in S /\ \A i \in 1..n : cols[i] \in ColumnValues
  BY LenProperties, ElementOfSeq
<1>2. ps \in Seq(Bodies) /\ Len(ps) = n /\ \A i \in 1..n : Exact(columnReader, ps[i], cols[i])
  BY <1>1, ColumnExact
<1>3. columnReader \in Readers(V) /\ cols \in Seq(V)
  <2>1. Nat \ {0} \subseteq Int
    OBVIOUS
  <2>2. Seq(Nat \ {0}) \subseteq Bodies
    BY <2>1, SeqMonotonic DEF Bodies
  <2>3. ColumnValues \subseteq V
    <3> SUFFICES ASSUME NEW c \in ColumnValues PROVE c \in V
      OBVIOUS
    <3>1. c.name \in Bodies /\ c.oid \in Int /\ c.format \in Int
      BY <2>2 DEF ColumnValues
    <3>2. c = [name |-> c.name, oid |-> c.oid, format |-> c.format]
      BY DEF ColumnValues
    <3> QED BY <3>1, <3>2 DEF ColumnsRead
  <2>4. columnReader \in Readers(V)
    BY ColumnReader
  <2> HIDE DEF V
  <2> QED BY <2>3, <2>4, SeqMonotonic
<1> HIDE DEF ps, V
<1>4. /\ p \in Bodies /\ \A s \in Bodies : Items(columnReader, p \o s, n) = Took(cols, s)
      /\ \A k \in 0..Len(p) - 1 : ~Items(columnReader, SubSeq(p, 1, k), n).ok
  BY <1>2, <1>3, ItemsExact
<1>5. raw = <<n>> \o p
  BY DEF SendDescription, ps
<1> HIDE DEF p
<1>6. p \in Seq(S) /\ Bodies = Seq(S) /\ <<>> \in Bodies /\ p \o <<>> = p /\ Len(p) \in Nat
  BY <1>4, EmptySeq, ConcatEmptySeq, LenProperties DEF Bodies
<1>7. raw # <<>> /\ Head(raw) = n /\ Tail(raw) = p /\ ~(n < 0)
  <2>1. ~(n < 0)
    BY <1>1
  <2> HIDE DEF n, S, raw
  <2> QED BY <1>1, <1>5, <1>6, <2>1, FirstSymbol
<1>8. ParseRowDescription(raw) = Got(cols)
  <2>1. Items(columnReader, p, n) = Took(cols, <<>>)
    BY <1>4, <1>6
  <2> HIDE DEF raw, n
  <2> QED BY <1>7, <2>1 DEF ParseRowDescription, Got
<1>9. ASSUME NEW b \in Cut(raw) PROVE ~ParseRowDescription(b).ok
  <2>1. CASE b = <<>>
    BY <2>1 DEF ParseRowDescription, Refused
  <2>2. CASE b # <<>>
    <3> HIDE DEF n, S, raw
    <3>1. PICK m \in 0..Len(p) - 1 : b = <<n>> \o SubSeq(p, 1, m)
      BY <1>1, <1>5, <1>6, <2>2, CutCounted
    <3> DEFINE r == SubSeq(p, 1, m)
    <3>2. r \in Seq(S) /\ ~Items(columnReader, r, n).ok
      <4>1. m \in 0..Len(p)
        BY <1>6, <3>1
      <4> QED BY <1>4, <1>6, <3>1, <4>1, CutBody
    <3> HIDE DEF r
    <3>3. Head(b) = n /\ Tail(b) = r
      BY <1>1, <3>1, <3>2, FirstSymbol DEF r
    <3> QED BY <1>7, <2>2, <3>2, <3>3 DEF ParseRowDescription
  <2> QED BY <2>1, <2>2
<1> QED BY <1>8, <1>9 DEF DescriptionArrives

(* A row and a description of columns arrive as they were sent, whatever the  *)
(* bytes of the cells and of the names, and what was cut short is refused.    *)
THEOREM RowTheorem == CodecSpec => []RowRoundTrip
<1>1. CodecInv => RowRoundTrip
  <2> SUFFICES ASSUME CodecInv PROVE RowRoundTrip
    OBVIOUS
  <2>1. IsInput(part, in)
    BY DEF CodecInv
  <2>2. ASSUME part = "row" PROVE RowArrives(in)
    <3>1. in \in Seq(CellValues)
      BY <2>1, <2>2 DEF IsInput
    <3> QED BY <3>1, RowFacts
  <2>3. ASSUME part = "description" PROVE DescriptionArrives(in)
    <3>1. in \in Seq(ColumnValues)
      BY <2>1, <2>3 DEF IsInput
    <3> QED BY <3>1, DescriptionFacts
  <2> QED BY <2>2, <2>3 DEF RowRoundTrip
<1> QED BY <1>1, CodecInvariance, PTL

(* So do arrays of one dimension and of two, composites and ranges, for every *)
(* reader of each.                                                            *)
THEOREM ContainerTheorem == CodecSpec => []ContainerRoundTrip
<1>1. CodecInv => ContainerRoundTrip
  <2> SUFFICES ASSUME CodecInv PROVE ContainerRoundTrip
    OBVIOUS
  <2>1. IsInput(part, in)
    BY DEF CodecInv
  <2>2. ASSUME part = "array" PROVE ArrayArrives(in.val, in.ndim)
    <3>1. IsArray(in.val, in.ndim)
      BY <2>1, <2>2 DEF IsInput
    <3>2. in.ndim \in {1, 2}
      BY <3>1 DEF IsArray
    <3> QED BY <3>1, <3>2, ArrayFacts
  <2>3. ASSUME part = "composite" PROVE CompositeArrives(in)
    <3>1. in \in Seq(CellValues)
      BY <2>1, <2>3 DEF IsInput
    <3> QED BY <3>1, CompositeFacts
  <2>4. ASSUME part = "range" PROVE RangeArrives(in)
    <3>1. IsRange(in)
      BY <2>1, <2>4 DEF IsInput
    <3> QED BY <3>1, RangeFacts
  <2> QED BY <2>2, <2>3, <2>4 DEF ContainerRoundTrip
<1> QED BY <1>1, CodecInvariance, PTL

-----------------------------------------------------------------------------
(* Buffers *)

(* The control points at which a caller refers to a buffer.                   *)
Owning == Encoding \cup {"put", "give"}
BufferPCs == {"idle", "count", "take", "make"} \cup Owning

BufTypes ==
    /\ bpc \in [Callers -> BufferPCs]
    /\ held \in [Callers -> Arrays \cup {None}]
    /\ answer \in [Callers -> Arrays \cup {None}]
    /\ writes \in [Callers -> Nat]
    /\ data \in [Arrays -> Seq(Callers)]
    /\ pooled \in [Arrays -> Nat]

(* A caller has a buffer from Get to Put, and an answer only between the end  *)
(* of a QueryJSON and its next call.                                          *)
BufHandles ==
    \A c \in Callers :
        /\ bpc[c] \in Owning <=> held[c] # None
        /\ answer[c] # None => bpc[c] \in {"put", "give", "idle"}

(* Every array has one owner: a call that writes to it, the program that was  *)
(* given it, or sync.Pool, which holds it once.                               *)
OneOwner ==
    /\ \A a \in Arrays : pooled[a] <= 1
    /\ \A c \in Callers : held[c] # None => pooled[held[c]] = 0
    /\ \A c \in Callers : answer[c] # None => pooled[answer[c]] = 0
    /\ \A c, d \in Callers : held[c] # None /\ held[c] = held[d] => c = d
    /\ \A c, d \in Callers : answer[c] # None /\ answer[c] = answer[d] => c = d
    /\ \A c, d \in Callers : held[c] # None => held[c] # answer[d]

(* What a call has written is in its buffer, and nothing else.                *)
OwnBytes ==
    \A c \in Callers :
        /\ bpc[c] \in Encoding => \A i \in 1..Len(data[held[c]]) : data[held[c]][i] = c
        /\ bpc[c] = "query" => Len(data[held[c]]) = writes[c]
        /\ answer[c] # None =>
            Len(data[answer[c]]) = writes[c] /\ \A i \in 1..writes[c] : data[answer[c]][i] = c

BufInv == BufTypes /\ BufHandles /\ OneOwner /\ OwnBytes

USE BufferAssumption DEF None, Encoding, Owning, BufferPCs

(* What append does to the bytes of a call.                                   *)
LEMMA AppendOwn ==
    ASSUME NEW s \in Seq(Callers), NEW c \in Callers,
           \A i \in 1..Len(s) : s[i] = c
    PROVE  /\ Append(s, c) \in Seq(Callers) /\ Len(Append(s, c)) = Len(s) + 1
           /\ \A i \in 1..Len(Append(s, c)) : Append(s, c)[i] = c
<1>1. /\ Append(s, c) \in Seq(Callers) /\ Len(Append(s, c)) = Len(s) + 1
      /\ Len(s) \in Nat
      /\ \A i \in 1..Len(s) : Append(s, c)[i] = s[i]
      /\ Append(s, c)[Len(s) + 1] = c
  BY AppendProperties
<1>2. ASSUME NEW i \in 1..Len(s) + 1 PROVE Append(s, c)[i] = c
  <2>1. CASE i \in 1..Len(s)
    BY <1>1, <2>1
  <2>2. CASE i = Len(s) + 1
    BY <1>1, <2>2
  <2> QED BY <1>1, <2>1, <2>2
<1> QED BY <1>1, <1>2

(* A buffer obtained for a call: nobody else refers to it, and it is empty.   *)
LEMMA StartStep ==
    ASSUME BufInv, NEW c \in Callers, bpc[c] \in {"take", "make"},
           NEW a \in Arrays, pooled'[a] = 0,
           pooled' \in [Arrays -> Nat], \A e \in Arrays : pooled'[e] <= pooled[e],
           \A d \in Callers : held[d] # a /\ answer[d] # a,
           data' = [data EXCEPT ![a] = <<>>], held' = [held EXCEPT ![c] = a],
           StartCall(c), UNCHANGED answer
    PROVE  BufInv'
<1> USE DEF BufInv
<1>1. PICK kind \in Encoding : /\ bpc' = [bpc EXCEPT ![c] = kind]
                               /\ writes' = [writes EXCEPT ![c] = 0]
  BY DEF StartCall
<1>2. BufTypes'
  BY <1>1, EmptySeq DEF BufTypes
<1>3. BufHandles'
  BY <1>1 DEF BufTypes, BufHandles
<1>4. OneOwner'
  <2>1. \A e \in Arrays : pooled'[e] \in Nat /\ pooled[e] \in Nat /\ pooled'[e] <= pooled[e]
    BY DEF BufTypes
  <2>2. \A e \in Arrays : pooled'[e] <= 1 /\ (pooled[e] = 0 => pooled'[e] = 0)
    BY <2>1 DEF OneOwner
  <2>3. \A d \in Callers : held'[d] = IF d = c THEN a ELSE held[d]
    BY DEF BufTypes
  <2> QED BY <2>2, <2>3 DEF OneOwner, BufTypes
<1>5. OwnBytes'
  <2>1. \A d \in Callers : d # c => /\ bpc'[d] = bpc[d] /\ writes'[d] = writes[d]
                                    /\ held'[d] = held[d]
    BY <1>1 DEF BufTypes
  <2>2. \A e \in Arrays : e # a => data'[e] = data[e]
    BY DEF BufTypes
  <2>3. data'[a] = <<>> /\ held'[c] = a /\ writes'[c] = 0 /\ answer[c] = None
    BY <1>1 DEF BufTypes, BufHandles
  <2>4. ASSUME NEW d \in Callers, d # c
        PROVE  /\ bpc[d] \in Encoding => held[d] \in Arrays /\ held[d] # a
               /\ answer[d] # None => answer[d] \in Arrays /\ answer[d] # a
    BY DEF BufTypes, BufHandles
  <2>5. Len(<<>>) = 0 /\ 1..0 = {}
    OBVIOUS
  <2> QED BY <2>1, <2>2, <2>3, <2>4, <2>5, SMTT(30) DEF OwnBytes
<1> QED BY <1>2, <1>3, <1>4, <1>5

(* Steps that touch neither buffers nor bytes of a call in progress.          *)
LEMMA ControlStep ==
    ASSUME BufInv, NEW c \in Callers, NEW label \in BufferPCs,
           bpc' = [bpc EXCEPT ![c] = label],
           label \in Owning <=> bpc[c] \in Owning,
           label \in Encoding => FALSE,
           answer[c] # None => label \in {"put", "give", "idle"},
           UNCHANGED <<held, writes, answer, data, pooled>>
    PROVE  BufInv'
<1> USE DEF BufInv
<1>1. BufTypes' /\ BufHandles' /\ OneOwner'
  BY DEF BufTypes, BufHandles, OneOwner
<1>2. OwnBytes'
  BY DEF BufTypes, OwnBytes
<1> QED BY <1>1, <1>2

(* Every step keeps the invariant.                                            *)
LEMMA BufStep == ASSUME BufInv, [BufferNext]_bufVars PROVE BufInv'
<1>1. CASE UNCHANGED bufVars \/ SetMaxLive
  <2>1. UNCHANGED <<bpc, held, writes, answer, data, pooled>>
    BY <1>1 DEF SetMaxLive, bufVars
  <2> QED BY <2>1 DEF BufInv, BufTypes, BufHandles, OneOwner, OwnBytes
<1>2. CASE PoolForgets
  <2>1. PICK a \in Arrays : pooled[a] > 0 /\ pooled' = [pooled EXCEPT ![a] = @ - 1]
    BY <1>2 DEF PoolForgets
  <2>2. UNCHANGED <<bpc, held, writes, answer, data>>
    BY <1>2 DEF PoolForgets
  <2>3. pooled' \in [Arrays -> Nat]
        /\ \A e \in Arrays : pooled'[e] <= 1 /\ (pooled[e] = 0 => pooled'[e] = 0)
    BY <2>1 DEF BufInv, BufTypes, OneOwner
  <2> QED BY <2>2, <2>3 DEF BufInv, BufTypes, BufHandles, OneOwner, OwnBytes
<1>3. ASSUME NEW c \in Callers, GetLoad(c) PROVE BufInv'
  <2>1. /\ \E l \in {"take", "make", "count"} : bpc' = [bpc EXCEPT ![c] = l]
        /\ answer' = [answer EXCEPT ![c] = None] /\ bpc[c] = "idle"
        /\ UNCHANGED <<held, writes, data, pooled>>
    BY <1>3 DEF GetLoad
  <2>2. BufTypes' /\ BufHandles'
    BY <2>1 DEF BufInv, BufTypes, BufHandles
  <2>3. OneOwner' /\ OwnBytes'
    BY <2>1 DEF BufInv, BufTypes, OneOwner, OwnBytes
  <2> QED BY <2>2, <2>3 DEF BufInv
<1>4. ASSUME NEW c \in Callers, GetCount(c) \/ QueryFails(c) \/ StreamFails(c) \/ PutCount(c)
      PROVE  BufInv'
  <2>1. /\ \E l \in BufferPCs \ Encoding :
              /\ bpc' = [bpc EXCEPT ![c] = l]
              /\ l \in Owning <=> bpc[c] \in Owning
              /\ answer[c] # None => l \in {"put", "give", "idle"}
        /\ UNCHANGED <<held, writes, answer, data, pooled>>
    BY <1>4 DEF GetCount, QueryFails, StreamFails, PutCount, BufInv, BufHandles
  <2> QED BY <2>1, ControlStep
<1>5. ASSUME NEW c \in Callers, GetTake(c) PROVE BufInv'
  <2>1. PICK a \in Arrays : /\ pooled[a] > 0 /\ pooled' = [pooled EXCEPT ![a] = @ - 1]
                            /\ data' = [data EXCEPT ![a] = <<>>]
                            /\ held' = [held EXCEPT ![c] = a]
    BY <1>5 DEF GetTake
  <2>2. bpc[c] \in {"take", "make"} /\ StartCall(c) /\ UNCHANGED answer
    BY <1>5 DEF GetTake
  <2>3. /\ pooled'[a] = 0 /\ pooled' \in [Arrays -> Nat]
        /\ \A e \in Arrays : pooled'[e] <= pooled[e]
    BY <2>1 DEF BufInv, BufTypes, OneOwner
  <2>4. \A d \in Callers : held[d] # a /\ answer[d] # a
    <3>1. pooled[a] # 0 /\ a # None
      BY <2>1 DEF BufInv, BufTypes
    <3> QED BY <3>1 DEF BufInv, OneOwner
  <2> QED BY <2>1, <2>2, <2>3, <2>4, StartStep
<1>6. ASSUME NEW c \in Callers, GetMake(c) PROVE BufInv'
  <2>1. PICK a \in Arrays : /\ Garbage(a) /\ data' = [data EXCEPT ![a] = <<>>]
                            /\ held' = [held EXCEPT ![c] = a]
    BY <1>6 DEF GetMake
  <2>2. bpc[c] \in {"take", "make"} /\ StartCall(c) /\ UNCHANGED <<answer, pooled>>
    BY <1>6 DEF GetMake
  <2>3. /\ pooled'[a] = 0 /\ pooled' \in [Arrays -> Nat]
        /\ \A e \in Arrays : pooled'[e] <= pooled[e]
        /\ \A d \in Callers : held[d] # a /\ answer[d] # a
    BY <2>1, <2>2 DEF Garbage, BufInv, BufTypes
  <2> QED BY <2>1, <2>2, <2>3, StartStep
<1>7. ASSUME NEW c \in Callers, Encode(c) PROVE BufInv'
  <2> DEFINE s == data[held[c]]
  <2>1. /\ bpc[c] \in Encoding /\ writes' = [writes EXCEPT ![c] = @ + 1]
        /\ UNCHANGED <<bpc, answer, pooled>>
    BY <1>7 DEF Encode
  <2>2. held[c] \in Arrays /\ answer[c] = None
    BY <2>1 DEF BufInv, BufTypes, BufHandles
  <2>3. s \in Seq(Callers) /\ \A i \in 1..Len(s) : s[i] = c
    BY <2>1, <2>2 DEF BufInv, BufTypes, OwnBytes
  <2>4. /\ Append(s, c) \in Seq(Callers) /\ Len(Append(s, c)) = Len(s) + 1
        /\ \A i \in 1..Len(Append(s, c)) : Append(s, c)[i] = c
    <3> HIDE DEF s
    <3> QED BY <2>3, AppendOwn
  <2>5. bpc[c] = "query" => Len(s) = writes[c]
    BY DEF BufInv, OwnBytes
  <2> HIDE DEF s
  <2>6. PICK a \in Arrays : /\ data' = [data EXCEPT ![a] = Append(s, c)]
                            /\ held' = [held EXCEPT ![c] = a]
                            /\ pooled[a] = 0
                            /\ \A d \in Callers : d # c => held[d] # a
                            /\ \A d \in Callers : answer[d] # a
    <3>1. CASE data' = [data EXCEPT ![held[c]] = Append(@, c)] /\ UNCHANGED held
      <4>1. data' = [data EXCEPT ![held[c]] = Append(s, c)]
        BY <2>2, <3>1 DEF s, BufInv, BufTypes
      <4>2. held' = [held EXCEPT ![c] = held[c]]
        BY <3>1 DEF BufInv, BufTypes
      <4>3. /\ pooled[held[c]] = 0 /\ \A d \in Callers : answer[d] # held[c]
            /\ \A d \in Callers : d # c => held[d] # held[c]
        BY <2>2 DEF BufInv, OneOwner
      <4> QED BY <2>2, <4>1, <4>2, <4>3
    <3>2. ASSUME NEW a \in Arrays, Garbage(a), held' = [held EXCEPT ![c] = a],
                 data' = [data EXCEPT ![a] = Append(data[held[c]], c)]
          PROVE  /\ data' = [data EXCEPT ![a] = Append(s, c)]
                 /\ pooled[a] = 0
                 /\ \A d \in Callers : held[d] # a
                 /\ \A d \in Callers : answer[d] # a
      BY <3>2 DEF s, Garbage
    <3> QED BY <1>7, <3>1, <3>2 DEF Encode
  <2>7. BufTypes'
    BY <2>1, <2>4, <2>6 DEF BufInv, BufTypes
  <2>8. BufHandles'
    BY <2>1, <2>2, <2>6 DEF BufInv, BufTypes, BufHandles
  <2>9. OneOwner'
    <3>1. \A d \in Callers : held'[d] = IF d = c THEN a ELSE held[d]
      BY <2>6 DEF BufInv, BufTypes
    <3> QED BY <2>1, <2>2, <2>6, <3>1 DEF BufInv, OneOwner
  <2>10. OwnBytes'
    <3>1. ASSUME NEW d \in Callers, d # c
          PROVE  /\ bpc'[d] = bpc[d] /\ writes'[d] = writes[d] /\ held'[d] = held[d]
                 /\ bpc[d] \in Encoding => data'[held[d]] = data[held[d]]
                 /\ answer[d] # None => data'[answer[d]] = data[answer[d]]
      BY <2>1, <2>6, <3>1 DEF BufInv, BufTypes, BufHandles
    <3>2. held'[c] = a /\ data'[a] = Append(s, c) /\ writes'[c] = writes[c] + 1
      BY <2>1, <2>6 DEF BufInv, BufTypes
    <3>3. /\ \A i \in 1..Len(data'[held'[c]]) : data'[held'[c]][i] = c
          /\ bpc[c] = "query" => Len(data'[held'[c]]) = writes'[c]
      BY <2>4, <2>5, <3>2
    <3> QED BY <2>1, <2>2, <3>1, <3>3 DEF BufInv, OwnBytes
  <2> QED BY <2>7, <2>8, <2>9, <2>10 DEF BufInv
<1>8. ASSUME NEW c \in Callers, QueryReturns(c) PROVE BufInv'
  <2>1. PICK a \in Arrays : /\ Garbage(a) /\ data' = [data EXCEPT ![a] = data[held[c]]]
                            /\ answer' = [answer EXCEPT ![c] = a]
    BY <1>8 DEF QueryReturns, CopyOut
  <2>2. /\ bpc[c] = "query" /\ bpc' = [bpc EXCEPT ![c] = "put"]
        /\ UNCHANGED <<held, writes, pooled>>
    BY <1>8 DEF QueryReturns
  <2>3. /\ held[c] \in Arrays /\ held[c] # a /\ pooled[a] = 0
        /\ \A d \in Callers : held[d] # a /\ answer[d] # a
    BY <2>1, <2>2 DEF Garbage, BufInv, BufTypes, BufHandles
  <2>4. BufTypes'
    BY <2>1, <2>2, <2>3 DEF BufInv, BufTypes
  <2>5. BufHandles'
    BY <2>1, <2>2 DEF BufInv, BufTypes, BufHandles
  <2>6. OneOwner'
    <3>1. \A d \in Callers : answer'[d] = IF d = c THEN a ELSE answer[d]
      BY <2>1 DEF BufInv, BufTypes
    <3> QED BY <2>2, <2>3, <3>1 DEF BufInv, OneOwner
  <2>7. OwnBytes'
    <3>1. ASSUME NEW d \in Callers, d # c
          PROVE  /\ bpc'[d] = bpc[d] /\ answer'[d] = answer[d]
                 /\ bpc[d] \in Encoding => data'[held[d]] = data[held[d]]
                 /\ answer[d] # None => data'[answer[d]] = data[answer[d]]
      BY <2>1, <2>2, <2>3, <3>1 DEF BufInv, BufTypes, BufHandles
    <3>2. answer'[c] = a /\ data'[a] = data[held[c]] /\ bpc'[c] = "put"
      BY <2>1, <2>2 DEF BufInv, BufTypes
    <3>3. Len(data[held[c]]) = writes[c] /\ \A i \in 1..writes[c] : data[held[c]][i] = c
      BY <2>2 DEF BufInv, OwnBytes
    <3> QED BY <2>2, <3>1, <3>2, <3>3 DEF BufInv, OwnBytes
  <2> QED BY <2>4, <2>5, <2>6, <2>7 DEF BufInv
<1>9. ASSUME NEW c \in Callers, StreamFlushes(c) PROVE BufInv'
  <2>1. /\ bpc[c] = "stream" /\ data' = [data EXCEPT ![held[c]] = <<>>]
        /\ UNCHANGED <<bpc, held, writes, answer, pooled>>
    BY <1>9 DEF StreamFlushes
  <2>2. held[c] \in Arrays /\ answer[c] = None
    BY <2>1 DEF BufInv, BufTypes, BufHandles
  <2>3. BufTypes' /\ BufHandles' /\ OneOwner'
    BY <2>1, <2>2, EmptySeq DEF BufInv, BufTypes, BufHandles, OneOwner
  <2>4. OwnBytes'
    <3>1. ASSUME NEW d \in Callers, d # c
          PROVE  /\ bpc[d] \in Encoding => data'[held[d]] = data[held[d]]
                 /\ answer[d] # None => data'[answer[d]] = data[answer[d]]
      BY <2>1, <2>2, <3>1 DEF BufInv, BufTypes, BufHandles, OneOwner
    <3>2. data'[held[c]] = <<>> /\ Len(<<>>) = 0 /\ 1..0 = {}
      BY <2>1, <2>2 DEF BufInv, BufTypes
    <3> QED BY <2>1, <2>2, <3>1, <3>2 DEF BufInv, OwnBytes
  <2> QED BY <2>3, <2>4 DEF BufInv
<1>10. ASSUME NEW c \in Callers, StreamReturns(c) PROVE BufInv'
  <2>1. /\ bpc[c] = "stream" /\ bpc' = [bpc EXCEPT ![c] = "idle"]
        /\ held' = [held EXCEPT ![c] = None]
        /\ UNCHANGED <<writes, answer, data, pooled>>
    BY <1>10 DEF StreamReturns
  <2> QED BY <2>1 DEF BufInv, BufTypes, BufHandles, OneOwner, OwnBytes
<1>11. ASSUME NEW c \in Callers, PutGive(c) PROVE BufInv'
  <2>1. /\ bpc[c] = "give" /\ bpc' = [bpc EXCEPT ![c] = "idle"]
        /\ held' = [held EXCEPT ![c] = None]
        /\ \/ pooled' = [pooled EXCEPT ![held[c]] = @ + 1] \/ UNCHANGED pooled
        /\ UNCHANGED <<writes, answer, data>>
    BY <1>11 DEF PutGive
  <2>2. held[c] \in Arrays /\ pooled[held[c]] = 0
    BY <2>1 DEF BufInv, BufTypes, BufHandles, OneOwner
  <2>3. /\ pooled' \in [Arrays -> Nat] /\ pooled'[held[c]] <= 1
        /\ \A e \in Arrays : e # held[c] => pooled'[e] = pooled[e]
    BY <2>1, <2>2 DEF BufInv, BufTypes
  <2>4. BufTypes' /\ BufHandles'
    BY <2>1, <2>3 DEF BufInv, BufTypes, BufHandles
  <2>5. OneOwner'
    <3>1. \A d \in Callers : held'[d] = IF d = c THEN None ELSE held[d]
      BY <2>1 DEF BufInv, BufTypes
    <3>2. held[c] # None /\ \A e \in Arrays : pooled'[e] <= 1
      BY <2>2, <2>3 DEF BufInv, OneOwner
    <3>3. \A d \in Callers : held'[d] # None => held'[d] \in Arrays /\ held'[d] # held[c]
      BY <3>1, <3>2 DEF BufInv, BufTypes, OneOwner
    <3>4. \A d \in Callers : answer[d] # None => answer[d] \in Arrays /\ answer[d] # held[c]
      BY <3>2 DEF BufInv, BufTypes, OneOwner
    <3>5. \A d \in Callers : held'[d] # None => pooled'[held'[d]] = 0
      BY <2>3, <3>1, <3>3 DEF BufInv, OneOwner
    <3>6. \A d \in Callers : answer'[d] # None => pooled'[answer'[d]] = 0
      BY <2>1, <2>3, <3>4 DEF BufInv, OneOwner
    <3> QED BY <2>1, <3>1, <3>2, <3>5, <3>6 DEF BufInv, OneOwner
  <2>6. OwnBytes'
    BY <2>1 DEF BufInv, BufTypes, OwnBytes
  <2> QED BY <2>4, <2>5, <2>6 DEF BufInv
<1> QED BY <1>1, <1>2, <1>3, <1>4, <1>5, <1>6, <1>7, <1>8, <1>9, <1>10, <1>11 DEF BufferNext

(* No call ever finds another call's bytes in its buffer, and the bytes       *)
(* QueryJSON returned are never written again, for any number of goroutines   *)
(* and arrays and whatever sync.Pool keeps or forgets: an array has one owner *)
(* at a time, because a buffer is put back once, and only after its bytes     *)
(* were copied out or written downstream.                                     *)
THEOREM BytesTheorem == BufferSpec => []BytesArePrivate
<1>1. BufferInit => BufInv
  BY EmptySeq DEF BufferInit, BufInv, BufTypes, BufHandles, OneOwner, OwnBytes
<1>2. BufInv /\ [BufferNext]_bufVars => BufInv'
  BY BufStep
<1>3. BufInv => BytesArePrivate
  BY DEF BufInv, OwnBytes, BytesArePrivate
<1> QED BY <1>1, <1>2, <1>3, PTL DEF BufferSpec

(* The buffers of Codec run as BufferPool says, so they are private there too. *)
THEOREM CodecBytesTheorem == CodecSpec => []BytesArePrivate
<1>1. CodecInit => BufferInit
  BY DEF CodecInit
<1>2. [CodecNext]_codecVars => [BufferNext]_bufVars
  BY DEF CodecNext, codecVars, bufVars
<1>3. CodecSpec => BufferSpec
  BY <1>1, <1>2, PTL DEF CodecSpec, BufferSpec
<1> QED BY <1>3, BytesTheorem, PTL

================================================================================
