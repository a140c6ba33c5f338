----------------------------- MODULE PoolProofs -----------------------------
(* Proofs about Pool, for every set of callers, clients and channels and       *)
(* every MaxConns, MinIdle and number of retries.                              *)
EXTENDS Pool, SequencesExt, SequenceTheorems, FiniteSetTheorems, TLAPS

-----------------------------------------------------------------------------
(* Sequences without repetition, used as stacks and queues: what taking, adding *)
(* and cutting out elements does to their set of elements                       *)

(* The elements of a sequence, by position.                                   *)
LEMMA ToSetDef ==
    ASSUME NEW S, NEW s \in Seq(S)
    PROVE  /\ DOMAIN s = 1..Len(s) /\ Len(s) \in Nat
           /\ ToSet(s) = {s[i] : i \in 1..Len(s)}
           /\ ToSet(s) \subseteq S
BY DEF ToSet

(* The empty sequence has no elements.                                        *)
LEMMA EmptyFacts == ToSet(<<>>) = {} /\ IsInjective(<<>>)
BY DEF ToSet, IsInjective

(* Popping a stack: p.idle[:n-1].                                             *)
LEMMA FrontFacts ==
    ASSUME NEW S, NEW s \in Seq(S), s # <<>>
    PROVE  /\ Front(s) \in Seq(S) /\ Last(s) \in ToSet(s) /\ Last(s) \in S
           /\ Len(Front(s)) = Len(s) - 1
           /\ ToSet(s) = ToSet(Front(s)) \cup {Last(s)}
           /\ IsInjective(s) => IsInjective(Front(s)) /\ Last(s) \notin ToSet(Front(s))
<1>1. Len(s) \in Nat /\ Len(s) > 0 /\ DOMAIN s = 1..Len(s)
  OBVIOUS
<1>2. Front(s) \in Seq(S) /\ Len(Front(s)) = Len(s) - 1
      /\ \A i \in 1..Len(s)-1 : Front(s)[i] = s[i]
  BY <1>1 DEF Front
<1>3. ToSet(Front(s)) = {s[i] : i \in 1..Len(s)-1}
  BY <1>1, <1>2, ToSetDef
<1>4. ToSet(s) = {s[i] : i \in 1..Len(s)}
  BY ToSetDef
<1>5. ToSet(s) = ToSet(Front(s)) \cup {Last(s)}
  BY <1>1, <1>3, <1>4 DEF Last
<1>6. IsInjective(s) => IsInjective(Front(s)) /\ Last(s) \notin ToSet(Front(s))
  BY <1>1, <1>2, <1>3 DEF IsInjective, Last
<1> QED BY <1>1, <1>2, <1>4, <1>5, <1>6 DEF Last

(* Serving a queue: p.waiters[1:].                                            *)
LEMMA TailFacts ==
    ASSUME NEW S, NEW s \in Seq(S), s # <<>>
    PROVE  /\ Tail(s) \in Seq(S) /\ Head(s) \in ToSet(s) /\ Head(s) \in S
           /\ ToSet(s) = ToSet(Tail(s)) \cup {Head(s)}
           /\ IsInjective(s) => IsInjective(Tail(s)) /\ Head(s) \notin ToSet(Tail(s))
<1>1. Len(s) \in Nat /\ Len(s) > 0 /\ DOMAIN s = 1..Len(s)
  OBVIOUS
<1>2. Tail(s) \in Seq(S) /\ Len(Tail(s)) = Len(s) - 1 /\ Head(s) = s[1]
      /\ \A i \in 1..Len(s)-1 : Tail(s)[i] = s[i+1]
  BY <1>1
<1>3. ToSet(Tail(s)) = {s[i+1] : i \in 1..Len(s)-1}
  <2>1. ToSet(Tail(s)) = {Tail(s)[i] : i \in 1..Len(s)-1}
    BY <1>2, ToSetDef
  <2> QED BY <2>1, <1>2
<1>4. ToSet(s) = {s[i] : i \in 1..Len(s)}
  BY ToSetDef
<1>5. ToSet(s) \subseteq ToSet(Tail(s)) \cup {Head(s)}
  <2> SUFFICES ASSUME NEW i \in 1..Len(s), s[i] # Head(s)
               PROVE  s[i] \in ToSet(Tail(s))
    BY <1>4
  <2>1. i - 1 \in 1..Len(s)-1 /\ s[(i-1)+1] = s[i]
    BY <1>1, <1>2
  <2> QED BY <2>1, <1>3
<1>6. ToSet(Tail(s)) \cup {Head(s)} \subseteq ToSet(s)
  BY <1>1, <1>2, <1>3, <1>4
<1>7. ASSUME IsInjective(s)
      PROVE  IsInjective(Tail(s)) /\ Head(s) \notin ToSet(Tail(s))
  <2>1. \A i, j \in 1..Len(s) : s[i] = s[j] => i = j
    BY <1>1, <1>7 DEF IsInjective
  <2>2. DOMAIN Tail(s) = 1..Len(s)-1
    BY <1>2
  <2>3. IsInjective(Tail(s))
    <3> SUFFICES ASSUME NEW i \in 1..Len(s)-1, NEW j \in 1..Len(s)-1,
                        Tail(s)[i] = Tail(s)[j]
                 PROVE  i = j
      BY <2>2 DEF IsInjective
    <3>1. s[i+1] = s[j+1] /\ i+1 \in 1..Len(s) /\ j+1 \in 1..Len(s)
      BY <1>1, <1>2
    <3>2. i+1 = j+1
      BY <3>1, <2>1
    <3> QED BY <3>2
  <2>4. \A i \in 1..Len(s)-1 : s[i+1] # s[1]
    BY <2>1, <1>1
  <2> QED BY <1>2, <1>3, <2>3, <2>4
<1> QED BY <1>1, <1>2, <1>4, <1>5, <1>6, <1>7

(* Pushing and enqueueing.                                                    *)
LEMMA AppendFacts ==
    ASSUME NEW S, NEW s \in Seq(S), NEW e \in S
    PROVE  /\ Append(s, e) \in Seq(S) /\ Append(s, e) # <<>>
           /\ Len(Append(s, e)) = Len(s) + 1
           /\ ToSet(Append(s, e)) = ToSet(s) \cup {e}
           /\ IsInjective(s) /\ e \notin ToSet(s) => IsInjective(Append(s, e))
<1>1. /\ Append(s, e) \in Seq(S) /\ Len(Append(s, e)) = Len(s) + 1
      /\ \A i \in 1..Len(s) : Append(s, e)[i] = s[i]
      /\ Append(s, e)[Len(s)+1] = e
      /\ Len(s) \in Nat
  BY AppendProperties
<1>2. ToSet(Append(s, e)) = {Append(s, e)[i] : i \in 1..Len(s)+1}
  BY <1>1, ToSetDef
<1>3. ToSet(s) = {s[i] : i \in 1..Len(s)}
  BY ToSetDef
<1>4. ToSet(Append(s, e)) = ToSet(s) \cup {e}
  BY <1>1, <1>2, <1>3
<1>5. ASSUME IsInjective(s), e \notin ToSet(s) PROVE IsInjective(Append(s, e))
  <2>1. DOMAIN Append(s, e) = 1..Len(s)+1 /\ DOMAIN s = 1..Len(s)
    BY <1>1
  <2>2. \A i \in 1..Len(s) : s[i] # e
    BY <1>3, <1>5
  <2> QED BY <1>1, <1>5, <2>1, <2>2 DEF IsInjective
<1> QED BY <1>1, <1>4, <1>5

(* Cutting the elements m+1 .. n out of a sequence: evictIdle, and, with      *)
(* n = m+1, the removal of a waiter whose context ended.                      *)
LEMMA CutFacts ==
    ASSUME NEW S, NEW s \in Seq(S), NEW m \in Nat, NEW n \in Nat,
           m <= n, n <= Len(s)
    PROVE  LET t == SubSeq(s, 1, m) \o SubSeq(s, n + 1, Len(s))
               d == SubSeq(s, m + 1, n)
           IN  /\ t \in Seq(S) /\ d \in Seq(S) /\ Len(t) = Len(s) - (n - m)
               /\ ToSet(t) \subseteq ToSet(s) /\ ToSet(d) \subseteq ToSet(s)
               /\ ToSet(s) = ToSet(t) \cup ToSet(d)
               /\ IsInjective(s) => IsInjective(t) /\ ToSet(t) \cap ToSet(d) = {}
<1> DEFINE a == SubSeq(s, 1, m)
           b == SubSeq(s, n + 1, Len(s))
           d == SubSeq(s, m + 1, n)
           t == a \o b
<1>1. Len(s) \in Nat /\ DOMAIN s = 1..Len(s) /\ \A i \in 1..Len(s) : s[i] \in S
  BY ElementOfSeq
<1>2. a \in Seq(S) /\ Len(a) = m /\ \A i \in 1..m : a[i] = s[i]
  BY <1>1, SubSeqProperties
<1>3. /\ b \in Seq(S) /\ Len(b) = Len(s) - n
      /\ \A i \in 1..Len(s)-n : b[i] = s[n+i]
  <2>1. n + 1 \in Int /\ Len(s) \in Int /\ \A i \in n+1..Len(s) : s[i] \in S
    BY <1>1
  <2>2. /\ b \in Seq(S)
        /\ Len(b) = IF n+1 <= Len(s) THEN Len(s)-(n+1)+1 ELSE 0
        /\ \A i \in 1..Len(s)-(n+1)+1 : b[i] = s[(n+1)+i-1]
    BY <2>1, SubSeqProperties
  <2>3. Len(b) = Len(s) - n
    <3> HIDE DEF b
    <3>1. CASE n+1 <= Len(s)
      BY <3>1, <2>2, <1>1
    <3>2. CASE ~(n+1 <= Len(s))
      <4> DEFINE l == Len(s)
      <4>0. l \in Nat /\ n <= l /\ ~(n+1 <= l)
        BY <3>2, <1>1, Zenon
      <4> HIDE DEF l
      <4>1. n = l /\ l - n = 0
        BY <4>0
      <4>2. Len(b) = 0
        BY <3>2, <2>2, <1>1, Zenon
      <4> QED BY <4>1, <4>2 DEF l
    <3> QED BY <3>1, <3>2
  <2>4. ASSUME NEW i \in 1..Len(s)-n PROVE b[i] = s[n+i]
    <3>1. i \in 1..Len(s)-(n+1)+1 /\ (n+1)+i-1 = n+i
      BY <1>1
    <3> QED BY <3>1, <2>2
  <2> QED BY <2>2, <2>3, <2>4
<1>4. /\ d \in Seq(S) /\ Len(d) = n - m
      /\ \A i \in 1..n-m : d[i] = s[m+i]
  BY <1>1, SubSeqProperties
<1>5. /\ t \in Seq(S) /\ Len(t) = m + (Len(s) - n)
      /\ \A i \in 1..Len(t) : t[i] = IF i <= m THEN s[i] ELSE s[i + (n - m)]
  <2>1. /\ t \in Seq(S) /\ Len(t) = Len(a) + Len(b)
        /\ \A i \in 1..Len(a) + Len(b) : t[i] = IF i <= Len(a) THEN a[i] ELSE b[i - Len(a)]
    BY <1>2, <1>3, ConcatProperties
  <2>2. ASSUME NEW i \in 1..Len(t)
        PROVE  t[i] = IF i <= m THEN s[i] ELSE s[i + (n - m)]
    <3>1. CASE i <= m
      BY <3>1, <2>1, <1>2, <1>3, <1>1
    <3>2. CASE ~(i <= m)
      <4>0. i \in 1..m + (Len(s) - n)
        BY <2>1, <1>2, <1>3
      <4> HIDE DEF t
      <4>1. i - m \in 1..Len(s)-n /\ n + (i - m) = i + (n - m)
        BY <4>0, <3>2, <1>1
      <4>2. t[i] = b[i - m]
        BY <3>2, <2>1, <1>2, <1>3, <1>1
      <4> QED BY <4>1, <4>2, <3>2, <1>3
    <3> QED BY <3>1, <3>2
  <2> QED BY <2>1, <2>2, <1>2, <1>3
<1> HIDE DEF t, d
<1>6. ToSet(s) = {s[i] : i \in 1..Len(s)} /\ ToSet(t) = {t[i] : i \in 1..Len(t)}
      /\ ToSet(d) = {d[i] : i \in 1..Len(d)}
  BY <1>4, <1>5, ToSetDef
<1>7. \A i \in 1..Len(t) : /\ i <= m => i \in 1..Len(s)
                           /\ ~(i <= m) => i + (n - m) \in 1..Len(s)
  BY <1>1, <1>5
<1>8. ToSet(t) \subseteq ToSet(s)
  BY <1>5, <1>6, <1>7
<1>9. ToSet(d) \subseteq ToSet(s)
  <2>1. \A i \in 1..n-m : m + i \in 1..Len(s)
    BY <1>1
  <2> QED BY <2>1, <1>4, <1>6
<1>10. ToSet(s) \subseteq ToSet(t) \cup ToSet(d)
  <2> SUFFICES ASSUME NEW i \in 1..Len(s) PROVE s[i] \in ToSet(t) \cup ToSet(d)
    BY <1>6
  <2>1. CASE i <= m
    <3>1. i \in 1..Len(t) /\ t[i] = s[i]
      BY <2>1, <1>1, <1>5
    <3> QED BY <3>1, <1>6
  <2>2. CASE m < i /\ i <= n
    <3>1. i - m \in 1..Len(d) /\ m + (i - m) = i /\ i - m \in 1..n-m
      BY <2>2, <1>1, <1>4
    <3>2. d[i - m] = s[i]
      BY <3>1, <1>4
    <3> QED BY <3>1, <3>2, <1>6
  <2>3. CASE n < i
    <3>1. i - (n - m) \in 1..Len(t) /\ ~(i - (n - m) <= m)
          /\ (i - (n - m)) + (n - m) = i
      BY <2>3, <1>1, <1>5
    <3>2. t[i - (n - m)] = s[i]
      BY <3>1, <1>5
    <3> QED BY <3>1, <3>2, <1>6
  <2> QED BY <2>1, <2>2, <2>3, <1>1
<1>11. ASSUME IsInjective(s) PROVE IsInjective(t) /\ ToSet(t) \cap ToSet(d) = {}
  <2>1. \A i, j \in 1..Len(s) : s[i] = s[j] => i = j
    BY <1>1, <1>11 DEF IsInjective
  <2>2. DOMAIN t = 1..Len(t)
    BY <1>5
  <2>3. ASSUME NEW i \in 1..Len(t), NEW j \in 1..Len(t), t[i] = t[j]
        PROVE  i = j
    <3> DEFINE f(x) == IF x <= m THEN x ELSE x + (n - m)
    <3>1. f(i) \in 1..Len(s) /\ f(j) \in 1..Len(s)
      BY <1>7
    <3>2. s[f(i)] = s[f(j)]
      BY <1>5, <2>3
    <3>3. f(i) = f(j)
      BY <3>1, <3>2, <2>1
    <3> QED BY <3>3
  <2>4. ASSUME NEW i \in 1..Len(t), NEW j \in 1..Len(d), t[i] = d[j]
        PROVE  FALSE
    <3> DEFINE f == IF i <= m THEN i ELSE i + (n - m)
    <3>1. f \in 1..Len(s) /\ m + j \in 1..Len(s)
      BY <1>1, <1>4, <1>7
    <3>2. s[f] = s[m + j]
      BY <1>4, <1>5, <2>4
    <3>3. f = m + j
      BY <3>1, <3>2, <2>1
    <3>4. j <= n - m /\ j >= 1
      BY <1>4
    <3> QED BY <3>3, <3>4
  <2>5. IsInjective(t)
    BY <2>2, <2>3 DEF IsInjective
  <2>6. ToSet(t) \cap ToSet(d) = {}
    BY <1>6, <2>4
  <2> QED BY <2>5, <2>6
<1>12. Len(t) = Len(s) - (n - m)
  BY <1>1, <1>5
<1> QED BY <1>4, <1>5, <1>8, <1>9, <1>10, <1>11, <1>12 DEF t, d
(* What is left after the cut is shorter by what was cut out.                 *)
LEMMA CutLen ==
    ASSUME NEW S, NEW s \in Seq(S), NEW m \in Nat, NEW n \in Nat,
           m <= n, n <= Len(s)
    PROVE  Len(SubSeq(s, 1, m) \o SubSeq(s, n + 1, Len(s))) = Len(s) - (n - m)
<1> DEFINE t == SubSeq(s, 1, m) \o SubSeq(s, n + 1, Len(s))
           d == SubSeq(s, m + 1, n)
<1>1. /\ t \in Seq(S) /\ d \in Seq(S) /\ Len(t) = Len(s) - (n - m)
      /\ ToSet(t) \subseteq ToSet(s) /\ ToSet(d) \subseteq ToSet(s)
      /\ ToSet(s) = ToSet(t) \cup ToSet(d)
      /\ IsInjective(s) => IsInjective(t) /\ ToSet(t) \cap ToSet(d) = {}
  BY CutFacts, Zenon
<1> QED BY <1>1, Zenon

(* A sequence without repetition has as many elements as positions.           *)
LEMMA InjectiveCard ==
    ASSUME NEW S, NEW s \in Seq(S), IsInjective(s)
    PROVE  IsFiniteSet(ToSet(s)) /\ Cardinality(ToSet(s)) = Len(s)
<1>1. Len(s) \in Nat /\ DOMAIN s = 1..Len(s) /\ ToSet(s) = {s[i] : i \in 1..Len(s)}
  BY ToSetDef
<1>2. s \in [1..Len(s) -> ToSet(s)]
  BY <1>1
<1>3. s \in Bijection(1..Len(s), ToSet(s))
  BY <1>1, <1>2 DEF Bijection, Injection, Surjection
<1>4. ExistsBijection(1..Len(s), ToSet(s))
  BY <1>3 DEF ExistsBijection
<1>5. IsFiniteSet(1..Len(s)) /\ Cardinality(1..Len(s)) = Len(s)
  BY <1>1, FS_Interval
<1> QED BY <1>4, <1>5, FS_Bijection

-----------------------------------------------------------------------------
(* The pool *)

USE PoolAssumption DEF Shutters, Watchers, PCs, Counted, Holding

(* A caller, a discard goroutine, a waiting goroutine or a shutdown step.      *)
LEMMA NextCases ==
    ASSUME Next
    PROVE  \/ \E c \in Callers : CallerStep(c)
           \/ \E w \in Chans : ReplaceStep(w)
           \/ \E g \in Watchers : WatchStep(g)
           \/ ShutStep
BY DEF Next

(* What is left of p.waiters is a queue of channels.                           *)
LEMMA WithoutWaiterType ==
    ASSUME TypeOK, NEW ch PROVE WithoutWaiter(ch) \in Seq(Chans)
<1>1. CASE \E i \in DOMAIN waiters : waiters[i] = ch
  <2> DEFINE i == CHOOSE i \in DOMAIN waiters : waiters[i] = ch
  <2>1. i \in 1..Len(waiters)
    BY <1>1 DEF TypeOK
  <2>2. RemoveAt(waiters, i) \in Seq(Chans)
    <3> HIDE DEF i
    <3>1. i - 1 \in Nat /\ i \in Nat /\ i - 1 <= i /\ i <= Len(waiters)
          /\ Len(waiters) \in Nat
      BY <2>1 DEF TypeOK
    <3> QED BY <3>1, CutFacts DEF TypeOK, RemoveAt
  <2> QED BY <1>1, <2>2 DEF WithoutWaiter
<1>2. CASE ~\E i \in DOMAIN waiters : waiters[i] = ch
  BY <1>2 DEF WithoutWaiter, TypeOK
<1> QED BY <1>1, <1>2

(* Drain lowers open by a natural number.                                      *)
LEMMA DrainedType ==
    ASSUME TypeOK PROVE DrainedSlots \in Nat
<1>1. IsFiniteSet(taken["Drain"])
  BY FS_Subset DEF TypeOK
<1> QED BY <1>1, FS_CardinalityType DEF DrainedSlots

(* What discard() does to its caller.                                          *)
LEMMA DiscardSlotType ==
    ASSUME TypeOK, NEW c \in Callers, DiscardSlot(c)
    PROVE  /\ pc' \in [Callers -> PCs] /\ tries' \in [Callers -> 0..MaxRetries]
           /\ open' \in Int
           /\ UNCHANGED <<idle, inUse, closed, draining, live, zeroBorn, buf, conn,
                          chan, spc, taken, owed, gpc, reaper, cancelled>>
<1>1. pc' = [pc EXCEPT ![c] = "out"] \/ pc' = [pc EXCEPT ![c] = "retry"]
  BY DEF DiscardSlot, Return, Goto
<1>2. tries' = [tries EXCEPT ![c] = 0] \/ tries' = tries
  BY DEF DiscardSlot, Return
<1>3. pc' \in [Callers -> PCs]
  BY <1>1 DEF TypeOK
<1>4. tries' \in [Callers -> 0..MaxRetries]
  <2>1. 0 \in 0..MaxRetries
    OBVIOUS
  <2>2. tries \in [Callers -> 0..MaxRetries]
    BY DEF TypeOK
  <2> QED BY <1>2, <2>1, <2>2, Zenon
<1>5. open' \in Int
  BY DEF TypeOK, DiscardSlot
<1> QED BY <1>3, <1>4, <1>5 DEF DiscardSlot, clientVars, shutVars

(* Every step keeps the types.                                                 *)
LEMMA TypeStep ==
    ASSUME TypeOK, Handles, [Next]_vars
    PROVE  TypeOK'
<1> USE DEF TypeOK, Goto, Return, Attempt, MayAttempt, poolVars, clientVars, callerVars, shutVars
<1>1. ASSUME NEW c \in Callers, CallerStep(c) PROVE TypeOK'
  <2>1. CASE AcquireExhausted(c)
    BY <2>1 DEF AcquireExhausted
  <2>2. CASE AcquireRefused(c)
    BY <2>2 DEF AcquireRefused
  <2>3. CASE AcquireIdle(c)
    <3>1. Popped \in Seq(Conns) /\ Last(idle) \in Conns
      BY <2>3, FrontFacts DEF AcquireIdle, Popped
    <3> QED BY <2>3, <3>1 DEF AcquireIdle
  <2>4. CASE AcquireSlot(c)
    BY <2>4 DEF AcquireSlot
  <2>5. CASE AcquireWait(c)
    BY <2>5, AppendFacts DEF AcquireWait, FreshChans
  <2>6. CASE OpenOK(c)
    BY <2>6 DEF OpenOK
  <2>7. CASE OpenFails(c)
    BY <2>7 DEF OpenFails
  <2>8. CASE ReceiveNil(c)
    BY <2>8 DEF ReceiveNil, Handles
  <2>9. CASE ReceiveConn(c)
    BY <2>9 DEF ReceiveConn, CountReceived, Handles
  <2>10. CASE WaitExpires(c)
    BY <2>10, WithoutWaiterType DEF WaitExpires
  <2>11. CASE CheckPasses(c)
    BY <2>11 DEF CheckPasses
  <2>12. CASE CheckFails(c)
    BY <2>12 DEF CheckFails, GiveUp, CloseClients, SignalIdle, Broadcast
  <2>13. CASE Discard(c)
    BY <2>13 DEF Discard, GiveUp, CloseClients, SignalIdle, Broadcast
  <2>14. CASE DiscardQuiet(c)
    BY <2>14, DiscardSlotType DEF DiscardQuiet
  <2>19. CASE DiscardReplace(c)
    <3>1. Dequeued \in Seq(Chans) /\ Head(waiters) \in Chans
      BY <2>19, TailFacts DEF DiscardReplace, Dequeued
    <3> QED BY <2>19, <3>1, DiscardSlotType DEF DiscardReplace
  <2>15. CASE ReleaseShut(c)
    BY <2>15 DEF ReleaseShut, SignalIdle, Broadcast
  <2>16. CASE ReleaseClose(c)
    BY <2>16 DEF ReleaseClose, CloseClients
  <2>17. CASE ReleaseHandoff(c)
    BY <2>17, TailFacts DEF ReleaseHandoff, SignalIdle, Broadcast, Dequeued, Handles
  <2>18. CASE ReleaseIdle(c)
    BY <2>18, AppendFacts DEF ReleaseIdle, SignalIdle, Broadcast, Handles
  <2> QED BY <1>1, <2>1, <2>2, <2>3, <2>4, <2>5, <2>6, <2>7, <2>8, <2>9, <2>10, <2>11, <2>12, <2>13, <2>14, <2>15, <2>16, <2>17, <2>18, <2>19
         DEF CallerStep
<1>2. ASSUME NEW w \in Chans, ReplaceStep(w) PROVE TypeOK'
  <2>1. CASE ReplaceOK(w)
    BY <2>1 DEF ReplaceOK
  <2>2. CASE ReplaceClosed(w)
    BY <2>2 DEF ReplaceClosed, AnswerNil
  <2>3. CASE ReplaceFails(w)
    BY <2>3 DEF ReplaceFails, AnswerNil
  <2>4. CASE ReplaceCancel(w)
    BY <2>4 DEF ReplaceCancel
  <2> QED BY <1>2, <2>1, <2>2, <2>3, <2>4 DEF ReplaceStep
<1>3. ASSUME NEW g \in Watchers, WatchStep(g) PROVE TypeOK'
  <2>1. CASE Watch(g)
    BY <2>1 DEF Watch
  <2>2. CASE WatchReturns(g)
    BY <2>2 DEF WatchReturns
  <2>3. CASE WatchExpires(g)
    BY <2>3 DEF WatchExpires, Broadcast
  <2> QED BY <1>3, <2>1, <2>2, <2>3 DEF WatchStep
<1>4. ASSUME ShutStep PROVE TypeOK'
  <2>1. CASE DrainBegin
    BY <2>1, EmptySeq, ToSetDef DEF DrainBegin, TakeAll, Unanswered
  <2>2. CASE DrainSkip
    BY <2>2 DEF DrainSkip
  <2>3. CASE DrainFinish
    BY <2>3, DrainedType DEF DrainFinish, CloseClients, AnswerNil
  <2>4. CASE WaitIdle
    BY <2>4 DEF WaitIdle
  <2>5. CASE CloseBegin
    BY <2>5, EmptySeq, ToSetDef DEF CloseBegin, TakeAll, Broadcast, Unanswered
  <2>6. CASE CloseFinish
    BY <2>6 DEF CloseFinish, CloseClients, AnswerNil
  <2>7. CASE EvictIdle
    BY <2>7, CutFacts DEF EvictIdle, Survivors, CloseClients
  <2>8. CASE ReaperExits
    BY <2>8 DEF ReaperExits
  <2> QED BY <1>4, <2>1, <2>2, <2>3, <2>4, <2>5, <2>6, <2>7, <2>8 DEF ShutStep
<1>5. CASE UNCHANGED vars
  BY <1>5 DEF vars
<1> QED BY <1>1, <1>2, <1>3, <1>4, <1>5, NextCases

(* Every step keeps the correspondence of control and handles.  Only the       *)
(* steps of a caller touch them.                                               *)
LEMMA HandlesStep ==
    ASSUME TypeOK, Handles, [Next]_vars
    PROVE  Handles'
<1> USE DEF TypeOK, Handles, Goto, Return, Attempt, MayAttempt, poolVars, clientVars, callerVars, shutVars
<1>1. ASSUME NEW c \in Callers, CallerStep(c) PROVE Handles'
  <2>1. CASE AcquireExhausted(c)
    BY <2>1 DEF AcquireExhausted
  <2>2. CASE AcquireRefused(c)
    BY <2>2 DEF AcquireRefused
  <2>3. CASE AcquireIdle(c)
    <3>1. Last(idle) \in Conns
      BY <2>3, FrontFacts DEF AcquireIdle
    <3> QED BY <2>3, <3>1 DEF AcquireIdle
  <2>4. CASE AcquireSlot(c)
    BY <2>4 DEF AcquireSlot
  <2>5. CASE AcquireWait(c)
    BY <2>5 DEF AcquireWait, FreshChans
  <2>6. CASE OpenOK(c)
    BY <2>6 DEF OpenOK
  <2>7. CASE OpenFails(c)
    BY <2>7 DEF OpenFails
  <2>8. CASE ReceiveNil(c)
    BY <2>8 DEF ReceiveNil
  <2>9. CASE ReceiveConn(c)
    BY <2>9 DEF ReceiveConn, CountReceived
  <2>10. CASE WaitExpires(c)
    BY <2>10 DEF WaitExpires
  <2>11. CASE CheckPasses(c)
    BY <2>11 DEF CheckPasses
  <2>12. CASE CheckFails(c)
    BY <2>12 DEF CheckFails, GiveUp
  <2>13. CASE Discard(c)
    BY <2>13 DEF Discard, GiveUp
  <2>14. CASE DiscardQuiet(c)
    BY <2>14 DEF DiscardQuiet, DiscardSlot
  <2>19. CASE DiscardReplace(c)
    BY <2>19 DEF DiscardReplace, DiscardSlot
  <2>15. CASE ReleaseShut(c)
    BY <2>15 DEF ReleaseShut
  <2>16. CASE ReleaseClose(c)
    BY <2>16 DEF ReleaseClose
  <2>17. CASE ReleaseHandoff(c)
    BY <2>17 DEF ReleaseHandoff
  <2>18. CASE ReleaseIdle(c)
    BY <2>18 DEF ReleaseIdle
  <2> QED BY <1>1, <2>1, <2>2, <2>3, <2>4, <2>5, <2>6, <2>7, <2>8, <2>9, <2>10, <2>11, <2>12, <2>13, <2>14, <2>15, <2>16, <2>17, <2>18, <2>19
         DEF CallerStep
<1>2. ASSUME NEW w \in Chans, ReplaceStep(w) PROVE UNCHANGED callerVars
  BY <1>2 DEF ReplaceStep, ReplaceOK, ReplaceClosed, ReplaceFails, ReplaceCancel
<1>3. ASSUME NEW g \in Watchers, WatchStep(g) PROVE UNCHANGED callerVars
  BY <1>3 DEF WatchStep, Watch, WatchReturns, WatchExpires
<1>4. ASSUME ShutStep PROVE UNCHANGED callerVars
  BY <1>4 DEF ShutStep, DrainBegin, DrainSkip, DrainFinish, WaitIdle, CloseBegin,
              CloseFinish, EvictIdle, ReaperExits
<1>5. CASE UNCHANGED callerVars
  BY <1>5
<1>6. CASE UNCHANGED vars
  BY <1>6, <1>5 DEF vars
<1> QED BY <1>1, <1>2, <1>3, <1>4, <1>5, <1>6, NextCases

(* The initial state has its types.                                            *)
LEMMA TypeInit == Init => TypeOK /\ Handles
<1> SUFFICES ASSUME Init PROVE TypeOK /\ Handles
  OBVIOUS
<1>1. idle \in Seq(Conns)
  BY SeqDef DEF Init
<1>2. ToSet(idle) \subseteq Conns
  BY <1>1, ToSetDef
<1>3. spc \in [Shutters \cup Watchers ->
                  {"ready", "taken", "waiting", "returned", "expired", "skipped"}]
  BY DEF Init
<1>6. /\ open \in Int /\ inUse \in Int /\ cancelled \in Nat
      /\ live \subseteq Conns /\ zeroBorn \subseteq Conns
  BY <1>2 DEF Init
<1>7. pc \in [Callers -> PCs] /\ tries \in [Callers -> 0..MaxRetries]
  BY DEF Init
<1>4. TypeOK
  BY <1>1, <1>2, <1>3, <1>6, <1>7, EmptySeq DEF Init, TypeOK
<1>5. Handles
  BY DEF Init, Handles
<1> QED BY <1>4, <1>5

(* Every reachable state of the pool has its types: in particular Acquire      *)
(* never finds a nil entry on the idle stack, put never pushes one, and a      *)
(* caller uses, releases and discards only a client it was given.              *)
THEOREM TypeCorrect == Spec => [](TypeOK /\ Handles)
<1>1. TypeOK /\ Handles /\ [Next]_vars => (TypeOK /\ Handles)'
  BY TypeStep, HandlesStep
<1> QED BY TypeInit, <1>1, PTL DEF Spec


-----------------------------------------------------------------------------
(* ExclusiveUse and PlacedIsLive, place by place.                              *)
Placed ==
    /\ IsInjective(idle)
    /\ \A c, d \in Callers : conn[c] = conn[d] /\ conn[c] \in Conns => c = d
    /\ \A v, w \in Chans : buf[v] = buf[w] /\ buf[v] \in Conns => v = w
    /\ \A c \in Callers : conn[c] \in Conns =>
          /\ conn[c] \in live /\ conn[c] \notin ToSet(idle)
          /\ \A w \in Chans : buf[w] # conn[c]
          /\ \A s \in Shutters : conn[c] \notin BeingClosed(s)
    /\ \A w \in Chans : buf[w] \in Conns =>
          /\ buf[w] \in live /\ buf[w] \notin ToSet(idle)
          /\ \A s \in Shutters : buf[w] \notin BeingClosed(s)
    /\ ToSet(idle) \subseteq live
    /\ \A s \in Shutters : BeingClosed(s) \subseteq live
                           /\ BeingClosed(s) \cap ToSet(idle) = {}
    /\ BeingClosed("Drain") \cap BeingClosed("Close") = {}

(* Placed says what ExclusiveUse and PlacedIsLive say, place by place.         *)
LEMMA PlacedDef ==
    ASSUME TypeOK PROVE Placed <=> ExclusiveUse /\ PlacedIsLive
<1>1. /\ \A c \in Callers : conn[c] \in Conns => conn[c] \in Held
      /\ \A k \in Held : k \in Conns /\ \E c \in Callers : conn[c] = k
  BY DEF Held
<1>2. /\ \A w \in Chans : buf[w] \in Conns => buf[w] \in InTransit
      /\ \A k \in InTransit : k \in Conns /\ \E w \in Chans : buf[w] = k
  BY DEF InTransit
<1>3. ASSUME Placed PROVE ExclusiveUse /\ PlacedIsLive
  <2>1. Held \cap InTransit = {}
    BY <1>1, <1>2, <1>3 DEF Placed
  <2>2. ToSet(idle) \cap (Held \cup InTransit) = {}
    BY <1>1, <1>2, <1>3 DEF Placed
  <2>3. \A s \in Shutters :
          BeingClosed(s) \cap (ToSet(idle) \cup Held \cup InTransit) = {}
    BY <1>1, <1>2, <1>3 DEF Placed
  <2>4. PlacedIsLive
    BY <1>1, <1>2, <1>3 DEF Placed, PlacedIsLive
  <2> QED BY <2>1, <2>2, <2>3, <2>4, <1>3 DEF Placed, ExclusiveUse
<1>4. ASSUME ExclusiveUse, PlacedIsLive PROVE Placed
  <2>1. ASSUME NEW c \in Callers, conn[c] \in Conns
        PROVE  /\ conn[c] \in live /\ conn[c] \notin ToSet(idle)
               /\ \A w \in Chans : buf[w] # conn[c]
               /\ \A s \in Shutters : conn[c] \notin BeingClosed(s)
    BY <1>1, <1>2, <1>4, <2>1 DEF ExclusiveUse, PlacedIsLive
  <2>2. ASSUME NEW w \in Chans, buf[w] \in Conns
        PROVE  /\ buf[w] \in live /\ buf[w] \notin ToSet(idle)
               /\ \A s \in Shutters : buf[w] \notin BeingClosed(s)
    BY <1>2, <1>4, <2>2 DEF ExclusiveUse, PlacedIsLive
  <2>3. /\ ToSet(idle) \subseteq live
        /\ \A s \in Shutters : BeingClosed(s) \subseteq live
                               /\ BeingClosed(s) \cap ToSet(idle) = {}
    BY <1>4 DEF ExclusiveUse, PlacedIsLive
  <2> QED BY <2>1, <2>2, <2>3, <1>4 DEF Placed, ExclusiveUse
<1> QED BY <1>3, <1>4

(* Steps that move no client.                                                  *)
LEMMA PlacedUnchanged ==
    ASSUME Placed, UNCHANGED <<idle, conn, buf, live, spc, taken>> PROVE Placed'
BY DEF Placed, BeingClosed

(* Every step of a caller keeps the clients apart.                             *)
LEMMA PlacedCaller ==
    ASSUME TypeOK, Handles, Placed, NEW c \in Callers, CallerStep(c)
    PROVE  Placed'
<1> USE DEF TypeOK, Handles, Goto, Return, Attempt, MayAttempt, poolVars, clientVars,
            callerVars, shutVars
<1>1. CASE AcquireExhausted(c) \/ AcquireRefused(c) \/ AcquireSlot(c) \/ OpenFails(c)
          \/ WaitExpires(c) \/ CheckPasses(c) \/ DiscardQuiet(c)
          \/ DiscardReplace(c) \/ ReleaseShut(c)
  BY <1>1, PlacedUnchanged DEF AcquireExhausted, AcquireRefused, AcquireSlot, OpenFails,
     WaitExpires, CheckPasses, DiscardQuiet, DiscardReplace, DiscardSlot, ReleaseShut
<1>2. CASE AcquireIdle(c)
  <2>1. /\ ToSet(idle) = ToSet(idle') \cup {Last(idle)} /\ Last(idle) \in Conns
        /\ IsInjective(idle') /\ Last(idle) \notin ToSet(idle')
    BY <1>2, FrontFacts DEF AcquireIdle, Popped, Placed
  <2>2. \A s \in Shutters : BeingClosed(s)' = BeingClosed(s)
    BY <1>2 DEF AcquireIdle, BeingClosed
  <2> QED BY <1>2, <2>1, <2>2 DEF AcquireIdle, Placed
<1>3. CASE AcquireWait(c)
  <2>1. \A s \in Shutters : BeingClosed(s)' = BeingClosed(s)
    BY <1>3 DEF AcquireWait, BeingClosed
  <2> QED BY <1>3, <2>1 DEF AcquireWait, FreshChans, Placed
<1>4. CASE OpenOK(c)
  <2>1. \A s \in Shutters : BeingClosed(s)' = BeingClosed(s)
    BY <1>4 DEF OpenOK, BeingClosed
  <2> QED BY <1>4, <2>1 DEF OpenOK, Placed
<1>5. CASE ReceiveNil(c)
  <2>1. \A s \in Shutters : BeingClosed(s)' = BeingClosed(s)
    BY <1>5 DEF ReceiveNil, BeingClosed
  <2> QED BY <1>5, <2>1 DEF ReceiveNil, Placed
<1>6. CASE ReceiveConn(c)
  <2>1. \A s \in Shutters : BeingClosed(s)' = BeingClosed(s)
    BY <1>6 DEF ReceiveConn, BeingClosed
  <2> QED BY <1>6, <2>1 DEF ReceiveConn, Placed
<1>7. CASE CheckFails(c) \/ Discard(c)
  <2>1. \A s \in Shutters : BeingClosed(s)' = BeingClosed(s)
    BY <1>7 DEF CheckFails, Discard, GiveUp, BeingClosed
  <2>2. /\ conn[c] \in Conns /\ conn' = [conn EXCEPT ![c] = "nil"]
        /\ live' = live \ {conn[c]} /\ UNCHANGED <<idle, buf>>
    BY <1>7 DEF CheckFails, Discard, GiveUp, CloseClients
  <2> QED BY <2>1, <2>2 DEF Placed
<1>8. CASE ReleaseClose(c)
  <2>1. \A s \in Shutters : BeingClosed(s)' = BeingClosed(s)
    BY <1>8 DEF ReleaseClose, BeingClosed
  <2> QED BY <1>8, <2>1 DEF ReleaseClose, CloseClients, Placed
<1>9. CASE ReleaseHandoff(c)
  <2>1. \A s \in Shutters : BeingClosed(s)' = BeingClosed(s)
    BY <1>9 DEF ReleaseHandoff, BeingClosed
  <2>2. Head(waiters) \in Chans
    BY <1>9, TailFacts DEF ReleaseHandoff
  <2> QED BY <1>9, <2>1, <2>2 DEF ReleaseHandoff, Placed
<1>10. CASE ReleaseIdle(c)
  <2>1. \A s \in Shutters : BeingClosed(s)' = BeingClosed(s)
    BY <1>10 DEF ReleaseIdle, BeingClosed
  <2>2. conn[c] \in Conns /\ conn[c] \notin ToSet(idle) /\ IsInjective(idle)
    BY <1>10 DEF ReleaseIdle, Placed
  <2>3. ToSet(idle') = ToSet(idle) \cup {conn[c]} /\ IsInjective(idle')
    BY <1>10, <2>2, AppendFacts DEF ReleaseIdle
  <2> QED BY <1>10, <2>1, <2>2, <2>3 DEF ReleaseIdle, Placed
<1> QED BY <1>1, <1>2, <1>3, <1>4, <1>5, <1>6, <1>7, <1>8, <1>9, <1>10 DEF CallerStep

(* Every other step keeps the clients apart.                                   *)
LEMMA PlacedOthers ==
    ASSUME TypeOK, Placed,
           \/ \E w \in Chans : ReplaceStep(w)
           \/ \E g \in Watchers : WatchStep(g)
           \/ ShutStep
    PROVE  Placed'
<1> USE DEF TypeOK, poolVars, clientVars, callerVars, shutVars
<1>1. ASSUME NEW w \in Chans, ReplaceStep(w) PROVE Placed'
  <2>1. \A s \in Shutters : BeingClosed(s)' = BeingClosed(s)
    BY <1>1 DEF ReplaceStep, ReplaceOK, ReplaceClosed, ReplaceFails, ReplaceCancel,
                BeingClosed
  <2>2. CASE ReplaceOK(w)
    BY <2>1, <2>2 DEF ReplaceOK, Placed
  <2>3. CASE ReplaceClosed(w) \/ ReplaceFails(w)
    BY <2>1, <2>3 DEF ReplaceClosed, ReplaceFails, AnswerNil, Placed
  <2>4. CASE ReplaceCancel(w)
    BY <2>4, PlacedUnchanged DEF ReplaceCancel
  <2> QED BY <1>1, <2>2, <2>3, <2>4 DEF ReplaceStep
<1>2. ASSUME NEW g \in Watchers, WatchStep(g) PROVE Placed'
  <2>1. UNCHANGED <<idle, conn, buf, live, taken>>
    BY <1>2 DEF WatchStep, Watch, WatchReturns, WatchExpires
  <2>2. \A s \in Shutters : BeingClosed(s)' = BeingClosed(s)
    BY <1>2 DEF WatchStep, Watch, WatchReturns, WatchExpires, BeingClosed
  <2> QED BY <2>1, <2>2 DEF Placed
<1>3. CASE DrainSkip \/ WaitIdle \/ ReaperExits
  <2>1. UNCHANGED <<idle, conn, buf, live, taken>>
    BY <1>3 DEF DrainSkip, WaitIdle, ReaperExits
  <2>2. \A s \in Shutters : BeingClosed(s)' = BeingClosed(s)
    BY <1>3 DEF DrainSkip, WaitIdle, ReaperExits, BeingClosed
  <2> QED BY <2>1, <2>2 DEF Placed
<1>4. CASE DrainBegin
  <2>1. /\ ToSet(idle') = {} /\ IsInjective(idle') /\ UNCHANGED <<conn, buf, live>>
        /\ BeingClosed("Drain")' = ToSet(idle)
        /\ BeingClosed("Close")' = BeingClosed("Close")
    BY <1>4, EmptyFacts DEF DrainBegin, TakeAll, BeingClosed
  <2> QED BY <2>1 DEF Placed
<1>5. CASE CloseBegin
  <2>1. /\ ToSet(idle') = {} /\ IsInjective(idle') /\ UNCHANGED <<conn, buf, live>>
        /\ BeingClosed("Close")' = ToSet(idle)
        /\ BeingClosed("Drain")' = BeingClosed("Drain")
    BY <1>5, EmptyFacts DEF CloseBegin, TakeAll, BeingClosed
  <2> QED BY <2>1 DEF Placed
<1>6. CASE DrainFinish
  <2>1. /\ UNCHANGED <<idle, conn>> /\ live' = live \ BeingClosed("Drain")
        /\ \A w \in Chans : buf'[w] = buf[w] \/ buf'[w] = "nil"
        /\ BeingClosed("Drain")' = {}
        /\ BeingClosed("Close")' = BeingClosed("Close")
    BY <1>6 DEF DrainFinish, CloseClients, AnswerNil, BeingClosed
  <2> QED BY <2>1 DEF Placed
<1>7. CASE CloseFinish
  <2>1. /\ UNCHANGED <<idle, conn>> /\ live' = live \ BeingClosed("Close")
        /\ \A w \in Chans : buf'[w] = buf[w] \/ buf'[w] = "nil"
        /\ BeingClosed("Close")' = {}
        /\ BeingClosed("Drain")' = BeingClosed("Drain")
    BY <1>7 DEF CloseFinish, CloseClients, AnswerNil, BeingClosed
  <2> QED BY <2>1 DEF Placed
<1>8. CASE EvictIdle
  <2>1. PICK n \in (MinIdle + 1)..Len(idle) :
          /\ idle' = SubSeq(idle, 1, MinIdle) \o SubSeq(idle, n + 1, Len(idle))
          /\ live' = live \ ToSet(SubSeq(idle, MinIdle + 1, n))
    BY <1>8 DEF EvictIdle, Survivors, CloseClients
  <2> DEFINE dropped == ToSet(SubSeq(idle, MinIdle + 1, n))
  <2>2. n \in Nat /\ MinIdle <= n /\ n <= Len(idle) /\ IsInjective(idle)
    BY DEF Placed
  <2>3. /\ IsInjective(idle') /\ ToSet(idle') \cap dropped = {}
        /\ ToSet(idle) = ToSet(idle') \cup dropped
    <3> DEFINE kept == SubSeq(idle, 1, MinIdle) \o SubSeq(idle, n + 1, Len(idle))
    <3>1. /\ IsInjective(kept) /\ ToSet(kept) \cap dropped = {}
          /\ ToSet(idle) = ToSet(kept) \cup dropped
      <4>1. idle \in Seq(Conns) /\ MinIdle \in Nat
        OBVIOUS
      <4> HIDE DEF TypeOK
      <4> QED BY <4>1, <2>2, CutFacts, Zenon
    <3> QED BY <2>1, <3>1
  <2>4. UNCHANGED <<conn, buf>> /\ \A s \in Shutters : BeingClosed(s)' = BeingClosed(s)
    BY <1>8 DEF EvictIdle, BeingClosed
  <2>5. live' = live \ dropped
    BY <2>1
  <2> HIDE DEF dropped
  <2> QED BY <2>3, <2>4, <2>5 DEF Placed
<1> QED BY <1>1, <1>2, <1>3, <1>4, <1>5, <1>6, <1>7, <1>8 DEF ShutStep

(* The clients New opened are distinct.                                        *)
LEMMA PlacedInit == Init => Placed
<1> SUFFICES ASSUME Init PROVE Placed
  OBVIOUS
<1>1. \A s \in Shutters : BeingClosed(s) = {}
  BY DEF Init, BeingClosed
<1>2. (\A c \in Callers : conn[c] \notin Conns) /\ (\A w \in Chans : buf[w] \notin Conns)
  BY DEF Init
<1> QED BY <1>1, <1>2 DEF Init, Placed

(* No connection is ever in two hands: two callers never share a client, a     *)
(* client on the idle stack or in a waiter's channel is used by nobody, and a  *)
(* client that is idle, in transit or in use has not been closed.  It rests on *)
(* Placed, which follows each client through the goroutines that close the     *)
(* clients taken by Drain and Close after they have left the lock.             *)
THEOREM ExclusiveUseTheorem == Spec => [](ExclusiveUse /\ OwnedIsLive)
<1>1. Init => TypeOK /\ Handles /\ Placed
  BY TypeInit, PlacedInit
<1>2. TypeOK /\ Handles /\ Placed /\ [Next]_vars => (TypeOK /\ Handles /\ Placed)'
  <2> SUFFICES ASSUME TypeOK, Handles, Placed, [Next]_vars PROVE (TypeOK /\ Handles /\ Placed)'
    OBVIOUS
  <2>1. TypeOK' /\ Handles'
    BY TypeStep, HandlesStep
  <2>2. CASE UNCHANGED vars
    BY <2>1, <2>2, PlacedUnchanged DEF vars, poolVars, clientVars, callerVars, shutVars
  <2>3. CASE Next
    BY <2>1, <2>3, NextCases, PlacedCaller, PlacedOthers
  <2> QED BY <2>1, <2>2, <2>3
<1>3. TypeOK /\ Placed => ExclusiveUse /\ OwnedIsLive
  BY PlacedDef DEF PlacedIsLive, OwnedIsLive
<1> QED BY <1>1, <1>2, <1>3, PTL DEF Spec

(* Acquire never hands out a client the reaper, Drain, Close or a Discard has  *)
(* closed, and nobody closes a client under the caller that uses it.           *)
THEOREM OwnedIsLiveTheorem == Spec => []OwnedIsLive
BY ExclusiveUseTheorem, PTL


-----------------------------------------------------------------------------
(* Once Drain or Close has begun, the stack and the queue stay empty, and      *)
(* before that an entry never sits on the stack while a caller is queued:      *)
(* put and acquireOnce look at both under the same lock.                       *)
THEOREM ShutdownTheorem == Spec => [](ShutIsFinal /\ NoIdleWhileWaiting)
<1> DEFINE Inv == ShutIsFinal /\ NoIdleWhileWaiting
<1>1. Init => Inv
  BY DEF Init, ShutIsFinal, NoIdleWhileWaiting
<1>2. TypeOK /\ Inv /\ [Next]_vars => Inv'
  <2> SUFFICES ASSUME TypeOK, Inv, [Next]_vars PROVE Inv'
    OBVIOUS
  <2> USE DEF ShutIsFinal, NoIdleWhileWaiting
  <2>1. CASE UNCHANGED <<idle, waiters, closed, draining>>
    BY <2>1
  <2>2. ASSUME NEW c \in Callers, CallerStep(c) PROVE Inv'
    <3>1. CASE AcquireIdle(c)
      <4>1. idle # <<>> /\ ~Shut /\ UNCHANGED <<waiters, closed, draining>>
        BY <3>1 DEF AcquireIdle
      <4> QED BY <4>1 DEF Shut
    <3>2. CASE AcquireWait(c)
      <4>1. idle = <<>> /\ ~Shut /\ UNCHANGED <<idle, closed, draining>>
        BY <3>2 DEF AcquireWait
      <4> QED BY <4>1 DEF Shut
    <3>3. CASE WaitExpires(c)
      <4>1. waiters # <<>> \/ waiters' = waiters
        <5>1. waiters = <<>> => WithoutWaiter(chan[c]) = waiters
          BY DEF WithoutWaiter
        <5> QED BY <3>3, <5>1 DEF WaitExpires
      <4>2. UNCHANGED <<idle, closed, draining>>
        BY <3>3 DEF WaitExpires
      <4>3. CASE waiters # <<>>
        BY <4>2, <4>3
      <4> QED BY <4>1, <4>2, <4>3
    <3>4. CASE DiscardReplace(c) \/ ReleaseHandoff(c)
      <4>1. waiters # <<>> /\ UNCHANGED <<idle, closed, draining>>
        BY <3>4 DEF DiscardReplace, DiscardSlot, ReleaseHandoff
      <4> QED BY <4>1
    <3>5. CASE ReleaseIdle(c)
      <4>1. waiters = <<>> /\ ~Shut /\ UNCHANGED <<waiters, closed, draining>>
        BY <3>5 DEF ReleaseIdle, NobodyWaits
      <4> QED BY <4>1 DEF Shut
    <3>6. CASE \/ AcquireExhausted(c) \/ AcquireRefused(c) \/ AcquireSlot(c) \/ OpenOK(c)
               \/ OpenFails(c) \/ ReceiveNil(c) \/ ReceiveConn(c) \/ CheckPasses(c)
               \/ CheckFails(c) \/ Discard(c) \/ DiscardQuiet(c) \/ ReleaseShut(c)
               \/ ReleaseClose(c)
      BY <3>6, <2>1 DEF AcquireExhausted, AcquireRefused, AcquireSlot, OpenOK, OpenFails,
         ReceiveNil, ReceiveConn, CheckPasses, CheckFails, Discard, GiveUp, DiscardQuiet,
         DiscardSlot, ReleaseShut, ReleaseClose, poolVars
    <3> QED BY <2>2, <3>1, <3>2, <3>3, <3>4, <3>5, <3>6 DEF CallerStep
  <2>3. ASSUME NEW w \in Chans, ReplaceStep(w) PROVE Inv'
    BY <2>3, <2>1 DEF ReplaceStep, ReplaceOK, ReplaceClosed, ReplaceFails, ReplaceCancel,
       poolVars
  <2>4. ASSUME NEW g \in Watchers, WatchStep(g) PROVE Inv'
    BY <2>4, <2>1 DEF WatchStep, Watch, WatchReturns, WatchExpires, poolVars
  <2>5. ASSUME ShutStep PROVE Inv'
    <3>1. CASE DrainBegin \/ CloseBegin
      BY <3>1 DEF DrainBegin, CloseBegin, TakeAll
    <3>2. CASE EvictIdle
      <4>1. idle # <<>> /\ UNCHANGED <<waiters, closed, draining>>
        BY <3>2 DEF EvictIdle, TypeOK
      <4> QED BY <4>1
    <3>3. CASE DrainSkip \/ DrainFinish \/ WaitIdle \/ CloseFinish \/ ReaperExits
      BY <3>3, <2>1 DEF DrainSkip, DrainFinish, WaitIdle, CloseFinish, ReaperExits, poolVars
    <3> QED BY <2>5, <3>1, <3>2, <3>3 DEF ShutStep
  <2>6. CASE UNCHANGED vars
    BY <2>6, <2>1 DEF vars, poolVars
  <2> QED BY <2>2, <2>3, <2>4, <2>5, <2>6, NextCases
<1> QED BY <1>1, <1>2, TypeCorrect, PTL DEF Spec

(* A caller is never queued while an entry sits on the stack: Release looks at *)
(* the queue and acquireOnce at the stack under the same lock.                 *)
THEOREM NoIdleWhileWaitingTheorem == Spec => []NoIdleWhileWaiting
BY ShutdownTheorem, PTL

-----------------------------------------------------------------------------
(* The callers inUse should count.                                             *)
CountedCallers == {c \in Callers : pc[c] \in Counted}

(* The counted callers are finitely many, so inUse has a number to equal.      *)
LEMMA CountFinite == IsFiniteSet(CountedCallers) /\ Cardinality(CountedCallers) \in Nat
BY FS_Subset, FS_CardinalityType DEF CountedCallers

(* A caller that moves in or out of the counted states moves the count by one. *)
LEMMA CountMove ==
    ASSUME TypeOK, NEW c \in Callers, NEW label \in PCs, Goto(c, label)
    PROVE  /\ (pc[c] \in Counted <=> label \in Counted) =>
                 CountedCallers' = CountedCallers
           /\ pc[c] \notin Counted /\ label \in Counted =>
                 Cardinality(CountedCallers') = Cardinality(CountedCallers) + 1
           /\ pc[c] \in Counted /\ label \notin Counted =>
                 Cardinality(CountedCallers') = Cardinality(CountedCallers) - 1
<1>1. \A d \in Callers : pc'[d] = IF d = c THEN label ELSE pc[d]
  BY DEF Goto, TypeOK
<1>2. (pc[c] \in Counted <=> label \in Counted) => CountedCallers' = CountedCallers
  BY <1>1 DEF CountedCallers
<1>3. pc[c] \notin Counted /\ label \in Counted =>
        CountedCallers' = CountedCallers \cup {c} /\ c \notin CountedCallers
  BY <1>1 DEF CountedCallers
<1>4. pc[c] \in Counted /\ label \notin Counted =>
        CountedCallers' = CountedCallers \ {c} /\ c \in CountedCallers
  BY <1>1 DEF CountedCallers
<1> QED BY <1>2, <1>3, <1>4, CountFinite, FS_AddElement, FS_RemoveElement

(* inUse, on which Drain and WaitIdle decide, is exact in every reachable      *)
(* state, for any number of callers: every path out of Acquire, Release and    *)
(* Discard, the error paths included, gives back what it took.                 *)
THEOREM InUseTheorem == Spec => []InUseExact
<1>0. InUseExact <=> inUse = Cardinality(CountedCallers)
  BY DEF InUseExact, CountedCallers
<1>1. Init => InUseExact
  <2>1. Init => CountedCallers = {} /\ inUse = 0
    BY DEF Init, CountedCallers
  <2> QED BY <1>0, <2>1, FS_EmptySet
<1>2. TypeOK /\ InUseExact /\ [Next]_vars => InUseExact'
  <2> SUFFICES ASSUME TypeOK, InUseExact, [Next]_vars
               PROVE  inUse' = Cardinality(CountedCallers')
    BY DEF InUseExact, CountedCallers
  <2>0. inUse = Cardinality(CountedCallers) /\ inUse \in Int
    BY <1>0 DEF TypeOK
  <2>1. CASE UNCHANGED <<inUse, pc>>
    BY <2>0, <2>1 DEF CountedCallers
  <2>2. ASSUME NEW c \in Callers, CallerStep(c) PROVE inUse' = Cardinality(CountedCallers')
    <3>1. CASE AcquireIdle(c) \/ AcquireSlot(c) \/ ReceiveConn(c)
      <4>1. inUse' = inUse + 1 /\ pc[c] \notin Counted
            /\ \E l \in Counted : Goto(c, l)
        BY <3>1 DEF AcquireIdle, AcquireSlot, Attempt, MayAttempt, ReceiveConn, CountReceived
      <4> QED BY <4>1, <2>0, CountMove
    <3>2. CASE OpenFails(c) \/ CheckFails(c) \/ Discard(c) \/ ReleaseShut(c)
               \/ ReleaseHandoff(c) \/ ReleaseIdle(c)
      <4>1. inUse' = inUse - 1 /\ pc[c] \in Counted
            /\ \E l \in PCs \ Counted : Goto(c, l)
        BY <3>2 DEF OpenFails, CheckFails, Discard, GiveUp, ReleaseShut, ReleaseHandoff,
                    ReleaseIdle, Return
      <4> QED BY <4>1, <2>0, CountMove
    <3>3. CASE OpenOK(c) \/ CheckPasses(c)
      <4>1. inUse' = inUse /\ pc[c] \in Counted /\ Goto(c, "using")
        BY <3>3 DEF OpenOK, CheckPasses, poolVars
      <4> QED BY <4>1, <2>0, CountMove
    <3>4. CASE \/ AcquireExhausted(c) \/ AcquireRefused(c) \/ AcquireWait(c)
               \/ ReceiveNil(c) \/ WaitExpires(c) \/ DiscardQuiet(c)
               \/ DiscardReplace(c) \/ ReleaseClose(c)
      <4>1. inUse' = inUse /\ pc[c] \notin Counted
            /\ \E l \in PCs \ Counted : Goto(c, l)
        BY <3>4 DEF AcquireExhausted, AcquireRefused, AcquireWait, Attempt, MayAttempt,
           ReceiveNil, WaitExpires, DiscardQuiet, DiscardReplace, DiscardSlot,
           ReleaseClose, Return, poolVars
      <4> QED BY <4>1, <2>0, CountMove
    <3> QED BY <2>2, <3>1, <3>2, <3>3, <3>4 DEF CallerStep
  <2>3. ASSUME NEW w \in Chans, ReplaceStep(w) PROVE UNCHANGED <<inUse, pc>>
    BY <2>3 DEF ReplaceStep, ReplaceOK, ReplaceClosed, ReplaceFails, ReplaceCancel,
       poolVars, callerVars
  <2>4. ASSUME NEW g \in Watchers, WatchStep(g) PROVE UNCHANGED <<inUse, pc>>
    BY <2>4 DEF WatchStep, Watch, WatchReturns, WatchExpires, poolVars, callerVars
  <2>5. ASSUME ShutStep PROVE UNCHANGED <<inUse, pc>>
    BY <2>5 DEF ShutStep, DrainBegin, DrainSkip, DrainFinish, WaitIdle, CloseBegin,
       CloseFinish, EvictIdle, ReaperExits, poolVars, callerVars
  <2>6. CASE UNCHANGED vars
    BY <2>6, <2>1 DEF vars, poolVars, callerVars
  <2> QED BY <2>1, <2>2, <2>3, <2>4, <2>5, <2>6, NextCases
<1> QED BY <1>1, <1>2, TypeCorrect, PTL DEF Spec


-----------------------------------------------------------------------------
(* A Drain or Close owes answers only between its two halves.                  *)
OwedOnlyWhileTaken == \A s \in Shutters : owed[s] # {} => spc[s] = "taken"

Answers == OneAnswer /\ NoLostWaiter /\ OwedOnlyWhileTaken

(* Removing one waiter leaves the others.                                      *)
LEMMA WithoutWaiterFacts ==
    ASSUME TypeOK, IsInjective(waiters), NEW ch
    PROVE  /\ IsInjective(WithoutWaiter(ch))
           /\ ToSet(WithoutWaiter(ch)) = ToSet(waiters) \ {ch}
<1>1. CASE \E i \in DOMAIN waiters : waiters[i] = ch
  <2> DEFINE i == CHOOSE i \in DOMAIN waiters : waiters[i] = ch
  <2>1. i \in 1..Len(waiters) /\ waiters[i] = ch
    BY <1>1 DEF TypeOK
  <2> HIDE DEF i
  <2> DEFINE t == SubSeq(waiters, 1, i - 1) \o SubSeq(waiters, i + 1, Len(waiters))
             d == SubSeq(waiters, i, i)
  <2>2. i - 1 \in Nat /\ i \in Nat /\ i - 1 <= i /\ i <= Len(waiters)
        /\ Len(waiters) \in Nat /\ (i - 1) + 1 = i /\ waiters \in Seq(Chans)
    BY <2>1 DEF TypeOK
  <2>3. /\ IsInjective(t) /\ ToSet(t) \cap ToSet(d) = {}
        /\ ToSet(waiters) = ToSet(t) \cup ToSet(d)
    <3>1. ASSUME NEW m \in Nat, m <= i, m + 1 = i, m = i - 1
          PROVE  /\ IsInjective(t) /\ ToSet(t) \cap ToSet(d) = {}
                 /\ ToSet(waiters) = ToSet(t) \cup ToSet(d)
      <4> DEFINE t1 == SubSeq(waiters, 1, m) \o SubSeq(waiters, i + 1, Len(waiters))
                 d1 == SubSeq(waiters, m + 1, i)
      <4>1. /\ IsInjective(t1) /\ ToSet(t1) \cap ToSet(d1) = {}
            /\ ToSet(waiters) = ToSet(t1) \cup ToSet(d1)
        BY <2>2, <3>1, CutFacts, Zenon
      <4>2. t1 = t /\ d1 = d
        BY <3>1, Zenon
      <4> QED BY <4>1, <4>2, Zenon
    <3> QED BY <3>1, <2>2
  <2>4. ToSet(d) = {ch}
    <3>1. d \in Seq(Chans) /\ Len(d) = 1 /\ d[1] = ch
      BY <2>1, <2>2, SubSeqProperties
    <3> HIDE DEF d
    <3> QED BY <3>1, ToSetDef
  <2>5. WithoutWaiter(ch) = t
    BY <1>1 DEF WithoutWaiter, RemoveAt, i
  <2> HIDE DEF t, d
  <2> QED BY <2>3, <2>4, <2>5
<1>2. CASE ~\E i \in DOMAIN waiters : waiters[i] = ch
  <2>1. WithoutWaiter(ch) = waiters /\ ch \notin ToSet(waiters)
    BY <1>2, ToSetDef DEF WithoutWaiter, TypeOK
  <2> QED BY <2>1
<1> QED BY <1>1, <1>2

(* Steps that leave queue, channels and waiting callers alone keep Answers.    *)
LEMMA AnswersUnchanged ==
    ASSUME Answers, UNCHANGED <<waiters, buf, repl, owed, spc, pc, chan>>
    PROVE  Answers'
BY DEF Answers, OneAnswer, NoLostWaiter, OwedOnlyWhileTaken

(* Steps that leave the channels alone and make nobody wait.                   *)
LEMMA AnswersQuiet ==
    ASSUME TypeOK, Answers, NEW c \in Callers, NEW label \in PCs \ {"waiting"},
           Goto(c, label), UNCHANGED <<waiters, buf, repl, owed, spc, chan>>
    PROVE  Answers'
<1>1. \A d \in Callers : pc'[d] = "waiting" => pc[d] = "waiting"
  BY DEF Goto, TypeOK
<1> QED BY <1>1 DEF Answers, OneAnswer, NoLostWaiter, OwedOnlyWhileTaken

(* Every step of a caller leaves one answer due to each waiter.                *)
LEMMA AnswersCaller ==
    ASSUME TypeOK, Handles, Answers, NEW c \in Callers, CallerStep(c)
    PROVE  Answers'
<1> USE DEF TypeOK, Goto, Return, Attempt, MayAttempt, poolVars, clientVars,
            callerVars, shutVars
<1>1. CASE \/ AcquireExhausted(c) \/ AcquireRefused(c) \/ AcquireIdle(c)
           \/ AcquireSlot(c) \/ OpenOK(c) \/ OpenFails(c) \/ CheckPasses(c)
           \/ CheckFails(c) \/ Discard(c) \/ DiscardQuiet(c) \/ ReleaseShut(c)
           \/ ReleaseClose(c) \/ ReleaseIdle(c)
  <2>1. /\ \E l \in PCs \ {"waiting"} : Goto(c, l)
        /\ UNCHANGED <<waiters, buf, repl, owed, spc, chan>>
    BY <1>1 DEF AcquireExhausted, AcquireRefused, AcquireIdle, AcquireSlot, OpenOK,
       OpenFails, CheckPasses, CheckFails, Discard, GiveUp, DiscardQuiet, DiscardSlot,
       ReleaseShut, ReleaseClose, ReleaseIdle
  <2> QED BY <2>1, AnswersQuiet
<1>2. CASE AcquireWait(c)
  <2>1. PICK ch \in FreshChans : /\ waiters' = Append(waiters, ch)
                                 /\ chan' = [chan EXCEPT ![c] = ch]
                                 /\ buf' = [buf EXCEPT ![ch] = "empty"]
    BY <1>2 DEF AcquireWait
  <2>2. /\ ch \in Chans /\ ch \notin ToSet(waiters) /\ repl[ch] = "none"
        /\ \A s \in Shutters : ch \notin owed[s]
    BY DEF FreshChans
  <2>3. ToSet(waiters') = ToSet(waiters) \cup {ch} /\ IsInjective(waiters')
    BY <2>1, <2>2, AppendFacts DEF Answers, OneAnswer
  <2>4. /\ pc' = [pc EXCEPT ![c] = "waiting"] /\ UNCHANGED <<repl, owed, spc>>
    BY <1>2 DEF AcquireWait
  <2>5. OneAnswer' /\ OwedOnlyWhileTaken'
    BY <2>1, <2>2, <2>3, <2>4 DEF Answers, OneAnswer, OwedOnlyWhileTaken
  <2>6. NoLostWaiter'
    BY <2>1, <2>2, <2>3, <2>4 DEF Answers, NoLostWaiter, Handles, FreshChans
  <2> QED BY <2>5, <2>6 DEF Answers
<1>3. CASE ReceiveNil(c) \/ ReceiveConn(c)
  <2>1. /\ chan[c] \in Chans /\ buf[chan[c]] # "empty"
        /\ buf' = [buf EXCEPT ![chan[c]] = "empty"]
        /\ chan' = [chan EXCEPT ![c] = "nil"]
        /\ \E l \in PCs \ {"waiting"} : pc' = [pc EXCEPT ![c] = l]
        /\ UNCHANGED <<waiters, repl, owed, spc>>
    BY <1>3 DEF ReceiveNil, ReceiveConn, Handles
  <2>2. OneAnswer' /\ OwedOnlyWhileTaken'
    BY <2>1 DEF Answers, OneAnswer, OwedOnlyWhileTaken
  <2>3. NoLostWaiter'
    <3> SUFFICES ASSUME NEW d \in Callers, pc'[d] = "waiting"
                 PROVE  \/ chan'[d] \in ToSet(waiters')
                        \/ buf'[chan'[d]] # "empty"
                        \/ repl'[chan'[d]] = "opening"
                        \/ \E s \in Shutters : chan'[d] \in owed'[s]
      BY DEF NoLostWaiter
    <3>1. d # c /\ pc[d] = "waiting" /\ chan'[d] = chan[d] /\ chan[d] # chan[c]
          /\ chan[d] \in Chans
      BY <2>1 DEF Handles
    <3>2. buf'[chan[d]] = buf[chan[d]]
      BY <3>1, <2>1
    <3> QED BY <2>1, <3>1, <3>2 DEF Answers, NoLostWaiter
  <2> QED BY <2>2, <2>3 DEF Answers
<1>4. CASE WaitExpires(c)
  <2>1. /\ chan[c] \in Chans /\ chan' = [chan EXCEPT ![c] = "nil"]
        /\ pc' = [pc EXCEPT ![c] = "out"]
        /\ UNCHANGED <<buf, repl, owed, spc>>
    BY <1>4 DEF WaitExpires, Handles
  <2>2. IsInjective(waiters') /\ ToSet(waiters') = ToSet(waiters) \ {chan[c]}
    BY <1>4, WithoutWaiterFacts DEF WaitExpires, Answers, OneAnswer
  <2>3. OneAnswer' /\ OwedOnlyWhileTaken'
    BY <2>1, <2>2 DEF Answers, OneAnswer, OwedOnlyWhileTaken
  <2>4. NoLostWaiter'
    <3> SUFFICES ASSUME NEW d \in Callers, pc'[d] = "waiting"
                 PROVE  \/ chan'[d] \in ToSet(waiters')
                        \/ buf'[chan'[d]] # "empty"
                        \/ repl'[chan'[d]] = "opening"
                        \/ \E s \in Shutters : chan'[d] \in owed'[s]
      BY DEF NoLostWaiter
    <3>1. d # c /\ pc[d] = "waiting" /\ chan'[d] = chan[d] /\ chan[d] # chan[c]
      BY <2>1 DEF Handles
    <3> QED BY <2>1, <2>2, <3>1 DEF Answers, NoLostWaiter
  <2> QED BY <2>3, <2>4 DEF Answers
<1>5. CASE DiscardReplace(c) \/ ReleaseHandoff(c)
  <2> DEFINE h == Head(waiters)
  <2>1. waiters # <<>> /\ waiters' = Tail(waiters)
    BY <1>5 DEF DiscardReplace, ReleaseHandoff, Dequeued
  <2>2. /\ h \in Chans /\ h \in ToSet(waiters) /\ h \notin ToSet(waiters')
        /\ ToSet(waiters) = ToSet(waiters') \cup {h} /\ IsInjective(waiters')
    BY <2>1, TailFacts DEF Answers, OneAnswer
  <2>3. UNCHANGED <<chan, owed, spc>> /\ \E l \in PCs \ {"waiting"} : pc' = [pc EXCEPT ![c] = l]
    BY <1>5 DEF DiscardReplace, DiscardSlot, ReleaseHandoff
  <2>4. \A d \in Callers : pc'[d] = "waiting" => pc[d] = "waiting"
    BY <2>3
  <2>5. \/ repl' = [repl EXCEPT ![h] = "opening"] /\ buf' = buf
        \/ repl' = repl /\ buf' = [buf EXCEPT ![h] = conn[c]] /\ conn[c] \in Conns
    BY <1>5 DEF DiscardReplace, DiscardSlot, ReleaseHandoff, Handles
  <2> HIDE DEF h
  <2>6. CASE repl' = [repl EXCEPT ![h] = "opening"] /\ buf' = buf
    BY <2>2, <2>3, <2>4, <2>6 DEF Answers, OneAnswer, NoLostWaiter, OwedOnlyWhileTaken
  <2>7. CASE repl' = repl /\ buf' = [buf EXCEPT ![h] = conn[c]] /\ conn[c] \in Conns
    BY <2>2, <2>3, <2>4, <2>7 DEF Answers, OneAnswer, NoLostWaiter, OwedOnlyWhileTaken
  <2> QED BY <2>5, <2>6, <2>7
<1> QED BY <1>1, <1>2, <1>3, <1>4, <1>5 DEF CallerStep

(* Every other step leaves one answer due to each waiter.                      *)
LEMMA AnswersOthers ==
    ASSUME TypeOK, Handles, Answers,
           \/ \E w \in Chans : ReplaceStep(w)
           \/ \E g \in Watchers : WatchStep(g)
           \/ ShutStep
    PROVE  Answers'
<1> USE DEF TypeOK, poolVars, clientVars, callerVars, shutVars
<1>1. ASSUME NEW w \in Chans, ReplaceStep(w) PROVE Answers'
  <2>1. CASE ReplaceCancel(w)
    <3>1. repl[w] = "cancel" /\ repl' = [repl EXCEPT ![w] = "none"]
          /\ UNCHANGED <<waiters, buf, owed, spc, pc, chan>>
      BY <2>1 DEF ReplaceCancel
    <3> QED BY <3>1 DEF Answers, OneAnswer, NoLostWaiter, OwedOnlyWhileTaken
  <2>2. CASE ReplaceOK(w) \/ ReplaceClosed(w) \/ ReplaceFails(w)
    <3>1. /\ repl[w] = "opening"
          /\ \E l \in {"none", "cancel"} : repl' = [repl EXCEPT ![w] = l]
          /\ \A v \in Chans \ {w} : buf'[v] = buf[v]
          /\ buf'[w] # "empty"
          /\ UNCHANGED <<waiters, owed, spc, pc, chan>>
      BY <2>2 DEF ReplaceOK, ReplaceClosed, ReplaceFails, AnswerNil
    <3>2. w \notin ToSet(waiters) /\ \A s \in Shutters : w \notin owed[s]
      BY <3>1 DEF Answers, OneAnswer
    <3>3. OneAnswer' /\ OwedOnlyWhileTaken'
      BY <3>1, <3>2, ToSetDef DEF Answers, OneAnswer, OwedOnlyWhileTaken
    <3>4. NoLostWaiter'
      BY <3>1, <3>2 DEF Answers, NoLostWaiter, Handles
    <3> QED BY <3>3, <3>4 DEF Answers
  <2> QED BY <1>1, <2>1, <2>2 DEF ReplaceStep
<1>2. ASSUME UNCHANGED <<waiters, buf, repl, owed, pc, chan>>,
             \A s \in Shutters : spc[s] = "taken" => spc'[s] = "taken"
      PROVE  Answers'
  BY <1>2 DEF Answers, OneAnswer, NoLostWaiter, OwedOnlyWhileTaken
<1>3. ASSUME NEW g \in Watchers, WatchStep(g) PROVE Answers'
  <2>1. UNCHANGED <<waiters, buf, repl, owed, pc, chan>>
        /\ \A s \in Shutters : spc[s] = "taken" => spc'[s] = "taken"
    BY <1>3 DEF WatchStep, Watch, WatchReturns, WatchExpires
  <2> QED BY <2>1, <1>2
<1>4. CASE DrainSkip \/ WaitIdle \/ EvictIdle \/ ReaperExits
  <2>1. UNCHANGED <<waiters, buf, repl, owed, pc, chan>>
        /\ \A s \in Shutters : spc[s] = "taken" => spc'[s] = "taken"
    BY <1>4 DEF DrainSkip, WaitIdle, EvictIdle, ReaperExits
  <2> QED BY <2>1, <1>2
<1>5. ASSUME NEW s \in Shutters, spc[s] = "ready", TakeAll(s),
             UNCHANGED <<buf, repl, pc, chan>>
      PROVE  Answers'
  <2>1. owed[s] = {}
    BY <1>5 DEF Answers, OwedOnlyWhileTaken
  <2>2. /\ waiters' = <<>> /\ spc' = [spc EXCEPT ![s] = "taken"]
        /\ owed' = [owed EXCEPT ![s] = ToSet(waiters)]
    BY <1>5 DEF TakeAll, Unanswered
  <2>3. ToSet(waiters') = {} /\ IsInjective(waiters')
    BY <2>2, EmptyFacts
  <2>4. OneAnswer'
    BY <1>5, <2>2, <2>3 DEF Answers, OneAnswer
  <2>5. NoLostWaiter'
    BY <1>5, <2>1, <2>2, <2>3 DEF Answers, NoLostWaiter
  <2>6. OwedOnlyWhileTaken'
    BY <2>2 DEF Answers, OwedOnlyWhileTaken
  <2> QED BY <2>4, <2>5, <2>6 DEF Answers
<1>6. CASE DrainBegin \/ CloseBegin
  BY <1>5, <1>6 DEF DrainBegin, CloseBegin
<1>7. ASSUME NEW s \in Shutters, AnswerNil(owed[s]), owed' = [owed EXCEPT ![s] = {}],
             \E l \in {"waiting", "returned"} : spc' = [spc EXCEPT ![s] = l],
             UNCHANGED <<waiters, repl, pc, chan>>
      PROVE  Answers'
  <2>1. \A ch \in Chans : buf'[ch] = IF ch \in owed[s] THEN "nil" ELSE buf[ch]
    BY <1>7 DEF AnswerNil
  <2>2. owed[s] \subseteq Chans /\ ToSet(waiters) \subseteq Chans
    BY ToSetDef
  <2>3. OneAnswer'
    BY <1>7, <2>1, <2>2 DEF Answers, OneAnswer
  <2>4. NoLostWaiter'
    <3> SUFFICES ASSUME NEW d \in Callers, pc[d] = "waiting"
                 PROVE  \/ chan[d] \in ToSet(waiters)
                        \/ buf'[chan[d]] # "empty"
                        \/ repl[chan[d]] = "opening"
                        \/ \E r \in Shutters : chan[d] \in owed'[r]
      BY <1>7 DEF NoLostWaiter
    <3>1. chan[d] \in Chans
      BY DEF Handles
    <3> QED BY <1>7, <2>1, <3>1 DEF Answers, NoLostWaiter
  <2>5. OwedOnlyWhileTaken'
    BY <1>7 DEF Answers, OwedOnlyWhileTaken
  <2> QED BY <2>3, <2>4, <2>5 DEF Answers
<1>8. CASE DrainFinish
  <2>1. /\ AnswerNil(owed["Drain"]) /\ owed' = [owed EXCEPT !["Drain"] = {}]
        /\ spc' = [spc EXCEPT !["Drain"] = "waiting"]
        /\ UNCHANGED <<waiters, repl, pc, chan>>
    BY <1>8 DEF DrainFinish
  <2>2. "Drain" \in Shutters /\ "waiting" \in {"waiting", "returned"}
    OBVIOUS
  <2> QED BY <2>1, <2>2, <1>7, Zenon
<1>9. CASE CloseFinish
  <2>1. /\ AnswerNil(owed["Close"]) /\ owed' = [owed EXCEPT !["Close"] = {}]
        /\ spc' = [spc EXCEPT !["Close"] = "returned"]
        /\ UNCHANGED <<waiters, repl, pc, chan>>
    BY <1>9 DEF CloseFinish
  <2>2. "Close" \in Shutters /\ "returned" \in {"waiting", "returned"}
    OBVIOUS
  <2> QED BY <2>1, <2>2, <1>7, Zenon
<1> QED BY <1>1, <1>3, <1>4, <1>6, <1>8, <1>9 DEF ShutStep

(* Each blocked caller is owed exactly one answer by exactly one party, and    *)
(* nobody ever blocks on sending it, however releases, discards, failed        *)
(* replacements, expired contexts, Drain and Close interleave.                 *)
THEOREM AnswersTheorem == Spec => [](OneAnswer /\ NoLostWaiter)
<1>1. Init => Answers
  BY EmptyFacts DEF Init, Answers, OneAnswer, NoLostWaiter, OwedOnlyWhileTaken
<1>2. TypeOK /\ Handles /\ Answers /\ [Next]_vars => Answers'
  <2> SUFFICES ASSUME TypeOK, Handles, Answers, [Next]_vars PROVE Answers'
    OBVIOUS
  <2>1. CASE UNCHANGED vars
    BY <2>1, AnswersUnchanged DEF vars, poolVars, clientVars, callerVars, shutVars
  <2>2. CASE Next
    BY <2>2, NextCases, AnswersCaller, AnswersOthers
  <2> QED BY <2>1, <2>2
<1>3. Answers => OneAnswer /\ NoLostWaiter
  BY DEF Answers
<1> QED BY <1>1, <1>2, <1>3, TypeCorrect, PTL DEF Spec

(* A caller blocked in Acquire has been forgotten by nobody, whatever became   *)
(* of its place in the queue.                                                  *)
THEOREM NoLostWaiterTheorem == Spec => []NoLostWaiter
BY AnswersTheorem, PTL


-----------------------------------------------------------------------------
(* The callers whose slot open counts: between acquireOnce and the critical    *)
(* section that gives the slot up.                                             *)
SlotPCs == Counted \cup {"closing", "discard", "rediscard"}
SlotCallers == {c \in Callers : pc[c] \in SlotPCs}

(* The channels a client is travelling through.                                *)
LoadedChans == {ch \in Chans : buf[ch] \in Conns}

(* A Drain or Close that has not begun has taken nothing.                      *)
NothingTakenYet == \A s \in Shutters : spc[s] = "ready" => taken[s] = {}

(* All the sets the accounting counts are finite.                              *)
LEMMA SlotsFinite ==
    ASSUME TypeOK
    PROVE  /\ IsFiniteSet(SlotCallers) /\ Cardinality(SlotCallers) \in Nat
           /\ IsFiniteSet(LoadedChans) /\ Cardinality(LoadedChans) \in Nat
           /\ \A s \in Shutters : IsFiniteSet(taken[s]) /\ Cardinality(taken[s]) \in Nat
           /\ Len(idle) \in Nat /\ open \in Int /\ cancelled \in Int
<1>1. IsFiniteSet(SlotCallers) /\ IsFiniteSet(LoadedChans)
  BY FS_Subset DEF SlotCallers, LoadedChans
<1>2. ASSUME NEW s \in Shutters PROVE IsFiniteSet(taken[s])
  BY FS_Subset DEF TypeOK
<1> QED BY <1>1, <1>2, FS_CardinalityType DEF TypeOK

(* A caller that takes or gives up a slot moves the count by one.              *)
LEMMA SlotMove ==
    ASSUME TypeOK, NEW c \in Callers, NEW label \in PCs, Goto(c, label)
    PROVE  /\ (pc[c] \in SlotPCs <=> label \in SlotPCs) =>
                 SlotCallers' = SlotCallers
           /\ pc[c] \notin SlotPCs /\ label \in SlotPCs =>
                 Cardinality(SlotCallers') = Cardinality(SlotCallers) + 1
           /\ pc[c] \in SlotPCs /\ label \notin SlotPCs =>
                 Cardinality(SlotCallers') = Cardinality(SlotCallers) - 1
<1>1. \A d \in Callers : pc'[d] = IF d = c THEN label ELSE pc[d]
  BY DEF Goto, TypeOK
<1>2. (pc[c] \in SlotPCs <=> label \in SlotPCs) => SlotCallers' = SlotCallers
  BY <1>1 DEF SlotCallers
<1>3. pc[c] \notin SlotPCs /\ label \in SlotPCs =>
        SlotCallers' = SlotCallers \cup {c} /\ c \notin SlotCallers
  BY <1>1 DEF SlotCallers
<1>4. pc[c] \in SlotPCs /\ label \notin SlotPCs =>
        SlotCallers' = SlotCallers \ {c} /\ c \in SlotCallers
  BY <1>1 DEF SlotCallers
<1> QED BY <1>2, <1>3, <1>4, SlotsFinite, FS_AddElement, FS_RemoveElement

(* A client that is sent or received moves the count of loaded channels by     *)
(* one; nil, sent to channels that are empty, leaves it.                       *)
LEMMA LoadMove ==
    ASSUME TypeOK, NEW w \in Chans, \A v \in Chans \ {w} : buf'[v] = buf[v]
    PROVE  /\ (buf[w] \in Conns <=> buf'[w] \in Conns) => LoadedChans' = LoadedChans
           /\ buf[w] \notin Conns /\ buf'[w] \in Conns =>
                 Cardinality(LoadedChans') = Cardinality(LoadedChans) + 1
           /\ buf[w] \in Conns /\ buf'[w] \notin Conns =>
                 Cardinality(LoadedChans') = Cardinality(LoadedChans) - 1
<1>1. (buf[w] \in Conns <=> buf'[w] \in Conns) => LoadedChans' = LoadedChans
  BY DEF LoadedChans
<1>2. buf[w] \notin Conns /\ buf'[w] \in Conns =>
        LoadedChans' = LoadedChans \cup {w} /\ w \notin LoadedChans
  BY DEF LoadedChans
<1>3. buf[w] \in Conns /\ buf'[w] \notin Conns =>
        LoadedChans' = LoadedChans \ {w} /\ w \in LoadedChans
  BY DEF LoadedChans
<1>4. /\ IsFiniteSet(LoadedChans)
      /\ w \notin LoadedChans =>
            Cardinality(LoadedChans \cup {w}) = Cardinality(LoadedChans) + 1
      /\ w \in LoadedChans =>
            Cardinality(LoadedChans \ {w}) = Cardinality(LoadedChans) - 1
  BY SlotsFinite, FS_AddElement, FS_RemoveElement
<1> QED BY <1>1, <1>2, <1>3, <1>4

(* nil is sent only to empty channels, so it displaces no client.              *)
LEMMA LoadNil ==
    ASSUME TypeOK, NEW S, \A ch \in S : buf[ch] = "empty", AnswerNil(S)
    PROVE  LoadedChans' = LoadedChans
BY DEF AnswerNil, LoadedChans

(* The slots open has to account for, and open itself.                         *)
Slots == Len(idle) + Cardinality(SlotCallers) + Cardinality(LoadedChans)
         + Cardinality(taken["Drain"]) + Cardinality(taken["Close"])

(* A step that changes both sides by the same amount keeps them equal.         *)
LEMMA Balance ==
    ASSUME open \in Int, cancelled \in Int, Slots \in Int,
           open' \in Int, cancelled' \in Int, Slots' \in Int,
           open + cancelled = Slots,
           (open' + cancelled') - (open + cancelled) = Slots' - Slots
    PROVE  open' + cancelled' = Slots'
<1> DEFINE a == open' + cancelled'
           b == Slots'
           d == Slots
<1>1. a \in Int /\ b \in Int /\ d \in Int /\ a - d = b - d
  OBVIOUS
<1> HIDE DEF a, b, d
<1>2. a = b
  BY <1>1
<1> QED BY <1>2 DEF a, b

(* A step of a caller moves its slot between the places, takes one and raises  *)
(* open, or gives one up and lowers open.                                      *)
LEMMA SlotsCaller ==
    ASSUME TypeOK, Handles, IsInjective(idle), OneAnswer,
           NEW c \in Callers, CallerStep(c)
    PROVE  (open' + cancelled') - (open + cancelled) = Slots' - Slots
           /\ spc' = spc /\ taken' = taken
<1>t. /\ Len(idle) \in Int /\ Cardinality(SlotCallers) \in Int
      /\ Cardinality(LoadedChans) \in Int /\ Cardinality(taken["Drain"]) \in Int
      /\ Cardinality(taken["Close"]) \in Int /\ open \in Int /\ cancelled \in Int
  BY SlotsFinite
<1> USE <1>t DEF Slots
<1>0. cancelled' = cancelled /\ spc' = spc /\ taken' = taken
  BY DEF CallerStep, AcquireExhausted, AcquireRefused, AcquireIdle, AcquireSlot,
     AcquireWait, OpenOK, OpenFails, ReceiveNil, ReceiveConn, WaitExpires, CheckPasses,
     CheckFails, Discard, GiveUp, DiscardQuiet, DiscardReplace, DiscardSlot, ReleaseShut,
     ReleaseClose, ReleaseHandoff, ReleaseIdle, shutVars
<1>1. CASE \/ AcquireExhausted(c) \/ AcquireRefused(c) \/ WaitExpires(c) \/ OpenOK(c)
           \/ OpenFails(c) \/ CheckPasses(c) \/ CheckFails(c) \/ Discard(c)
           \/ ReleaseShut(c)
  <2>1. /\ UNCHANGED <<idle, open, buf>>
        /\ \E l \in PCs : Goto(c, l) /\ (pc[c] \in SlotPCs <=> l \in SlotPCs)
    BY <1>1 DEF AcquireExhausted, AcquireRefused, WaitExpires, OpenOK, OpenFails,
       CheckPasses, CheckFails, Discard, GiveUp, ReleaseShut, Return, MayAttempt, SlotPCs,
       poolVars
  <2>2. SlotCallers' = SlotCallers /\ LoadedChans' = LoadedChans
    BY <2>1, SlotMove DEF LoadedChans
  <2> QED BY <1>0, <2>1, <2>2
<1>2. CASE AcquireIdle(c)
  <2>1. /\ UNCHANGED <<open, buf>> /\ Goto(c, "checking")
        /\ pc[c] \notin SlotPCs /\ "checking" \in SlotPCs
    BY <1>2 DEF AcquireIdle, Attempt, MayAttempt, SlotPCs
  <2>2. Cardinality(SlotCallers') = Cardinality(SlotCallers) + 1
        /\ LoadedChans' = LoadedChans
    BY <2>1, SlotMove DEF LoadedChans
  <2>3. Len(idle') = Len(idle) - 1
    BY <1>2, FrontFacts DEF AcquireIdle, Popped, TypeOK
  <2> QED BY <1>0, <2>1, <2>2, <2>3
<1>3. CASE AcquireSlot(c)
  <2>1. /\ UNCHANGED <<idle, buf>> /\ open' = open + 1 /\ Goto(c, "opening")
        /\ pc[c] \notin SlotPCs /\ "opening" \in SlotPCs
    BY <1>3 DEF AcquireSlot, Attempt, MayAttempt, SlotPCs
  <2>2. Cardinality(SlotCallers') = Cardinality(SlotCallers) + 1
        /\ LoadedChans' = LoadedChans
    BY <2>1, SlotMove DEF LoadedChans
  <2> QED BY <1>0, <2>1, <2>2
<1>4. CASE AcquireWait(c)
  <2>1. /\ UNCHANGED <<idle, open>> /\ Goto(c, "waiting")
        /\ pc[c] \notin SlotPCs /\ "waiting" \notin SlotPCs
    BY <1>4 DEF AcquireWait, Attempt, MayAttempt, SlotPCs
  <2>2. PICK ch \in Chans : buf[ch] \notin Conns /\ buf' = [buf EXCEPT ![ch] = "empty"]
    BY <1>4 DEF AcquireWait, FreshChans
  <2>3. SlotCallers' = SlotCallers /\ LoadedChans' = LoadedChans
    BY <2>1, <2>2, SlotMove, LoadMove DEF TypeOK
  <2> QED BY <1>0, <2>1, <2>3
<1>5. CASE ReceiveNil(c)
  <2>1. /\ UNCHANGED <<idle, open>> /\ Goto(c, "out")
        /\ pc[c] \notin SlotPCs /\ "out" \notin SlotPCs
        /\ chan[c] \in Chans /\ buf[chan[c]] \notin Conns
        /\ buf' = [buf EXCEPT ![chan[c]] = "empty"]
    BY <1>5 DEF ReceiveNil, Return, SlotPCs, poolVars, Handles
  <2>2. SlotCallers' = SlotCallers /\ LoadedChans' = LoadedChans
    BY <2>1, SlotMove, LoadMove DEF TypeOK
  <2> QED BY <1>0, <2>1, <2>2
<1>6. CASE ReceiveConn(c)
  <2>1. /\ UNCHANGED <<idle, open>> /\ Goto(c, "checking")
        /\ pc[c] \notin SlotPCs /\ "checking" \in SlotPCs
        /\ chan[c] \in Chans /\ buf[chan[c]] \in Conns
        /\ buf' = [buf EXCEPT ![chan[c]] = "empty"]
    BY <1>6 DEF ReceiveConn, SlotPCs, Handles
  <2>2. Cardinality(SlotCallers') = Cardinality(SlotCallers) + 1
    BY <2>1, SlotMove
  <2>3. Cardinality(LoadedChans') = Cardinality(LoadedChans) - 1
    BY <2>1, LoadMove DEF TypeOK
  <2> QED BY <1>0, <2>1, <2>2, <2>3
<1>7. CASE DiscardQuiet(c) \/ DiscardReplace(c) \/ ReleaseClose(c)
  <2>1. /\ UNCHANGED <<idle, buf>> /\ open' = open - 1
        /\ pc[c] \in SlotPCs /\ \E l \in PCs \ SlotPCs : Goto(c, l)
    BY <1>7 DEF DiscardQuiet, DiscardReplace, DiscardSlot, ReleaseClose, Return, SlotPCs
  <2>2. Cardinality(SlotCallers') = Cardinality(SlotCallers) - 1
        /\ LoadedChans' = LoadedChans
    BY <2>1, SlotMove DEF LoadedChans
  <2> QED BY <1>0, <2>1, <2>2
<1>8. CASE ReleaseHandoff(c)
  <2>1. /\ UNCHANGED <<idle, open>> /\ Goto(c, "out")
        /\ pc[c] \in SlotPCs /\ "out" \notin SlotPCs
        /\ waiters # <<>> /\ conn[c] \in Conns
        /\ buf' = [buf EXCEPT ![Head(waiters)] = conn[c]]
    BY <1>8 DEF ReleaseHandoff, Return, SlotPCs, Handles
  <2>2. Head(waiters) \in Chans /\ buf[Head(waiters)] = "empty"
    BY <2>1, TailFacts DEF TypeOK, OneAnswer
  <2>3. Cardinality(SlotCallers') = Cardinality(SlotCallers) - 1
    BY <2>1, SlotMove
  <2>4. Cardinality(LoadedChans') = Cardinality(LoadedChans) + 1
    BY <2>1, <2>2, LoadMove DEF TypeOK
  <2> QED BY <1>0, <2>1, <2>3, <2>4
<1>9. CASE ReleaseIdle(c)
  <2>1. /\ UNCHANGED <<open, buf>> /\ Goto(c, "out")
        /\ pc[c] \in SlotPCs /\ "out" \notin SlotPCs
        /\ conn[c] \in Conns /\ idle' = Append(idle, conn[c])
    BY <1>9 DEF ReleaseIdle, Return, SlotPCs, Handles
  <2>2. Cardinality(SlotCallers') = Cardinality(SlotCallers) - 1
        /\ LoadedChans' = LoadedChans
    BY <2>1, SlotMove DEF LoadedChans
  <2>3. Len(idle') = Len(idle) + 1
    BY <2>1, AppendFacts DEF TypeOK
  <2> QED BY <1>0, <2>1, <2>2, <2>3
<1> QED BY <1>1, <1>2, <1>3, <1>4, <1>5, <1>6, <1>7, <1>8, <1>9 DEF CallerStep

(* The other steps: a replacement that succeeds takes a slot, one that fails   *)
(* lowers open and is recorded in cancelled; TakeAll moves the idle entries,   *)
(* Drain gives theirs up, Close leaves them counted, the reaper gives up as    *)
(* many as it closes.                                                          *)
LEMMA SlotsOthers ==
    ASSUME TypeOK, IsInjective(idle), OneAnswer, NothingTakenYet,
           \/ \E w \in Chans : ReplaceStep(w)
           \/ \E g \in Watchers : WatchStep(g)
           \/ ShutStep
    PROVE  (open' + cancelled') - (open + cancelled) = Slots' - Slots
           /\ NothingTakenYet'
<1>t. /\ Len(idle) \in Int /\ Cardinality(SlotCallers) \in Int
      /\ Cardinality(LoadedChans) \in Int /\ Cardinality(taken["Drain"]) \in Int
      /\ Cardinality(taken["Close"]) \in Int /\ open \in Int /\ cancelled \in Int
  BY SlotsFinite
<1> USE <1>t DEF Slots
<1>1. ASSUME NEW w \in Chans, ReplaceStep(w)
      PROVE  (open' + cancelled') - (open + cancelled) = Slots' - Slots
             /\ UNCHANGED <<spc, taken>>
  <2>0. UNCHANGED <<idle, pc, spc, taken>>
    BY <1>1 DEF ReplaceStep, ReplaceOK, ReplaceClosed, ReplaceFails, ReplaceCancel,
       poolVars, callerVars, shutVars
  <2>1. SlotCallers' = SlotCallers
    BY <2>0 DEF SlotCallers
  <2>2. CASE ReplaceOK(w)
    <3>1. /\ buf[w] = "empty" /\ open' = open + 1 /\ cancelled' = cancelled
          /\ \E k \in Conns : buf' = [buf EXCEPT ![w] = k]
      BY <2>2 DEF ReplaceOK, OneAnswer
    <3>2. Cardinality(LoadedChans') = Cardinality(LoadedChans) + 1
      BY <3>1, LoadMove DEF TypeOK
    <3> QED BY <2>0, <2>1, <3>1, <3>2
  <2>3. CASE ReplaceClosed(w) \/ ReplaceFails(w)
    <3>1. /\ buf[w] = "empty" /\ UNCHANGED <<open, cancelled>> /\ AnswerNil({w})
      BY <2>3 DEF ReplaceClosed, ReplaceFails, OneAnswer, poolVars
    <3>2. LoadedChans' = LoadedChans
      BY <3>1, LoadNil
    <3> QED BY <2>0, <2>1, <3>1, <3>2
  <2>4. CASE ReplaceCancel(w)
    <3>1. /\ buf' = buf
          /\ \/ UNCHANGED <<open, cancelled>>
             \/ open' = open - 1 /\ cancelled' = cancelled + 1
      BY <2>4 DEF ReplaceCancel
    <3>2. LoadedChans' = LoadedChans
      BY <3>1 DEF LoadedChans
    <3> QED BY <2>0, <2>1, <3>1, <3>2
  <2> QED BY <1>1, <2>2, <2>3, <2>4 DEF ReplaceStep
<1>2. CASE \/ \E g \in Watchers : WatchStep(g)
           \/ DrainSkip \/ WaitIdle \/ ReaperExits
  <2>1. /\ UNCHANGED <<idle, open, cancelled, buf, pc, taken>>
        /\ \A s \in Shutters : spc'[s] = "ready" => spc[s] = "ready"
    BY <1>2 DEF WatchStep, Watch, WatchReturns, WatchExpires, DrainSkip, WaitIdle,
       ReaperExits, poolVars, callerVars, shutVars, TypeOK
  <2> QED BY <2>1 DEF NothingTakenYet, SlotCallers, LoadedChans
<1>3. ASSUME NEW s \in Shutters, spc[s] = "ready", TakeAll(s),
             UNCHANGED <<open, cancelled, buf, pc>>
      PROVE  (open' + cancelled') - (open + cancelled) = Slots' - Slots
             /\ NothingTakenYet'
  <2>1. /\ idle' = <<>> /\ taken' = [taken EXCEPT ![s] = ToSet(idle)]
        /\ spc' = [spc EXCEPT ![s] = "taken"]
    BY <1>3 DEF TakeAll
  <2>2. Len(idle') = 0 /\ Cardinality(ToSet(idle)) = Len(idle)
    BY <2>1, InjectiveCard DEF TypeOK
  <2>3. Cardinality(taken[s]) = 0
    BY <1>3, FS_EmptySet DEF NothingTakenYet
  <2>4. /\ Cardinality(taken'[s]) = Len(idle)
        /\ \A r \in Shutters \ {s} : taken'[r] = taken[r]
    BY <2>1, <2>2 DEF TypeOK
  <2>5. SlotCallers' = SlotCallers /\ LoadedChans' = LoadedChans
    BY <1>3 DEF SlotCallers, LoadedChans
  <2>6. Slots' = Slots
    <3>1. CASE s = "Drain"
      BY <2>2, <2>3, <2>4, <2>5, <3>1
    <3>2. CASE s = "Close"
      BY <2>2, <2>3, <2>4, <2>5, <3>2
    <3> QED BY <3>1, <3>2
  <2>7. NothingTakenYet'
    BY <2>1 DEF NothingTakenYet, TypeOK
  <2> QED BY <1>3, <2>6, <2>7
<1>4. CASE DrainBegin \/ CloseBegin
  BY <1>3, <1>4 DEF DrainBegin, CloseBegin, callerVars
<1>5. CASE DrainFinish
  <2>1. /\ UNCHANGED <<idle, pc, cancelled>> /\ AnswerNil(owed["Drain"])
        /\ open' = open - Cardinality(taken["Drain"])
        /\ taken' = [taken EXCEPT !["Drain"] = {}]
        /\ spc' = [spc EXCEPT !["Drain"] = "waiting"]
    BY <1>5 DEF DrainFinish, DrainedSlots, callerVars
  <2>2. SlotCallers' = SlotCallers /\ LoadedChans' = LoadedChans
    BY <2>1, LoadNil DEF SlotCallers, OneAnswer
  <2>3. Cardinality(taken'["Drain"]) = 0 /\ taken'["Close"] = taken["Close"]
    BY <2>1, FS_EmptySet DEF TypeOK
  <2>4. NothingTakenYet'
    BY <2>1 DEF NothingTakenYet, TypeOK
  <2>5. idle' = idle /\ cancelled' = cancelled /\ open' = open - Cardinality(taken["Drain"])
    BY <2>1
  <2>6. (open' + cancelled') - (open + cancelled) = Slots' - Slots
    BY <2>2, <2>3, <2>5
  <2> QED BY <2>4, <2>6
<1>6. CASE CloseFinish
  <2>1. /\ UNCHANGED <<idle, pc, cancelled, open, taken>> /\ AnswerNil(owed["Close"])
        /\ spc' = [spc EXCEPT !["Close"] = "returned"]
    BY <1>6 DEF CloseFinish, callerVars, poolVars
  <2>2. SlotCallers' = SlotCallers /\ LoadedChans' = LoadedChans
    BY <2>1, LoadNil DEF SlotCallers, OneAnswer
  <2>3. NothingTakenYet'
    BY <2>1 DEF NothingTakenYet, TypeOK
  <2> QED BY <2>1, <2>2, <2>3
<1>7. CASE EvictIdle
  <2>1. PICK n \in (MinIdle + 1)..Len(idle) :
          /\ idle' = SubSeq(idle, 1, MinIdle) \o SubSeq(idle, n + 1, Len(idle))
          /\ open' = open - (n - MinIdle)
    BY <1>7 DEF EvictIdle, Survivors
  <2>2. UNCHANGED <<pc, buf, cancelled, taken, spc>>
    BY <1>7 DEF EvictIdle, callerVars, shutVars
  <2>3. n \in Nat /\ MinIdle \in Nat /\ MinIdle <= n /\ n <= Len(idle)
        /\ idle \in Seq(Conns)
    BY DEF TypeOK
  <2>4. Len(idle') = Len(idle) - (n - MinIdle)
    <3>1. Len(SubSeq(idle, 1, MinIdle) \o SubSeq(idle, n + 1, Len(idle)))
            = Len(idle) - (n - MinIdle)
      BY <2>3, CutLen, Zenon
    <3> QED BY <2>1, <3>1, Zenon
  <2>5. SlotCallers' = SlotCallers /\ LoadedChans' = LoadedChans
    BY <2>2 DEF SlotCallers, LoadedChans
  <2>6. NothingTakenYet'
    BY <2>2 DEF NothingTakenYet
  <2>7. Slots' = Slots - (n - MinIdle)
    <3>1. taken'["Drain"] = taken["Drain"] /\ taken'["Close"] = taken["Close"]
      BY <2>2
    <3>2. n - MinIdle \in Int /\ Len(idle') = Len(idle) - (n - MinIdle)
      BY <2>3, <2>4
    <3> DEFINE k == n - MinIdle
    <3> HIDE DEF k
    <3>4. k \in Int /\ Len(idle') = Len(idle) - k
      BY <3>2 DEF k
    <3>5. Slots' = Slots - k
      BY <2>5, <3>1, <3>4
    <3> QED BY <3>5 DEF k
  <2> HIDE DEF Slots
  <2>8. open' + cancelled' = (open + cancelled) - (n - MinIdle) /\ Slots \in Int
    BY <2>1, <2>2, <2>3 DEF Slots
  <2>9. (open' + cancelled') - (open + cancelled) = Slots' - Slots
    BY <2>3, <2>7, <2>8
  <2> QED BY <2>6, <2>9
<1>8. ASSUME UNCHANGED <<spc, taken>> PROVE NothingTakenYet'
  BY <1>8 DEF NothingTakenYet
<1> QED BY <1>1, <1>2, <1>4, <1>5, <1>6, <1>7, <1>8 DEF ShutStep

(* open, which acquireOnce compares with MaxConns, is exact up to the one      *)
(* slot each failed replacement of discard() takes off it, for any number of   *)
(* callers and channels: it counts the idle entries, the callers between       *)
(* reserving and giving up a slot, the entries in transit in a waiter's        *)
(* channel, and what Drain has yet to close and Close never subtracts.  Every  *)
(* entry is counted once because no client is in two places (ExclusiveUse) and *)
(* an answer is only ever sent to an empty channel (OneAnswer).                *)
THEOREM OpenTheorem == Spec => []OpenAccounting
<1>0. OpenAccounting <=> open + cancelled = Slots
  BY DEF OpenAccounting, Slots, SlotCallers, SlotPCs, LoadedChans
<1>1. Init => OpenAccounting /\ NothingTakenYet
  <2> SUFFICES ASSUME Init PROVE open + cancelled = Slots /\ NothingTakenYet
    BY <1>0
  <2>1. /\ SlotCallers = {} /\ LoadedChans = {} /\ taken["Drain"] = {}
        /\ taken["Close"] = {} /\ open = MinIdle /\ cancelled = 0
    BY DEF Init, SlotCallers, SlotPCs, LoadedChans
  <2>2. Len(idle) = MinIdle
    BY LenProperties, TypeInit DEF Init, TypeOK
  <2>3. NothingTakenYet
    BY DEF Init, NothingTakenYet
  <2> QED BY <2>1, <2>2, <2>3, FS_EmptySet DEF Slots
<1>2. /\ TypeOK /\ Handles /\ ExclusiveUse /\ OneAnswer /\ TypeOK'
      /\ OpenAccounting /\ NothingTakenYet /\ [Next]_vars
      => (OpenAccounting /\ NothingTakenYet)'
  <2> SUFFICES ASSUME TypeOK, Handles, ExclusiveUse, OneAnswer, TypeOK',
                      open + cancelled = Slots, NothingTakenYet, [Next]_vars
               PROVE  open' + cancelled' = Slots' /\ NothingTakenYet'
    BY <1>0 DEF OpenAccounting, Slots, SlotCallers, SlotPCs, LoadedChans
  <2>0. IsInjective(idle)
    BY DEF ExclusiveUse
  <2>1. Slots \in Int /\ Slots' \in Int /\ open \in Int /\ open' \in Int
        /\ cancelled \in Int /\ cancelled' \in Int
    <3>1. Slots \in Int
      BY SlotsFinite DEF Slots
    <3>2. Slots' \in Int
      <4>1. SlotCallers' = {c \in Callers : pc'[c] \in SlotPCs}
            /\ LoadedChans' = {ch \in Chans : buf'[ch] \in Conns}
        BY DEF SlotCallers, LoadedChans
      <4>2. IsFiniteSet(SlotCallers') /\ IsFiniteSet(LoadedChans')
            /\ IsFiniteSet(taken'["Drain"]) /\ IsFiniteSet(taken'["Close"])
        BY <4>1, FS_Subset DEF TypeOK
      <4>3. Len(idle') \in Nat
        BY DEF TypeOK
      <4> QED BY <4>2, <4>3, FS_CardinalityType DEF Slots
    <3> QED BY <3>1, <3>2 DEF TypeOK
  <2>5. ASSUME (open' + cancelled') - (open + cancelled) = Slots' - Slots
        PROVE  open' + cancelled' = Slots'
    BY <2>1, <2>5, Balance, Zenon
  <2>2. CASE UNCHANGED vars
    BY <2>2 DEF vars, poolVars, callerVars, shutVars, Slots, SlotCallers, LoadedChans,
       NothingTakenYet
  <2>3. ASSUME NEW c \in Callers, CallerStep(c)
        PROVE  open' + cancelled' = Slots' /\ NothingTakenYet'
    <3>1. (open' + cancelled') - (open + cancelled) = Slots' - Slots
      BY <2>0, <2>3, SlotsCaller
    <3>2. open' + cancelled' = Slots'
      BY <2>5, <3>1
    <3>3. NothingTakenYet'
      BY <2>0, <2>3, SlotsCaller DEF NothingTakenYet
    <3> QED BY <3>2, <3>3
  <2>4. CASE \/ \E w \in Chans : ReplaceStep(w)
             \/ \E g \in Watchers : WatchStep(g)
             \/ ShutStep
    <3>1. (open' + cancelled') - (open + cancelled) = Slots' - Slots
          /\ NothingTakenYet'
      BY <2>0, <2>4, SlotsOthers
    <3>2. open' + cancelled' = Slots'
      BY <2>5, <3>1
    <3> QED BY <3>1, <3>2
  <2> QED BY <2>2, <2>3, <2>4, NextCases
<1> QED BY <1>1, <1>2, TypeCorrect, ExclusiveUseTheorem, AnswersTheorem, PTL DEF Spec

=============================================================================
