---------------------------- MODULE QueryProofs ----------------------------
(***************************************************************************)
(* Proofs about Query.tla, for any number of calls, rows, attempts and     *)
(* CancelRequests, any buffering and any configuration: what a call        *)
(* delivers, what it leaves on the wire, and that the calls implement      *)
(* Call.tla.                                                               *)
(*                                                                         *)
(* The invariant is about what is still to be read of the answer to the    *)
(* request sent last.  Each message is related to the one before it        *)
(* (Follows), and the first one to what the reader has read so far         *)
(* (ComesNext); so the relation survives a message read, a message sent, a *)
(* CancelRequest that replaces what is left, and a connection that breaks. *)
(***************************************************************************)
EXTENDS Query, SequenceTheorems, TLAPS

Ids == Nat \X Nat
Names == {"RowDescription", "NoData", "BindComplete", "CommandComplete", "EmptyQuery",
          "ReadyForQuery", "header", "footer"}
Messages == [t: Names] \cup [t: {"Error"}, code: Codes]
              \cup [t: {"DataRow"}, id: Ids, i: Nat]
Requests == [kind: Kinds, id: Ids]

-----------------------------------------------------------------------------
(* The answer to a request of kind k with the id id *)

\* What comes before the rows of a result.
Opening(k) == IF k = "execute" THEN "BindComplete" ELSE "RowDescription"
Tabular == {"execute", "simple"}

\* Message b may stand directly behind message a; m is the number of rows.
Follows(m, k, id, a, b) ==
    \/ /\ b.t = "DataRow" /\ k \in Tabular /\ b.id = id /\ b.i \in 1..m
       /\ \/ a.t = Opening(k) /\ b.i = 1
          \/ a.t = "DataRow" /\ b.i = a.i + 1
    \/ /\ b.t = "CommandComplete" /\ k \in Tabular
       /\ \/ a.t = Opening(k) /\ m = 0
          \/ a.t = "DataRow" /\ a.i = m
    \/ /\ b.t = "Error" /\ b.code # StaleStmt
       /\ a.t \in {"BindComplete", "RowDescription", "DataRow"}
    \/ /\ b.t = "ReadyForQuery"
       /\ \/ a.t \in {"CommandComplete", "Error", "NoData", "EmptyQuery"}
          \/ a.t = "RowDescription" /\ k = "prepare"

Chain(m, k, id, s) == \A j \in 1..Len(s) : j > 1 => Follows(m, k, id, s[j - 1], s[j])

\* Message b may come next when n rows were read, and the error e ("none": no
\* error).
ComesNext(m, k, id, n, e, b) ==
    \/ b.t = "ReadyForQuery" /\ (e = "none" /\ k \in Tabular => n = m)
    \/ e = "none" /\ b.t = "Error" /\ (b.code = StaleStmt => n = 0)
    \/ e = "none" /\ k \in Tabular /\ b.t = Opening(k) /\ n = 0
    \/ e = "none" /\ k \in Tabular /\ b.t = "DataRow" /\ b.id = id /\ b.i = n + 1 /\ n < m
    \/ e = "none" /\ k \in Tabular /\ b.t = "CommandComplete" /\ n = m
    \/ e = "none" /\ k = "prepare" /\ b.t \in {"RowDescription", "NoData"}
    \/ e = "none" /\ k = "ping" /\ b.t = "EmptyQuery"

\* What is left of the answer, in the socket and still to be sent.
Unread == inbox \o reply

\* The request waits to be served, or it was served and what is left is the rest
\* of its answer.  A reader that skims to ReadyForQuery does not care what
\* comes first.
Waiting(k, id, n, e) ==
    /\ reqs # <<>> /\ reqs = <<reqs[1]>> /\ reqs[1].id = id /\ reqs[1].kind \in {k, "garbage"}
    /\ reply = <<>> /\ inbox = <<>> /\ n = 0 /\ e = "none"

Answered(k, id, n, e, skims) ==
    /\ reqs = <<>> /\ Chain(made, k, id, Unread)
    /\ Unread # <<>> /\ ~skims => ComesNext(made, k, id, n, e, Unread[1])

-----------------------------------------------------------------------------
(* The invariant *)

Id == <<call, sends>>

\* The kind of the request the call sent last.
Asked ==
    IF pc = "describe" THEN "prepare"
    ELSE IF path \in {"ping", "simple"} THEN path ELSE "execute"

SessionTypes ==
    /\ reqs \in Seq(Requests) /\ reply \in Seq(Messages) /\ inbox \in Seq(Messages)
    /\ made \in Nat /\ alive \in BOOLEAN

QueryTypes ==
    /\ out \in Seq(Messages) /\ sent \in Seq(Messages)
    /\ rowCount \in Nat /\ call \in Nat /\ sends \in Nat
    /\ clean \in BOOLEAN /\ pgError \in Codes \cup {"none"}
    /\ pc \in {"idle", "send", "bind", "backoff", "detach"} \cup Reading
    /\ result \in Results

\* Which reader a path uses, and when a call has its result.
Control ==
    /\ pc = "text" => path = "simple"
    /\ pc = "ping" => path = "ping"
    /\ pc = "execute" => path = "cached"
    /\ pc = "abort" => path \in {"cached", "simple"}
    /\ pc \notin {"detach", "idle"} => result = "none"
    /\ pc = "detach" => result # "none"

\* No deadline without the watcher that set it, no watcher between calls.
Watching ==
    /\ past => watcher = "exited"
    /\ pc = "idle" => watcher = "none"

\* Outside a reader nothing is on the wire, unless the call returned an error
\* that says so.
Settled ==
    clean /\ \/ pc \in {"send", "bind", "backoff"}
             \/ pc \in {"detach", "idle"} /\ result \notin {"broken", "lost"}
        => WireClean

\* A reader is somewhere in the answer to the request sent last.
InAnswer ==
    clean /\ pc \in Reading =>
        \/ Waiting(Asked, Id, rowCount, pgError) /\ pc # "abort"
        \/ Answered(Asked, Id, rowCount, pgError, pc = "abort")

\* The output of n rows without its footer, what is still missing in front of
\* the next row, and the output of a whole result.
Body(id, n) == IF n = 0 THEN <<>> ELSE Header \o Rows(id, n)
Due(n) == IF n = 0 THEN Header ELSE <<>>
Whole(id, m) == Header \o Rows(id, m) \o Footer

\* Nothing is delivered or buffered before a reader of rows runs; then it is
\* the output of the rows read so far; and what a call that is over leaves is
\* a beginning of the output of a request that was served.
Output ==
    /\ pc \in {"send", "bind", "backoff", "describe", "ping"} => sent = <<>> /\ out = <<>>
    /\ clean /\ pc \in {"execute", "text", "abort"} =>
         /\ sent \o out = Body(Id, rowCount)
         /\ reqs = <<>> => rowCount <= made
    /\ clean /\ pc \in {"detach", "idle"} =>
         /\ IsPrefix(sent \o out, FullOutput)
         /\ reqs # <<>> => sent = <<>> /\ out = <<>>
         /\ result = "ok" /\ path # "ping" => sent = FullOutput /\ out = <<>>

QueryInv == SessionTypes /\ QueryTypes /\ Control /\ Watching /\ Settled /\ InAnswer /\ Output

-----------------------------------------------------------------------------
(* The unread rest of an answer, in its two parts *)

(* Reading the first message of the socket reads the first unread one.     *)
LEMMA ReadUnread ==
    ASSUME NEW S, NEW a \in Seq(S), NEW b \in Seq(S), a # <<>>
    PROVE  /\ a \o b \in Seq(S) /\ a \o b # <<>> /\ (a \o b)[1] = Head(a)
           /\ Tail(a) \in Seq(S) /\ Tail(a) \o b = Tail(a \o b)
<1> DEFINE s == a \o b
<1>1. /\ Len(a) \in Nat /\ Len(a) >= 1 /\ Len(b) \in Nat /\ Head(a) = a[1]
      /\ Tail(a) \in Seq(S) /\ Len(Tail(a)) = Len(a) - 1
      /\ \A i \in 1..Len(a) - 1 : Tail(a)[i] = a[i + 1]
  BY EmptySeq
<1>2. /\ s \in Seq(S) /\ Len(s) = Len(a) + Len(b)
      /\ \A i \in 1..Len(a) + Len(b) : s[i] = IF i <= Len(a) THEN a[i] ELSE b[i - Len(a)]
  BY ConcatProperties
<1>3. s # <<>> /\ s[1] = Head(a)
  BY <1>1, <1>2
<1>4. /\ Tail(s) \in Seq(S) /\ Len(Tail(s)) = Len(s) - 1
      /\ \A i \in 1..Len(s) - 1 : Tail(s)[i] = s[i + 1]
  BY <1>2, <1>3, HeadTailProperties
<1>5. /\ Tail(a) \o b \in Seq(S) /\ Len(Tail(a) \o b) = Len(a) - 1 + Len(b)
      /\ \A i \in 1..(Len(a) - 1 + Len(b)) :
           (Tail(a) \o b)[i] = IF i <= Len(a) - 1 THEN Tail(a)[i] ELSE b[i - (Len(a) - 1)]
  BY <1>1, ConcatProperties
<1>6. Len(Tail(a) \o b) = Len(Tail(s))
  BY <1>1, <1>2, <1>4, <1>5
<1>7. \A i \in 1..Len(Tail(a) \o b) : (Tail(a) \o b)[i] = Tail(s)[i]
  <2> SUFFICES ASSUME NEW i \in 1..(Len(a) - 1 + Len(b))
               PROVE  (Tail(a) \o b)[i] = Tail(s)[i]
    BY <1>5
  <2>1. Tail(s)[i] = s[i + 1] /\ i + 1 \in 1..Len(a) + Len(b)
    BY <1>1, <1>2, <1>4
  <2>2. CASE i <= Len(a) - 1
    BY <1>1, <1>2, <1>5, <2>1, <2>2
  <2>3. CASE ~(i <= Len(a) - 1)
    <3>1. i - (Len(a) - 1) = i + 1 - Len(a) /\ ~(i + 1 <= Len(a))
      BY <1>1, <2>3
    <3> QED BY <1>2, <1>5, <2>1, <2>3, <3>1
  <2> QED BY <2>2, <2>3
<1> QED BY <1>1, <1>2, <1>3, <1>4, <1>5, <1>6, <1>7, SeqEqual

(* Sending a message moves it from one part to the other.                  *)
LEMMA EmitUnread ==
    ASSUME NEW S, NEW a \in Seq(S), NEW b \in Seq(S), b # <<>>
    PROVE  /\ Append(a, Head(b)) \in Seq(S) /\ Tail(b) \in Seq(S)
           /\ Append(a, Head(b)) \o Tail(b) = a \o b
<1>1. Head(b) \in S /\ Tail(b) \in Seq(S)
  BY HeadTailProperties
<1>2. Append(a, Head(b)) = a \o <<Head(b)>> /\ <<Head(b)>> \in Seq(S)
      /\ Append(a, Head(b)) \in Seq(S)
  BY <1>1, AppendIsConcat, AppendProperties
<1>3. <<Head(b)>> \o Tail(b) = b
  <2>1. Len(b) \in Nat /\ Len(b) >= 1 /\ Head(b) = b[1] /\ Len(Tail(b)) = Len(b) - 1
        /\ \A i \in 1..Len(b) - 1 : Tail(b)[i] = b[i + 1]
    BY EmptySeq
  <2> DEFINE h == <<Head(b)>>
             s == h \o Tail(b)
  <2>2. h \in Seq(S) /\ Len(h) = 1 /\ h[1] = b[1]
    BY <1>2, <2>1
  <2> HIDE DEF h
  <2>3. /\ s \in Seq(S) /\ Len(s) = Len(b)
        /\ \A i \in 1..Len(b) : s[i] = IF i <= 1 THEN h[i] ELSE Tail(b)[i - 1]
    <3>1. /\ s \in Seq(S) /\ Len(s) = Len(h) + Len(Tail(b))
          /\ \A i \in 1..Len(h) + Len(Tail(b)) :
               s[i] = IF i <= Len(h) THEN h[i] ELSE Tail(b)[i - Len(h)]
      BY <1>1, <2>2, ConcatProperties
    <3>2. Len(h) + Len(Tail(b)) = Len(b) /\ Len(h) = 1
      BY <2>1, <2>2
    <3> QED BY <3>1, <3>2, Zenon
  <2>4. \A i \in 1..Len(b) : s[i] = b[i]
    <3> SUFFICES ASSUME NEW i \in 1..Len(b) PROVE s[i] = b[i]
      OBVIOUS
    <3>1. CASE i = 1
      BY <2>1, <2>2, <2>3, <3>1
    <3>2. CASE i # 1
      <4>1. i - 1 \in 1..Len(b) - 1 /\ i - 1 + 1 = i /\ ~(i <= 1)
        BY <2>1, <3>2
      <4>2. s[i] = Tail(b)[i - 1] /\ Tail(b)[i - 1] = b[i - 1 + 1]
        BY <2>1, <2>3, <4>1
      <4> QED BY <4>1, <4>2
    <3> QED BY <3>1, <3>2
  <2>5. s = b
    BY <2>1, <2>3, <2>4, SeqEqual
  <2> QED BY <2>5 DEF h
<1> QED BY <1>1, <1>2, <1>3, ConcatAssociative

(* What is behind a message that was read.                                 *)
LEMMA ChainTail ==
    ASSUME NEW S, NEW s \in Seq(S), s # <<>>, NEW m, NEW k, NEW id, Chain(m, k, id, s)
    PROVE  /\ Chain(m, k, id, Tail(s))
           /\ Tail(s) # <<>> => Follows(m, k, id, s[1], Tail(s)[1])
<1>1. /\ Len(s) \in Nat /\ Len(s) >= 1 /\ Tail(s) \in Seq(S) /\ Len(Tail(s)) = Len(s) - 1
      /\ \A i \in 1..Len(s) - 1 : Tail(s)[i] = s[i + 1]
  BY EmptySeq
<1>2. ASSUME NEW j \in 1..Len(Tail(s)), j > 1
      PROVE  Follows(m, k, id, Tail(s)[j - 1], Tail(s)[j])
  <2>1. /\ j + 1 \in 1..Len(s) /\ j + 1 > 1 /\ j + 1 - 1 = j /\ j - 1 + 1 = j
        /\ j - 1 \in 1..Len(s) - 1 /\ j \in 1..Len(s) - 1
    BY <1>1, <1>2
  <2>2. Tail(s)[j] = s[j + 1] /\ Tail(s)[j - 1] = s[j]
    BY <1>1, <2>1
  <2>3. Follows(m, k, id, s[j], s[j + 1])
    BY <2>1 DEF Chain
  <2> QED BY <2>2, <2>3
<1>3. ASSUME Tail(s) # <<>> PROVE Follows(m, k, id, s[1], Tail(s)[1])
  <2>1. 1 \in 1..Len(s) - 1 /\ 2 \in 1..Len(s)
    BY <1>1, <1>3, EmptySeq
  <2>2. Tail(s)[1] = s[1 + 1] /\ 1 + 1 = 2
    BY <1>1, <2>1
  <2>3. 2 > 1 /\ 2 - 1 = 1
    OBVIOUS
  <2>4. Follows(m, k, id, s[2 - 1], s[2])
    BY <2>1, <2>3, Zenon DEF Chain
  <2> QED BY <2>2, <2>3, <2>4, Zenon
<1> QED BY <1>2, <1>3 DEF Chain

(* What a connection that breaks had already sent.                         *)
LEMMA ChainPrefix ==
    ASSUME NEW S, NEW a \in Seq(S), NEW b \in Seq(S), NEW m, NEW k, NEW id,
           Chain(m, k, id, a \o b)
    PROVE  Chain(m, k, id, a) /\ (a # <<>> => (a \o b)[1] = a[1])
<1>1. /\ Len(a) \in Nat /\ Len(b) \in Nat /\ Len(a \o b) = Len(a) + Len(b)
      /\ \A i \in 1..Len(a) + Len(b) : (a \o b)[i] = IF i <= Len(a) THEN a[i] ELSE b[i - Len(a)]
  BY ConcatProperties
<1>2. \A i \in 1..Len(a) : i \in 1..Len(a \o b) /\ (a \o b)[i] = a[i]
  BY <1>1
<1>3. \A j \in 1..Len(a) : j > 1 => j - 1 \in 1..Len(a)
  BY <1>1
<1>4. a # <<>> => 1 \in 1..Len(a)
  BY EmptySeq
<1> QED BY <1>2, <1>3, <1>4 DEF Chain

(* Nothing stands behind a ReadyForQuery.                                  *)
LEMMA ReadyIsLast ==
    ASSUME NEW S, NEW s \in Seq(S), s # <<>>, NEW m, NEW k, NEW id, Chain(m, k, id, s),
           s[1].t = "ReadyForQuery"
    PROVE  Tail(s) = <<>>
<1>1. Tail(s) # <<>> => Follows(m, k, id, s[1], Tail(s)[1])
  BY ChainTail
<1> QED BY <1>1 DEF Follows, Opening

(* A reader that has read message a knows what may come next.              *)
LEMMA Advance ==
    ASSUME NEW m \in Nat, NEW k, NEW id, NEW n \in Nat, NEW e, NEW a, NEW b,
           ComesNext(m, k, id, n, e, a), Follows(m, k, id, a, b)
    PROVE  /\ a.t = "DataRow" => ComesNext(m, k, id, n + 1, e, b)
           /\ a.t \notin {"DataRow", "Error"} => ComesNext(m, k, id, n, e, b)
           /\ a.t = "Error" => \A c : c # "none" => ComesNext(m, k, id, n, c, b)
<1>1. CASE b.t = "DataRow"
  BY <1>1 DEF ComesNext, Follows, Opening, Tabular
<1>2. CASE b.t = "CommandComplete"
  BY <1>2 DEF ComesNext, Follows, Opening, Tabular
<1>3. CASE b.t = "Error"
  BY <1>3 DEF ComesNext, Follows, Opening, Tabular
<1>4. CASE b.t = "ReadyForQuery"
  BY <1>4 DEF ComesNext, Follows, Opening, Tabular
<1> QED BY <1>1, <1>2, <1>3, <1>4 DEF Follows

(* Messages and requests have their types.                                 *)
LEMMA MessageFacts ==
    /\ \A t \in Names : Msg(t) \in Messages /\ Msg(t).t = t
    /\ Ready \in Messages /\ Ready.t = "ReadyForQuery"
    /\ \A c \in Codes : Err(c) \in Messages /\ Err(c).t = "Error" /\ Err(c).code = c
    /\ \A id \in Ids, i \in Nat :
         /\ Row(id, i) \in Messages
         /\ Row(id, i).t = "DataRow" /\ Row(id, i).id = id /\ Row(id, i).i = i
<1>1. \A t \in Names : Msg(t) \in Messages /\ Msg(t).t = t
  BY DEF Msg, Messages
<1>2. Ready \in Messages /\ Ready.t = "ReadyForQuery"
  <2>1. "ReadyForQuery" \in Names
    BY DEF Names
  <2> QED BY <1>1, <2>1, Zenon DEF Ready
<1>3. \A c \in Codes : Err(c) \in Messages /\ Err(c).t = "Error" /\ Err(c).code = c
  BY DEF Err, Messages
<1>4. ASSUME NEW id \in Ids, NEW i \in Nat
      PROVE  /\ Row(id, i) \in Messages
             /\ Row(id, i).t = "DataRow" /\ Row(id, i).id = id /\ Row(id, i).i = i
  BY DEF Row, Messages
<1> QED BY <1>1, <1>2, <1>3, <1>4

(* An answer of two messages.                                              *)
LEMMA PairFacts ==
    ASSUME NEW S, NEW x \in S, NEW y \in S
    PROVE  /\ <<x, y>> \in Seq(S) /\ Len(<<x, y>>) = 2 /\ <<x, y>> # <<>>
           /\ <<x, y>>[1] = x /\ <<x, y>>[2] = y
           /\ \A m, k, id : Follows(m, k, id, x, y) => Chain(m, k, id, <<x, y>>)
<1> DEFINE p == <<x, y>>
<1>1. p \in Seq(S) /\ Len(p) = 2 /\ p[1] = x /\ p[2] = y /\ p # <<>>
  OBVIOUS
<1> HIDE DEF p
<1>2. \A j \in 1..2 : j > 1 => j = 2 /\ j - 1 = 1
  OBVIOUS
<1>3. ASSUME NEW m, NEW k, NEW id, Follows(m, k, id, x, y) PROVE Chain(m, k, id, p)
  <2> SUFFICES ASSUME NEW j \in 1..2, j > 1 PROVE Follows(m, k, id, p[j - 1], p[j])
    BY <1>1 DEF Chain
  <2> QED BY <1>1, <1>2, <1>3, Zenon
<1> QED BY <1>1, <1>3 DEF p

(* A CancelRequest that finds the backend before the end of its answer     *)
(* replaces what is left by an error.                                      *)
LEMMA ChainCancel ==
    ASSUME NEW a \in Seq(Messages), NEW b \in Seq(Messages), NEW m, NEW k, NEW id,
           Chain(m, k, id, a \o b), b # <<>>,
           Head(b).t \notin {"CommandComplete", "Error", "ReadyForQuery"}
    PROVE  LET s == a \o <<Err(Canceled), Ready>> IN
           /\ Chain(m, k, id, s) /\ s # <<>>
           /\ a # <<>> => s[1] = a[1] /\ (a \o b)[1] = a[1]
           /\ a = <<>> => s[1] = Err(Canceled) /\ (a \o b)[1] = Head(b)
<1> DEFINE p == <<Err(Canceled), Ready>>
           s == a \o p
<1>1. /\ Err(Canceled) \in Messages /\ Err(Canceled).t = "Error"
      /\ Err(Canceled).code # StaleStmt
      /\ Ready \in Messages /\ Ready.t = "ReadyForQuery"
  BY MessageFacts DEF Codes, Canceled, StaleStmt
<1>2. p \in Seq(Messages) /\ Len(p) = 2 /\ p[1] = Err(Canceled) /\ p[2] = Ready
  BY <1>1, PairFacts
<1> HIDE DEF p
<1>3. /\ Len(a) \in Nat /\ Len(b) \in Nat /\ Len(b) >= 1 /\ Head(b) = b[1]
      /\ (a # <<>> => Len(a) >= 1) /\ (a = <<>> => Len(a) = 0)
  BY EmptySeq
<1>4. /\ Len(a \o b) = Len(a) + Len(b)
      /\ \A i \in 1..Len(a) + Len(b) : (a \o b)[i] = IF i <= Len(a) THEN a[i] ELSE b[i - Len(a)]
  BY ConcatProperties
<1>5. /\ s \in Seq(Messages) /\ Len(s) = Len(a) + Len(p)
      /\ \A i \in 1..Len(a) + Len(p) : s[i] = IF i <= Len(a) THEN a[i] ELSE p[i - Len(a)]
  BY <1>2, ConcatProperties
<1>6. Len(s) = Len(a) + 2 /\ s[Len(a) + 1] = Err(Canceled) /\ s[Len(a) + 2] = Ready
      /\ \A i \in 1..Len(a) : s[i] = a[i]
  BY <1>2, <1>3, <1>5
<1>7. /\ \A i \in 1..Len(a) : (a \o b)[i] = a[i] /\ i \in 1..Len(a \o b)
      /\ (a \o b)[Len(a) + 1] = Head(b) /\ Len(a) + 1 \in 1..Len(a \o b)
  BY <1>3, <1>4
<1> HIDE DEF s
<1>8. ASSUME NEW j \in 1..Len(s), j > 1 PROVE Follows(m, k, id, s[j - 1], s[j])
  <2>1. CASE j <= Len(a)
    <3>1. j \in 1..Len(a) /\ j - 1 \in 1..Len(a)
      BY <1>3, <1>8, <2>1
    <3>2. s[j] = (a \o b)[j] /\ s[j - 1] = (a \o b)[j - 1]
      BY <1>6, <1>7, <3>1
    <3> QED BY <1>7, <1>8, <3>1, <3>2 DEF Chain
  <2>2. CASE j = Len(a) + 1
    <3>1. j - 1 \in 1..Len(a) /\ j - 1 = Len(a) /\ j \in 1..Len(a \o b)
      BY <1>3, <1>7, <1>8, <2>2
    <3>2. Follows(m, k, id, (a \o b)[j - 1], (a \o b)[j])
      BY <1>8, <3>1 DEF Chain
    <3>3. (a \o b)[j] = Head(b) /\ (a \o b)[j - 1] = s[j - 1] /\ s[j] = Err(Canceled)
      BY <1>6, <1>7, <2>2, <3>1
    <3>4. s[j - 1].t \in {"BindComplete", "RowDescription", "DataRow"}
      BY <3>2, <3>3 DEF Follows, Opening
    <3> QED BY <1>1, <3>3, <3>4 DEF Follows
  <2>3. CASE j = Len(a) + 2
    <3>1. j - 1 = Len(a) + 1
      BY <1>3, <2>3
    <3>2. s[j] = Ready /\ s[j - 1] = Err(Canceled)
      BY <1>6, <2>3, <3>1
    <3> QED BY <1>1, <3>2 DEF Follows
  <2> QED BY <1>3, <1>6, <2>1, <2>2, <2>3
<1>9. a # <<>> => s[1] = a[1] /\ (a \o b)[1] = a[1]
  BY <1>3, <1>6, <1>7
<1>10. ASSUME a = <<>> PROVE s[1] = Err(Canceled) /\ (a \o b)[1] = Head(b)
  <2>1. Len(a) + 1 = 1
    BY <1>3, <1>10
  <2> QED BY <1>6, <1>7, <2>1
<1>11. s # <<>>
  BY <1>3, <1>5, <1>6, EmptySeq
<1> QED BY <1>8, <1>9, <1>10, <1>11 DEF s, p, Chain

(* The rows of a result.                                                   *)
LEMMA RowsFacts ==
    ASSUME NEW id \in Ids, NEW n \in Nat
    PROVE  /\ Rows(id, n) \in Seq(Messages) /\ Len(Rows(id, n)) = n
           /\ \A i \in 1..n : Rows(id, n)[i] = Row(id, i)
<1>1. \A i \in 1..n : Row(id, i) \in Messages
  BY MessageFacts
<1>2. Rows(id, n) \in [1..n -> Messages] /\ \A i \in 1..n : Rows(id, n)[i] = Row(id, i)
  BY <1>1 DEF Rows
<1>3. Rows(id, n) \in Seq(Messages)
  BY <1>2, SeqDef
<1>4. DOMAIN Rows(id, n) = 1..n /\ DOMAIN Rows(id, n) = 1..Len(Rows(id, n))
  BY <1>2, <1>3
<1>5. Len(Rows(id, n)) = n
  BY <1>3, <1>4
<1> QED BY <1>2, <1>3, <1>5

(* An answer with rows: their opening, the rows, and how they end.         *)
LEMMA TableFacts ==
    ASSUME NEW k \in Tabular, NEW id \in Ids, NEW n \in Nat, NEW o \in Messages,
           o.t = Opening(k), NEW z \in Messages,
           z.t = "CommandComplete" \/ (z.t = "Error" /\ z.code # StaleStmt)
    PROVE  LET s == (<<o>> \o Rows(id, n)) \o <<z, Ready>> IN
           s \in Seq(Messages) /\ s # <<>> /\ s[1] = o /\ Chain(n, k, id, s)
<1> DEFINE h == <<o>>
           r == Rows(id, n)
           p == <<z, Ready>>
           g == h \o r
           s == g \o p
<1>1. Ready \in Messages /\ Ready.t = "ReadyForQuery"
  BY MessageFacts
<1>2. p \in Seq(Messages) /\ Len(p) = 2 /\ p[1] = z /\ p[2] = Ready
  BY <1>1, PairFacts
<1>3. h \in Seq(Messages) /\ Len(h) = 1 /\ h[1] = o
  OBVIOUS
<1>4. r \in Seq(Messages) /\ Len(r) = n /\ \A i \in 1..n : r[i] = Row(id, i)
  BY RowsFacts
<1> HIDE DEF h, r, p
<1>5. /\ g \in Seq(Messages) /\ Len(g) = Len(h) + Len(r)
      /\ \A i \in 1..Len(h) + Len(r) : g[i] = IF i <= Len(h) THEN h[i] ELSE r[i - Len(h)]
  BY <1>3, <1>4, ConcatProperties
<1>6. g \in Seq(Messages) /\ Len(g) = n + 1 /\ g[1] = o
  BY <1>3, <1>4, <1>5
<1>7. \A i \in 1..n : g[i + 1] = Row(id, i)
  <2> SUFFICES ASSUME NEW i \in 1..n PROVE g[i + 1] = Row(id, i)
    OBVIOUS
  <2>1. i + 1 \in 1..Len(h) + Len(r) /\ ~(i + 1 <= Len(h)) /\ i + 1 - Len(h) = i
    BY <1>3, <1>4
  <2> QED BY <1>4, <1>5, <2>1
<1> HIDE DEF g
<1>8. /\ s \in Seq(Messages) /\ Len(s) = Len(g) + Len(p)
      /\ \A i \in 1..Len(g) + Len(p) : s[i] = IF i <= Len(g) THEN g[i] ELSE p[i - Len(g)]
  BY <1>2, <1>6, ConcatProperties
<1>9. Len(s) = n + 3 /\ s[1] = o /\ s[n + 2] = z /\ s[n + 3] = Ready
  <2>1. Len(s) = n + 3 /\ 1 \in 1..Len(g) + Len(p) /\ 1 <= Len(g)
    BY <1>2, <1>6, <1>8
  <2>2. /\ n + 2 \in 1..Len(g) + Len(p) /\ ~(n + 2 <= Len(g)) /\ n + 2 - Len(g) = 1
        /\ n + 3 \in 1..Len(g) + Len(p) /\ ~(n + 3 <= Len(g)) /\ n + 3 - Len(g) = 2
    BY <1>2, <1>6
  <2> QED BY <1>2, <1>6, <1>8, <2>1, <2>2
<1>10. \A i \in 1..n : s[i + 1] = Row(id, i)
  <2> SUFFICES ASSUME NEW i \in 1..n PROVE s[i + 1] = Row(id, i)
    OBVIOUS
  <2>1. i + 1 \in 1..Len(g) + Len(p) /\ i + 1 <= Len(g)
    BY <1>2, <1>6
  <2> QED BY <1>7, <1>8, <2>1
<1>11. \A i \in 1..n : Row(id, i).t = "DataRow" /\ Row(id, i).id = id /\ Row(id, i).i = i
  BY MessageFacts
<1> HIDE DEF s
<1>12. ASSUME NEW j \in 1..Len(s), j > 1 PROVE Follows(n, k, id, s[j - 1], s[j])
  <2>1. CASE j = 2 /\ n > 0
    <3>1. 1 \in 1..n /\ 1 + 1 = j /\ j - 1 = 1
      BY <2>1
    <3>2. s[j] = Row(id, 1) /\ s[j - 1] = o
      BY <1>9, <1>10, <3>1
    <3> QED BY <1>11, <3>1, <3>2 DEF Follows
  <2>2. CASE j > 2 /\ j <= n + 1
    <3>1. j - 1 \in 1..n /\ j - 1 + 1 = j /\ j - 2 \in 1..n /\ j - 2 + 1 = j - 1
      BY <1>9, <2>2
    <3>2. s[j] = Row(id, j - 1) /\ s[j - 1] = Row(id, j - 2)
      BY <1>10, <3>1
    <3>3. /\ s[j].t = "DataRow" /\ s[j].id = id /\ s[j].i = j - 1
          /\ s[j - 1].t = "DataRow" /\ s[j - 1].i = j - 2
      BY <1>11, <3>1, <3>2
    <3>4. s[j].i = s[j - 1].i + 1 /\ s[j].i \in 1..n
      BY <3>1, <3>3
    <3> QED BY <3>3, <3>4 DEF Follows
  <2>3. CASE j = n + 2
    <3>1. CASE n = 0
      <4>1. s[j] = z /\ s[j - 1] = o
        BY <1>9, <2>3, <3>1
      <4> QED BY <3>1, <4>1 DEF Follows, Opening
    <3>2. CASE n # 0
      <4>1. n \in 1..n /\ j - 1 = n + 1
        BY <2>3, <3>2
      <4>2. s[j] = z /\ s[j - 1] = Row(id, n)
        BY <1>9, <1>10, <2>3, <4>1
      <4>3. s[j - 1].t = "DataRow" /\ s[j - 1].i = n
        BY <1>11, <4>1, <4>2
      <4> QED BY <4>2, <4>3 DEF Follows
    <3> QED BY <3>1, <3>2
  <2>4. CASE j = n + 3
    <3>1. j - 1 = n + 2
      BY <2>4
    <3>2. s[j] = Ready /\ s[j - 1] = z
      BY <1>9, <2>4, <3>1
    <3> QED BY <1>1, <3>2 DEF Follows
  <2> QED BY <1>9, <1>12, <2>1, <2>2, <2>3, <2>4
<1>13. s # <<>>
  BY <1>8, <1>9, EmptySeq
<1> QED BY <1>8, <1>9, <1>12, <1>13 DEF s, g, h, r, p, Chain

(* What the backend answers is a chain that begins as a reader expects.    *)
LEMMA AnswerFacts ==
    ASSUME NEW req \in Requests, req.kind # "garbage", NEW n \in Nat, NEW s \in Answers(req, n)
    PROVE  /\ s \in Seq(Messages) /\ s # <<>> /\ Chain(n, req.kind, req.id, s)
           /\ ComesNext(n, req.kind, req.id, 0, "none", s[1])
<1> DEFINE k == req.kind
           id == req.id
           Fine == /\ s \in Seq(Messages) /\ s # <<>> /\ Chain(n, k, id, s)
                   /\ ComesNext(n, k, id, 0, "none", s[1])
<1>1. /\ Ready \in Messages /\ Ready.t = "ReadyForQuery"
      /\ \A c \in Codes : Err(c) \in Messages /\ Err(c).t = "Error"
      /\ {Serialization, StaleStmt, "other"} \subseteq Codes
      /\ Msg("RowDescription") \in Messages /\ Msg("RowDescription").t = "RowDescription"
      /\ Msg("NoData") \in Messages /\ Msg("NoData").t = "NoData"
      /\ Msg("EmptyQuery") \in Messages /\ Msg("EmptyQuery").t = "EmptyQuery"
      /\ Msg("BindComplete") \in Messages /\ Msg("BindComplete").t = "BindComplete"
      /\ Msg("CommandComplete") \in Messages /\ Msg("CommandComplete").t = "CommandComplete"
  <2>1. {"RowDescription", "NoData", "BindComplete", "CommandComplete", "EmptyQuery"}
          \subseteq Names
    BY DEF Names
  <2> QED BY <2>1, MessageFacts DEF Codes
<1>2. id \in Ids /\ k \in {"prepare", "execute", "simple", "ping"}
  BY DEF Requests, Kinds
<1>3. ASSUME NEW x \in Messages, s = <<x, Ready>>,
             \/ x.t = "Error"
             \/ k = "prepare" /\ x.t \in {"RowDescription", "NoData"}
             \/ k = "ping" /\ x.t = "EmptyQuery"
      PROVE  Fine
  <2>1. Follows(n, k, id, x, Ready)
    BY <1>1, <1>3 DEF Follows
  <2>2. s \in Seq(Messages) /\ s # <<>> /\ Chain(n, k, id, s) /\ s[1] = x
    BY <1>1, <1>3, <2>1, PairFacts
  <2>3. ComesNext(n, k, id, 0, "none", x)
    BY <1>3 DEF ComesNext
  <2> QED BY <2>2, <2>3
<1>4. ASSUME s \in Failures(<<>>) PROVE Fine
  <2>1. PICK c \in Codes : s = <<>> \o <<Err(c), Ready>>
    BY <1>1, <1>4 DEF Failures
  <2>2. Err(c) \in Messages /\ Err(c).t = "Error" /\ <<Err(c), Ready>> \in Seq(Messages)
    BY <1>1, PairFacts
  <2>3. s = <<Err(c), Ready>>
    BY <2>1, <2>2, ConcatEmptySeq
  <2> QED BY <1>3, <2>2, <2>3
<1>5. ASSUME k \in Tabular, NEW o \in Messages, o.t = Opening(k),
             \/ s = (<<o>> \o Rows(id, n)) \o <<Msg("CommandComplete"), Ready>>
             \/ s \in Failures(<<o>> \o Rows(id, n))
      PROVE  Fine
  <2>1. PICK z \in Messages :
          /\ z.t = "CommandComplete" \/ (z.t = "Error" /\ z.code # StaleStmt)
          /\ s = (<<o>> \o Rows(id, n)) \o <<z, Ready>>
    <3>1. CASE s = (<<o>> \o Rows(id, n)) \o <<Msg("CommandComplete"), Ready>>
      BY <1>1, <3>1
    <3>2. CASE s \in Failures(<<o>> \o Rows(id, n))
      <4>1. PICK c \in {Serialization, "other"} : s = (<<o>> \o Rows(id, n)) \o <<Err(c), Ready>>
        BY <3>2 DEF Failures
      <4>2. c \in Codes /\ c # StaleStmt
        BY <1>1 DEF Serialization, StaleStmt
      <4>3. Err(c) \in Messages /\ Err(c).t = "Error" /\ Err(c).code # StaleStmt
        BY <4>2, MessageFacts
      <4> QED BY <4>1, <4>3
    <3> QED BY <1>5, <3>1, <3>2
  <2>2. s \in Seq(Messages) /\ s # <<>> /\ s[1] = o /\ Chain(n, k, id, s)
    <3> HIDE DEF k, id
    <3> QED BY <1>2, <1>5, <2>1, TableFacts
  <2>3. ComesNext(n, k, id, 0, "none", o)
    BY <1>5 DEF ComesNext
  <2> QED BY <2>2, <2>3
<1>6. CASE k = "prepare"
  <2>1. s \in {<<Msg("RowDescription"), Ready>>, <<Msg("NoData"), Ready>>} \cup Failures(<<>>)
    BY <1>6 DEF Answers
  <2> QED BY <1>1, <1>3, <1>4, <1>6, <2>1
<1>7. CASE k = "execute" /\ parsed
  <2>1. s \in {(<<Msg("BindComplete")>> \o Rows(id, n)) \o <<Msg("CommandComplete"), Ready>>}
               \cup Failures(<<Msg("BindComplete")>> \o Rows(id, n))
    BY <1>7 DEF Answers
  <2> QED BY <1>1, <1>5, <1>7, <2>1 DEF Opening, Tabular
<1>8. CASE k = "execute" /\ ~parsed
  <2>1. s = <<Err(StaleStmt), Ready>>
    BY <1>8 DEF Answers
  <2> QED BY <1>1, <1>3, <2>1
<1>9. CASE k = "simple"
  <2>1. s \in {(<<Msg("RowDescription")>> \o Rows(id, n)) \o <<Msg("CommandComplete"), Ready>>}
               \cup Failures(<<Msg("RowDescription")>> \o Rows(id, n)) \cup Failures(<<>>)
    BY <1>9 DEF Answers
  <2> QED BY <1>1, <1>4, <1>5, <1>9, <2>1 DEF Opening, Tabular
<1>10. CASE k = "ping"
  <2>1. s \in {<<Msg("EmptyQuery"), Ready>>} \cup Failures(<<>>)
    BY <1>10 DEF Answers
  <2> QED BY <1>1, <1>3, <1>4, <1>10, <2>1
<1> QED BY <1>2, <1>6, <1>7, <1>8, <1>9, <1>10

-----------------------------------------------------------------------------
(* The output *)

(* A beginning of a sequence, element by element.                          *)
LEMMA PrefixIndex ==
    ASSUME NEW S, NEW s \in Seq(S), NEW t \in Seq(S)
    PROVE  IsPrefix(s, t) <=> Len(s) <= Len(t) /\ \A i \in 1..Len(s) : s[i] = t[i]
<1> DEFINE u == SubSeq(s, 1, Len(s))
           v == SubSeq(t, 1, Len(s))
<1>1. Len(s) \in Nat /\ Len(t) \in Nat
  OBVIOUS
<1>2. u \in Seq(S) /\ Len(u) = Len(s) /\ \A i \in 1..Len(s) : u[i] = s[i]
  BY <1>1
<1>3. ASSUME Len(s) <= Len(t)
      PROVE  v \in Seq(S) /\ Len(v) = Len(s) /\ \A i \in 1..Len(s) : v[i] = t[i]
  BY <1>1, <1>3
<1>4. ASSUME Len(s) <= Len(t), \A i \in 1..Len(s) : s[i] = t[i] PROVE u = v
  <2>1. v \in Seq(S) /\ Len(v) = Len(s) /\ \A i \in 1..Len(s) : v[i] = t[i]
    BY <1>3, <1>4
  <2>2. Len(u) = Len(v) /\ \A i \in 1..Len(u) : u[i] = v[i]
    BY <1>2, <1>4, <2>1
  <2> HIDE DEF u, v
  <2> QED BY <1>2, <2>1, <2>2, SeqEqual
<1>5. ASSUME Len(s) <= Len(t), u = v PROVE \A i \in 1..Len(s) : s[i] = t[i]
  <2>1. \A i \in 1..Len(s) : v[i] = t[i]
    BY <1>3, <1>5
  <2> HIDE DEF u, v
  <2> QED BY <1>2, <1>5, <2>1
<1> QED BY <1>4, <1>5 DEF IsPrefix

(* A beginning of a beginning.                                             *)
LEMMA PrefixFacts ==
    ASSUME NEW S, NEW a \in Seq(S), NEW b \in Seq(S), NEW t \in Seq(S)
    PROVE  /\ IsPrefix(a, a \o b) /\ IsPrefix(a, a) /\ IsPrefix(<<>>, t)
           /\ IsPrefix(a \o b, t) => IsPrefix(a, t)
<1>1. /\ a \o b \in Seq(S) /\ Len(a \o b) = Len(a) + Len(b) /\ Len(a) \in Nat /\ Len(b) \in Nat
      /\ \A i \in 1..Len(a) + Len(b) : (a \o b)[i] = IF i <= Len(a) THEN a[i] ELSE b[i - Len(a)]
  BY ConcatProperties
<1>2. Len(a) <= Len(a \o b) /\ \A i \in 1..Len(a) : i \in 1..Len(a \o b) /\ (a \o b)[i] = a[i]
  BY <1>1
<1>3. IsPrefix(a, a \o b)
  BY <1>1, <1>2, PrefixIndex
<1>4. IsPrefix(a, a)
  BY <1>1, PrefixIndex
<1>5. IsPrefix(<<>>, t)
  <2> DEFINE e == <<>>
  <2>1. e \in Seq(S) /\ Len(e) = 0 /\ Len(t) \in Nat
    BY EmptySeq
  <2> HIDE DEF e
  <2>2. Len(e) <= Len(t) /\ \A i \in 1..Len(e) : e[i] = t[i]
    BY <2>1
  <2>3. IsPrefix(e, t)
    BY <2>1, <2>2, PrefixIndex
  <2> QED BY <2>3 DEF e
<1>6. ASSUME IsPrefix(a \o b, t) PROVE IsPrefix(a, t)
  <2>1. Len(a \o b) <= Len(t) /\ \A i \in 1..Len(a \o b) : (a \o b)[i] = t[i]
    BY <1>1, <1>6, PrefixIndex
  <2>2. Len(a) <= Len(t) /\ \A i \in 1..Len(a) : a[i] = t[i]
    <3>1. Len(t) \in Nat
      OBVIOUS
    <3>2. Len(a) <= Len(t)
      BY <1>1, <2>1, <3>1
    <3> QED BY <1>2, <2>1, <3>2
  <2> QED BY <2>2, PrefixIndex
<1> QED BY <1>3, <1>4, <1>5, <1>6

(* A beginning of a beginning of a third sequence.                         *)
LEMMA PrefixTransitive ==
    ASSUME NEW S, NEW s \in Seq(S), NEW t \in Seq(S), NEW u \in Seq(S),
           IsPrefix(s, t), IsPrefix(t, u)
    PROVE  IsPrefix(s, u)
<1>1. /\ Len(s) <= Len(t) /\ \A i \in 1..Len(s) : s[i] = t[i]
      /\ Len(t) <= Len(u) /\ \A i \in 1..Len(t) : t[i] = u[i]
  BY PrefixIndex
<1>2. Len(s) \in Nat /\ Len(t) \in Nat /\ Len(u) \in Nat
  OBVIOUS
<1>3. Len(s) <= Len(u) /\ \A i \in 1..Len(s) : s[i] = u[i]
  BY <1>1, <1>2
<1> QED BY <1>3, PrefixIndex

(* The header and the footer are one item each.                            *)
LEMMA EndsFacts ==
    /\ Header \in Seq(Messages) /\ Len(Header) = 1
    /\ Footer \in Seq(Messages) /\ Len(Footer) = 1
    /\ <<>> \in Seq(Messages)
<1>1. Msg("header") \in Messages /\ Msg("footer") \in Messages
  BY MessageFacts DEF Names
<1> QED BY <1>1 DEF Header, Footer

(* A row more.                                                             *)
LEMMA RowsMore ==
    ASSUME NEW id \in Ids, NEW n \in Nat
    PROVE  Rows(id, n) \o <<Row(id, n + 1)>> = Rows(id, n + 1) /\ Rows(id, 0) = <<>>
           /\ <<Row(id, n + 1)>> \in Seq(Messages)
<1> DEFINE r == Rows(id, n)
           q == Rows(id, n + 1)
           x == <<Row(id, n + 1)>>
<1>1. r \in Seq(Messages) /\ Len(r) = n /\ \A i \in 1..n : r[i] = Row(id, i)
  BY RowsFacts
<1>2. q \in Seq(Messages) /\ Len(q) = n + 1 /\ \A i \in 1..n + 1 : q[i] = Row(id, i)
  BY RowsFacts
<1>3. x \in Seq(Messages) /\ Len(x) = 1 /\ x[1] = Row(id, n + 1)
  <2>1. Row(id, n + 1) \in Messages
    BY MessageFacts
  <2> QED BY <2>1
<1> HIDE DEF r, q, x
<1>4. /\ r \o x \in Seq(Messages) /\ Len(r \o x) = Len(r) + Len(x)
      /\ \A i \in 1..Len(r) + Len(x) : (r \o x)[i] = IF i <= Len(r) THEN r[i] ELSE x[i - Len(r)]
  BY <1>1, <1>3, ConcatProperties
<1>5. Len(r) + Len(x) = n + 1 /\ Len(r) = n
  BY <1>1, <1>3
<1>6. \A i \in 1..n + 1 : (r \o x)[i] = q[i]
  <2> SUFFICES ASSUME NEW i \in 1..n + 1 PROVE (r \o x)[i] = q[i]
    OBVIOUS
  <2>1. (r \o x)[i] = IF i <= n THEN r[i] ELSE x[i - n]
    BY <1>4, <1>5, Zenon
  <2>2. CASE i <= n
    BY <1>1, <1>2, <2>1, <2>2
  <2>3. CASE ~(i <= n)
    <3>1. i = n + 1 /\ i - n = 1
      BY <2>3
    <3> QED BY <1>2, <1>3, <2>1, <2>3, <3>1
  <2> QED BY <2>2, <2>3
<1>7. r \o x = q
  BY <1>2, <1>4, <1>5, <1>6, SeqEqual
<1>8. Rows(id, 0) = <<>>
  <2>1. Rows(id, 0) \in Seq(Messages) /\ Len(Rows(id, 0)) = 0
    BY RowsFacts
  <2> QED BY <2>1, EmptySeq
<1> QED BY <1>3, <1>7, <1>8 DEF r, q, x

(* What writeHeader and writeRow, and the footer, add to the output.       *)
LEMMA BodyNext ==
    ASSUME NEW id \in Ids, NEW n \in Nat
    PROVE  /\ Body(id, n) \in Seq(Messages) /\ Due(n) \in Seq(Messages)
           /\ Whole(id, n) \in Seq(Messages)
           /\ Body(id, n) \o (Due(n) \o <<Row(id, n + 1)>>) = Body(id, n + 1)
           /\ Body(id, n) \o (Due(n) \o Footer) = Whole(id, n)
<1>1. /\ Header \in Seq(Messages) /\ Footer \in Seq(Messages) /\ <<>> \in Seq(Messages)
      /\ Rows(id, n) \in Seq(Messages) /\ Rows(id, n + 1) \in Seq(Messages)
      /\ <<Row(id, n + 1)>> \in Seq(Messages)
  <2>1. n + 1 \in Nat
    OBVIOUS
  <2> QED BY <2>1, EndsFacts, RowsFacts, RowsMore
<1>2. /\ Body(id, n) \in Seq(Messages) /\ Due(n) \in Seq(Messages)
      /\ Header \o Rows(id, n) \in Seq(Messages) /\ Whole(id, n) \in Seq(Messages)
  BY <1>1, ConcatProperties DEF Body, Due, Whole
<1>3. CASE n = 0
  <2> DEFINE x == <<Row(id, n + 1)>>
  <2>1. Body(id, n) = <<>> /\ Due(n) = Header /\ Rows(id, n) = <<>>
    BY <1>3, RowsMore DEF Body, Due
  <2>2. <<>> \o (Header \o x) = Header \o x /\ <<>> \o x = x /\ Header \o <<>> = Header
        /\ <<>> \o (Header \o Footer) = Header \o Footer
    BY <1>1, ConcatProperties, ConcatEmptySeq
  <2>3. <<>> \o x = Rows(id, n + 1)
    BY <2>1, RowsMore
  <2>4. Body(id, n + 1) = Header \o Rows(id, n + 1)
    BY <1>3 DEF Body
  <2>5. Whole(id, n) = Header \o Footer
    BY <2>1, <2>2 DEF Whole
  <2> QED BY <1>2, <2>1, <2>2, <2>3, <2>4, <2>5
<1>4. CASE n # 0
  <2> DEFINE x == <<Row(id, n + 1)>>
  <2>1. Body(id, n) = Header \o Rows(id, n) /\ Due(n) = <<>>
    BY <1>4 DEF Body, Due
  <2>2. <<>> \o x = x /\ <<>> \o Footer = Footer
    BY <1>1, ConcatEmptySeq
  <2>3. (Header \o Rows(id, n)) \o x = Header \o (Rows(id, n) \o x)
    BY <1>1, ConcatAssociative
  <2>4. Rows(id, n) \o x = Rows(id, n + 1)
    BY RowsMore
  <2>5. Body(id, n + 1) = Header \o Rows(id, n + 1)
    BY <1>4 DEF Body
  <2>6. Whole(id, n) = (Header \o Rows(id, n)) \o Footer
    BY DEF Whole
  <2> QED BY <1>2, <2>1, <2>2, <2>3, <2>4, <2>5, <2>6
<1> QED BY <1>3, <1>4

(* The output of some of the rows is a beginning of the whole output.      *)
LEMMA BodyPrefix ==
    ASSUME NEW id \in Ids, NEW m \in Nat, NEW n \in 0..m
    PROVE  /\ IsPrefix(Body(id, n), Whole(id, m))
           /\ IsPrefix(Body(id, n) \o Due(n), Whole(id, m))
<1> DEFINE r == Rows(id, n)
           q == Rows(id, m)
           b == Header \o r
           w == Header \o q
<1>1. /\ r \in Seq(Messages) /\ Len(r) = n /\ \A i \in 1..n : r[i] = Row(id, i)
      /\ q \in Seq(Messages) /\ Len(q) = m /\ \A i \in 1..m : q[i] = Row(id, i)
      /\ Header \in Seq(Messages) /\ Len(Header) = 1 /\ Footer \in Seq(Messages)
  BY RowsFacts, EndsFacts
<1> HIDE DEF r, q
<1>2. /\ b \in Seq(Messages) /\ Len(b) = Len(Header) + Len(r)
      /\ \A i \in 1..Len(Header) + Len(r) :
           b[i] = IF i <= Len(Header) THEN Header[i] ELSE r[i - Len(Header)]
      /\ w \in Seq(Messages) /\ Len(w) = Len(Header) + Len(q)
      /\ \A i \in 1..Len(Header) + Len(q) :
           w[i] = IF i <= Len(Header) THEN Header[i] ELSE q[i - Len(Header)]
  BY <1>1, ConcatProperties
<1>3. IsPrefix(b, w)
  <2>1. Len(b) = 1 + n /\ Len(w) = 1 + m /\ Len(b) <= Len(w)
    BY <1>1, <1>2
  <2>2. \A i \in 1..1 + n : b[i] = w[i]
    <3> SUFFICES ASSUME NEW i \in 1..1 + n PROVE b[i] = w[i]
      OBVIOUS
    <3>1. i \in 1..1 + m
      OBVIOUS
    <3>2. /\ b[i] = IF i <= 1 THEN Header[i] ELSE r[i - 1]
          /\ w[i] = IF i <= 1 THEN Header[i] ELSE q[i - 1]
      BY <1>1, <1>2, <3>1
    <3>3. ~(i <= 1) => i - 1 \in 1..n /\ i - 1 \in 1..m
      OBVIOUS
    <3> QED BY <1>1, <3>2, <3>3
  <2> HIDE DEF b, w
  <2> QED BY <1>2, <2>1, <2>2, PrefixIndex
<1>4. IsPrefix(b, w \o Footer)
  <2>1. w \o Footer \in Seq(Messages) /\ IsPrefix(w, w \o Footer)
    BY <1>1, <1>2, PrefixFacts, ConcatProperties
  <2> HIDE DEF b, w
  <2> QED BY <1>2, <1>3, <2>1, PrefixTransitive
<1>5. Whole(id, m) = w \o Footer /\ Whole(id, m) \in Seq(Messages)
  BY BodyNext DEF Whole, q
<1>6. IsPrefix(Header, Whole(id, m)) /\ IsPrefix(<<>>, Whole(id, m))
  <2> DEFINE f == Whole(id, m)
  <2>1. f \in Seq(Messages) /\ IsPrefix(Header \o r, f)
    BY <1>4, <1>5
  <2> HIDE DEF f
  <2>2. IsPrefix(Header, f) /\ IsPrefix(<<>>, f)
    BY <1>1, <2>1, PrefixFacts
  <2> QED BY <2>2 DEF f
<1>7. CASE n = 0
  <2>1. Body(id, n) = <<>> /\ Due(n) = Header /\ <<>> \o Header = Header
    BY <1>1, <1>7, ConcatEmptySeq DEF Body, Due
  <2> QED BY <1>6, <2>1
<1>8. CASE n # 0
  <2>1. Body(id, n) = b /\ Due(n) = <<>> /\ b \o <<>> = b
    BY <1>2, <1>8, ConcatEmptySeq DEF Body, Due, r
  <2> QED BY <1>4, <1>5, <2>1
<1> QED BY <1>7, <1>8

-----------------------------------------------------------------------------
(* Steps of the backend, the network and the watcher *)

AskedKinds == {"prepare", "execute", "simple", "ping"}

(* What the backend serves and sends keeps its types; without a request    *)
(* there is nothing new, and a clean wire stays clean.                     *)
LEMMA EnvironmentTypes ==
    ASSUME SessionTypes, Environment
    PROVE  /\ SessionTypes'
           /\ reqs = <<>> => reqs' = <<>> /\ made' = made
           /\ WireClean => WireClean'
<1>1. CASE Serve
  <2>1. /\ reply = <<>> /\ reqs # <<>> /\ Head(reqs).kind # "garbage" /\ reqs' = Tail(reqs)
        /\ UNCHANGED <<inbox, alive>>
    BY <1>1 DEF Serve
  <2>2. PICK n \in 0..MaxRows : reply' \in Answers(Head(reqs), n) /\ made' = n
    BY <1>1 DEF Serve
  <2>3. n \in Nat
    BY SessionAssumption
  <2>4. Head(reqs) \in Requests /\ reqs' \in Seq(Requests)
    BY <2>1, HeadTailProperties DEF SessionTypes
  <2>5. reply' \in Seq(Messages)
    BY <2>1, <2>2, <2>3, <2>4, AnswerFacts
  <2> QED BY <2>1, <2>2, <2>3, <2>4, <2>5 DEF SessionTypes, WireClean
<1>2. CASE Emit
  <2>1. /\ reply # <<>> /\ inbox' = Append(inbox, Head(reply)) /\ reply' = Tail(reply)
        /\ UNCHANGED <<reqs, made, alive>>
    BY <1>2 DEF Emit
  <2>2. inbox' \in Seq(Messages) /\ reply' \in Seq(Messages)
    BY <2>1, EmitUnread DEF SessionTypes
  <2> QED BY <2>1, <2>2 DEF SessionTypes, WireClean
<1>3. CASE ServeGarbage
  <2>1. /\ reqs # <<>> /\ inbox' = Append(inbox, Err("other")) /\ alive' = FALSE /\ reqs' = <<>>
        /\ UNCHANGED <<reply, made>>
    BY <1>3 DEF ServeGarbage
  <2>2. Err("other") \in Messages
    BY MessageFacts DEF Codes
  <2>3. inbox' \in Seq(Messages) /\ reqs' \in Seq(Requests)
    BY <2>1, <2>2, AppendProperties DEF SessionTypes
  <2> QED BY <2>1, <2>3 DEF SessionTypes, WireClean
<1>4. CASE ServerDies
  <2>1. alive' = FALSE /\ reply' = <<>> /\ reqs' = <<>> /\ UNCHANGED <<made, inbox>>
    BY <1>4 DEF ServerDies
  <2>2. reply' \in Seq(Messages) /\ reqs' \in Seq(Requests)
    BY <2>1
  <2> QED BY <2>1, <2>2 DEF SessionTypes, WireClean
<1>5. CASE DeliverCancel
  <2>1. UNCHANGED <<reqs, made, inbox, alive>> /\ (reply = <<>> => reply' = <<>>)
        /\ (reply' = reply \/ reply' = <<Err(Canceled), Ready>>)
    BY <1>5 DEF DeliverCancel
  <2>2. Err(Canceled) \in Messages /\ Ready \in Messages
    BY MessageFacts DEF Codes
  <2>3. reply' \in Seq(Messages)
    <3>1. reply \in Seq(Messages) /\ <<Err(Canceled), Ready>> \in Seq(Messages)
      BY <2>2, PairFacts DEF SessionTypes
    <3> QED BY <2>1, <3>1, Zenon
  <2> QED BY <2>1, <2>3 DEF SessionTypes, WireClean
<1>6. CASE Rotate \/ CtxExpires \/ WatcherCancels \/ WatcherDeadline
  <2>1. UNCHANGED <<reqs, reply, made, inbox, alive>>
    BY <1>6 DEF Rotate, CtxExpires, WatcherCancels, WatcherDeadline, serverVars
  <2> QED BY <2>1 DEF SessionTypes, WireClean
<1> QED BY <1>1, <1>2, <1>3, <1>4, <1>5, <1>6 DEF Environment

(* A request that waits is served, whole or as garbage, or lost.           *)
LEMMA EnvironmentWaiting ==
    ASSUME SessionTypes, Environment, NEW k \in AskedKinds, NEW id, NEW n, NEW e,
           Waiting(k, id, n, e)
    PROVE  Waiting(k, id, n, e)' \/ Answered(k, id, n, e, FALSE)'
<1>1. /\ reqs # <<>> /\ reqs = <<reqs[1]>> /\ reqs[1].id = id /\ reqs[1].kind \in {k, "garbage"}
      /\ reply = <<>> /\ inbox = <<>> /\ n = 0 /\ e = "none"
  BY DEF Waiting
<1>2. Head(reqs) = reqs[1] /\ Tail(reqs) = <<>> /\ reqs[1] \in Requests
  <2>1. Head(reqs) = reqs[1] /\ Head(reqs) \in Requests /\ Tail(reqs) \in Seq(Requests)
    BY <1>1, HeadTailProperties DEF SessionTypes
  <2>2. Len(reqs) = 1
    BY <1>1
  <2>3. Len(Tail(reqs)) = 0
    BY <1>1, <2>2 DEF SessionTypes
  <2> QED BY <2>1, <2>3, EmptySeq
<1>3. ASSUME reqs' = <<>>, Unread' = <<>> PROVE Answered(k, id, n, e, FALSE)'
  <2>1. \A j \in 1..Len(Unread') : FALSE
    <3>1. Len(Unread') = 0
      BY <1>3
    <3> QED BY <3>1
  <2> QED BY <1>3, <2>1 DEF Answered, Chain
<1>4. CASE Serve
  <2>1. Head(reqs).kind # "garbage" /\ reqs' = Tail(reqs) /\ inbox' = inbox
    BY <1>4 DEF Serve
  <2>2. PICK r \in 0..MaxRows : reply' \in Answers(Head(reqs), r) /\ made' = r
    BY <1>4 DEF Serve
  <2>3. r \in Nat /\ reqs[1].kind = k
    BY <1>1, <1>2, <2>1, SessionAssumption
  <2>4. /\ reply' \in Seq(Messages) /\ reply' # <<>> /\ Chain(r, k, id, reply')
        /\ ComesNext(r, k, id, 0, "none", reply'[1])
    BY <1>1, <1>2, <2>1, <2>2, <2>3, AnswerFacts
  <2>5. Unread' = reply'
    BY <1>1, <2>1, <2>4, ConcatEmptySeq DEF Unread
  <2> QED BY <1>1, <1>2, <2>1, <2>2, <2>4, <2>5 DEF Answered
<1>5. CASE ServeGarbage
  <2> DEFINE x == Err("other")
  <2>1. inbox' = Append(<<>>, x) /\ reqs' = <<>> /\ reply' = <<>>
    BY <1>1, <1>5 DEF ServeGarbage
  <2>2. x \in Messages /\ x.t = "Error"
    BY MessageFacts DEF Codes
  <2> HIDE DEF x
  <2>3. <<>> \in Seq(Messages) /\ Append(<<>>, x) \in Seq(Messages) /\ Len(Append(<<>>, x)) = 1
        /\ Append(<<>>, x)[1] = x
    BY <2>2
  <2>4. Unread' \in Seq(Messages) /\ Len(Unread') = 1 /\ Unread'[1] = x
    BY <2>1, <2>3, ConcatEmptySeq DEF Unread
  <2>5. \A j \in 1..Len(Unread') : ~(j > 1)
    BY <2>4
  <2>6. Chain(made', k, id, Unread')
    BY <2>5 DEF Chain
  <2>7. ComesNext(made', k, id, n, e, x)
    BY <1>1, <2>2 DEF ComesNext
  <2> QED BY <2>1, <2>4, <2>6, <2>7 DEF Answered
<1>6. CASE ServerDies
  <2>1. reqs' = <<>> /\ Unread' = <<>> \o <<>>
    BY <1>1, <1>6 DEF ServerDies, Unread
  <2>2. <<>> \in Seq(Messages)
    OBVIOUS
  <2>3. <<>> \o <<>> = <<>>
    BY <2>2, ConcatEmptySeq
  <2> QED BY <1>3, <2>1, <2>3
<1>7. CASE Rotate \/ CtxExpires \/ WatcherCancels \/ WatcherDeadline \/ DeliverCancel
  <2>1. UNCHANGED <<reqs, reply, inbox>>
    BY <1>1, <1>7 DEF Rotate, CtxExpires, WatcherCancels, WatcherDeadline, DeliverCancel, serverVars
  <2> QED BY <1>1, <2>1 DEF Waiting
<1> QED BY <1>1, <1>4, <1>5, <1>6, <1>7 DEF Environment, Emit

(* What is left of an answer stays what is left of it, through messages    *)
(* sent, CancelRequests and the end of the connection.                     *)
LEMMA EnvironmentAnswered ==
    ASSUME SessionTypes, Environment, NEW k \in AskedKinds, NEW id, NEW n, NEW e, NEW skims,
           Answered(k, id, n, e, skims)
    PROVE  Answered(k, id, n, e, skims)'
<1>1. /\ reqs = <<>> /\ Chain(made, k, id, Unread)
      /\ Unread # <<>> /\ ~skims => ComesNext(made, k, id, n, e, Unread[1])
      /\ inbox \in Seq(Messages) /\ reply \in Seq(Messages)
  BY DEF Answered, SessionTypes
<1>2. reqs' = <<>> /\ made' = made
  BY <1>1, EnvironmentTypes
<1>3. CASE Emit
  <2>1. reply # <<>> /\ inbox' = Append(inbox, Head(reply)) /\ reply' = Tail(reply)
    BY <1>3 DEF Emit
  <2>2. Unread' = Unread
    BY <1>1, <2>1, EmitUnread DEF Unread
  <2> QED BY <1>1, <1>2, <2>2 DEF Answered
<1>4. CASE ServerDies
  <2>1. reply' = <<>> /\ inbox' = inbox
    BY <1>4 DEF ServerDies
  <2>2. Unread' = inbox
    BY <1>1, <2>1, ConcatEmptySeq DEF Unread
  <2>3. Chain(made, k, id, inbox) /\ (inbox # <<>> => Unread[1] = inbox[1])
    BY <1>1, ChainPrefix DEF Unread
  <2>4. inbox # <<>> => Unread # <<>>
    BY <1>1, ReadUnread DEF Unread
  <2> QED BY <1>1, <1>2, <2>2, <2>3, <2>4 DEF Answered
<1>5. CASE DeliverCancel
  <2>1. inbox' = inbox
    BY <1>5 DEF DeliverCancel
  <2>2. CASE reply' = reply
    BY <1>1, <1>2, <2>1, <2>2 DEF Answered, Unread
  <2>3. CASE reply' # reply
    <3> DEFINE s == inbox \o <<Err(Canceled), Ready>>
    <3>1. /\ reply # <<>> /\ reply' = <<Err(Canceled), Ready>>
          /\ Head(reply).t \notin {"CommandComplete", "Error", "ReadyForQuery"}
      BY <1>5, <2>3 DEF DeliverCancel
    <3>2. Unread' = s
      BY <2>1, <3>1 DEF Unread
    <3>3. /\ Chain(made, k, id, s) /\ s # <<>>
          /\ inbox # <<>> => s[1] = inbox[1] /\ Unread[1] = inbox[1]
          /\ inbox = <<>> => s[1] = Err(Canceled) /\ Unread[1] = Head(reply)
      BY <1>1, <3>1, ChainCancel DEF Unread
    <3>4. Unread # <<>>
      BY <1>1, <3>1, ConcatEqualIffEmpty DEF Unread
    <3>5. Err(Canceled).t = "Error" /\ Err(Canceled).code # StaleStmt
      BY MessageFacts DEF Codes, Canceled, StaleStmt
    <3>6. ~skims => ComesNext(made, k, id, n, e, s[1])
      <4>1. CASE inbox # <<>>
        BY <1>1, <3>3, <3>4, <4>1
      <4>2. CASE inbox = <<>>
        <5>1. ~skims => e = "none"
          BY <1>1, <3>1, <3>3, <3>4, <4>2 DEF ComesNext
        <5> QED BY <3>3, <3>5, <4>2, <5>1 DEF ComesNext
      <4> QED BY <4>1, <4>2
    <3> QED BY <1>2, <3>2, <3>3, <3>6 DEF Answered
  <2> QED BY <2>2, <2>3
<1>6. CASE Rotate \/ CtxExpires \/ WatcherCancels \/ WatcherDeadline
  <2>1. UNCHANGED <<reply, inbox>>
    BY <1>6 DEF Rotate, CtxExpires, WatcherCancels, WatcherDeadline, serverVars
  <2> QED BY <1>1, <1>2, <2>1 DEF Answered, Unread
<1> QED BY <1>1, <1>3, <1>4, <1>5, <1>6 DEF Environment, Serve, ServeGarbage

-----------------------------------------------------------------------------
(* Steps of a reader *)

(* What can be read from a message of a known type.                        *)
LEMMA MessageParts ==
    ASSUME NEW a \in Messages
    PROVE  /\ a.t = "Error" => a.code \in Codes
           /\ a.t = "DataRow" => a.id \in Ids /\ a.i \in Nat
           /\ a.t \in Names \cup {"Error", "DataRow"}
BY DEF Messages, Names

(* Reading one message of the answer.                                      *)
LEMMA TakeAnswered ==
    ASSUME SessionTypes, NEW k \in AskedKinds, NEW id, NEW n \in Nat, NEW e, NEW skims,
           Waiting(k, id, n, e) \/ Answered(k, id, n, e, skims),
           inbox # <<>>, inbox' = Tail(inbox), UNCHANGED <<reqs, reply, made>>
    PROVE  LET a == Head(inbox) IN
           /\ a \in Messages /\ inbox' \in Seq(Messages) /\ reqs = <<>>
           /\ Answered(k, id, n, e, TRUE)'
           /\ a.t = "ReadyForQuery" => WireClean'
           /\ ~skims =>
                /\ ComesNext(made, k, id, n, e, a)
                /\ a.t = "DataRow" => Answered(k, id, n + 1, e, FALSE)'
                /\ a.t \notin {"DataRow", "Error"} => Answered(k, id, n, e, FALSE)'
                /\ a.t = "Error" => \A c : c # "none" => Answered(k, id, n, c, FALSE)'
<1> DEFINE a == Head(inbox)
<1>1. /\ reqs = <<>> /\ Chain(made, k, id, Unread)
      /\ Unread # <<>> /\ ~skims => ComesNext(made, k, id, n, e, Unread[1])
      /\ inbox \in Seq(Messages) /\ reply \in Seq(Messages) /\ made \in Nat
  BY DEF Waiting, Answered, SessionTypes
<1>2. a \in Messages /\ inbox' \in Seq(Messages)
  BY <1>1, HeadTailProperties
<1>3. Unread \in Seq(Messages) /\ Unread # <<>> /\ Unread[1] = a /\ Unread' = Tail(Unread)
  BY <1>1, ReadUnread DEF Unread
<1>4. /\ Chain(made, k, id, Unread')
      /\ Unread' # <<>> => Follows(made, k, id, a, Unread'[1])
  BY <1>1, <1>3, ChainTail
<1>5. Answered(k, id, n, e, TRUE)'
  BY <1>1, <1>4 DEF Answered
<1>6. ASSUME a.t = "ReadyForQuery" PROVE WireClean'
  <2>1. Unread' = <<>>
    BY <1>1, <1>3, <1>6, ReadyIsLast
  <2>2. inbox' = <<>> /\ reply' = <<>>
    BY <1>1, <1>2, <2>1, ConcatEqualIffEmpty DEF Unread
  <2> QED BY <1>1, <2>2 DEF WireClean
<1>7. ASSUME ~skims PROVE ComesNext(made, k, id, n, e, a)
  BY <1>1, <1>3, <1>7
<1>8. ASSUME ~skims, Unread' # <<>>
      PROVE  /\ a.t = "DataRow" => ComesNext(made, k, id, n + 1, e, Unread'[1])
             /\ a.t \notin {"DataRow", "Error"} => ComesNext(made, k, id, n, e, Unread'[1])
             /\ a.t = "Error" => \A c : c # "none" => ComesNext(made, k, id, n, c, Unread'[1])
  BY <1>1, <1>4, <1>7, <1>8, Advance
<1>9. ASSUME ~skims
      PROVE  /\ a.t = "DataRow" => Answered(k, id, n + 1, e, FALSE)'
             /\ a.t \notin {"DataRow", "Error"} => Answered(k, id, n, e, FALSE)'
             /\ a.t = "Error" => \A c : c # "none" => Answered(k, id, n, c, FALSE)'
  <2> HIDE DEF a
  <2> QED BY <1>1, <1>4, <1>8, <1>9 DEF Answered
<1> QED BY <1>1, <1>2, <1>5, <1>6, <1>7, <1>9

(* What was delivered and buffered so far is a beginning of the output of  *)
(* the request sent last, and nothing while that request was not served.   *)
LEMMA Delivered ==
    ASSUME QueryInv, clean
    PROVE  /\ IsPrefix(sent \o out, FullOutput)
           /\ reqs # <<>> => sent = <<>> /\ out = <<>>
<1>1. /\ sent \in Seq(Messages) /\ out \in Seq(Messages) /\ made \in Nat /\ rowCount \in Nat
      /\ Id \in Ids /\ FullOutput = Whole(Id, made)
  BY DEF QueryInv, QueryTypes, SessionTypes, Id, Ids, FullOutput, Whole
<1>2. CASE pc \in {"detach", "idle"}
  BY <1>2 DEF QueryInv, Output
<1>3. CASE sent = <<>> /\ out = <<>>
  <2>1. <<>> \o <<>> = <<>>
    BY EndsFacts, ConcatEmptySeq
  <2>2. Whole(Id, made) \in Seq(Messages) /\ <<>> \in Seq(Messages)
    BY <1>1, BodyNext, EndsFacts
  <2>3. IsPrefix(<<>>, Whole(Id, made))
    BY <2>2, PrefixFacts
  <2> QED BY <1>1, <1>3, <2>1, <2>3
<1>4. CASE pc \in {"execute", "text", "abort"}
  <2>1. sent \o out = Body(Id, rowCount) /\ (reqs = <<>> => rowCount <= made)
    BY <1>4 DEF QueryInv, Output
  <2>2. CASE reqs = <<>>
    <3>1. rowCount \in 0..made
      BY <1>1, <2>1, <2>2
    <3>2. IsPrefix(Body(Id, rowCount), Whole(Id, made))
      BY <1>1, <3>1, BodyPrefix
    <3> QED BY <1>1, <2>1, <2>2, <3>2
  <2>3. CASE reqs # <<>>
    <3>1. rowCount = 0
      BY <1>4, <2>3 DEF QueryInv, InAnswer, Waiting, Answered, Reading
    <3>2. sent \o out = <<>>
      BY <2>1, <3>1 DEF Body
    <3>3. sent = <<>> /\ out = <<>>
      BY <1>1, <3>2, ConcatEqualIffEmpty
    <3> QED BY <1>3, <3>3
  <2> QED BY <2>2, <2>3
<1> QED BY <1>2, <1>3, <1>4 DEF QueryInv, QueryTypes, Output, Reading

-----------------------------------------------------------------------------
(* Steps of a call, by what they come to *)

Steady == <<reply, made, call, path, sends, clean, watcher, past>>

(* The call has its result.                                                *)
LEMMA ReturnStep ==
    ASSUME QueryInv, pc \notin {"idle", "detach"}, pc' = "detach",
           result' \in Results \ {"none"}, UNCHANGED Steady, UNCHANGED <<reqs, alive>>,
           inbox' \in Seq(Messages), out' \in Seq(Messages), sent' \in Seq(Messages),
           rowCount' \in Nat,
           pgError' \in Codes \cup {"none"},
           clean => /\ IsPrefix(sent' \o out', FullOutput)
                    /\ reqs # <<>> => sent' = <<>> /\ out' = <<>>
                    /\ result' \notin {"broken", "lost"} => WireClean'
                    /\ result' = "ok" /\ path # "ping" => sent' = FullOutput /\ out' = <<>>
    PROVE  QueryInv'
<1>1. UNCHANGED <<reqs, reply, made, alive, call, path, sends, clean, watcher, past>>
  BY DEF Steady
<1>2. SessionTypes'
  BY <1>1 DEF QueryInv, SessionTypes
<1>3. QueryTypes'
  BY <1>1 DEF QueryInv, QueryTypes
<1>4. Control' /\ Watching' /\ InAnswer'
  BY <1>1 DEF QueryInv, Control, Watching, InAnswer, Reading
<1>5. Settled'
  BY <1>1 DEF Settled
<1>6. FullOutput' = FullOutput
  BY <1>1 DEF FullOutput
<1>7. Output'
  BY <1>1, <1>6 DEF Output
<1> QED BY <1>2, <1>3, <1>4, <1>5, <1>7 DEF QueryInv

(* The call goes on to its next request, on a clean wire.                  *)
LEMMA QuietStep ==
    ASSUME QueryInv, pc \notin {"idle", "detach"}, pc' \in {"send", "bind", "backoff"},
           result' = result, UNCHANGED Steady, UNCHANGED <<reqs, alive>>,
           inbox' \in Seq(Messages), sent' = <<>>, out' = <<>>, rowCount' \in Nat,
           pgError' \in Codes \cup {"none"}, clean => WireClean'
    PROVE  QueryInv'
<1>1. UNCHANGED <<reqs, reply, made, alive, call, path, sends, clean, watcher, past>>
  BY DEF Steady
<1>2. SessionTypes'
  BY <1>1 DEF QueryInv, SessionTypes
<1>3. QueryTypes'
  BY <1>1, EndsFacts DEF QueryInv, QueryTypes
<1>4. Control' /\ Watching' /\ InAnswer'
  BY <1>1 DEF QueryInv, Control, Watching, InAnswer, Reading
<1>5. Settled'
  BY <1>1 DEF Settled
<1>6. Output'
  BY DEF Output
<1> QED BY <1>2, <1>3, <1>4, <1>5, <1>6 DEF QueryInv

(* A reader reads on, in the answer to the same request.                   *)
LEMMA ReadOnStep ==
    ASSUME QueryInv, pc \in Reading,
           pc' = pc \/ (pc \in {"execute", "text"} /\ pc' = "abort"),
           UNCHANGED <<result, reqs, alive>>, UNCHANGED Steady, clean => reqs = <<>>,
           inbox' \in Seq(Messages), out' \in Seq(Messages), sent' \in Seq(Messages),
           rowCount' \in Nat, pgError' \in Codes \cup {"none"},
           pc \in {"describe", "ping"} => sent' = sent /\ out' = out,
           clean /\ pc \in {"execute", "text", "abort"} =>
             sent' \o out' = Body(Id, rowCount') /\ rowCount' <= made,
           clean => Answered(Asked, Id, rowCount, pgError, pc = "abort")'
    PROVE  QueryInv'
<1>1. UNCHANGED <<reqs, reply, made, alive, call, path, sends, clean, watcher, past, result>>
  BY DEF Steady
<1>2. SessionTypes'
  BY <1>1 DEF QueryInv, SessionTypes
<1>3. pc' \in Reading
  BY DEF Reading
<1>4. QueryTypes'
  BY <1>1, <1>3 DEF QueryInv, QueryTypes
<1>5. Control' /\ Watching' /\ Settled'
  BY <1>1 DEF QueryInv, Control, Watching, Settled, Reading
<1>6. InAnswer'
  BY <1>1, <1>3 DEF InAnswer
<1>7. Output'
  <2>1. Id' = Id /\ \A n : Body(Id, n)' = Body(Id, n)
    BY <1>1 DEF Id, Body
  <2>2. Body(Id, rowCount)' = Body(Id, rowCount')
    BY <2>1
  <2> QED BY <1>1, <2>2 DEF QueryInv, Output, Reading
<1> QED BY <1>2, <1>4, <1>5, <1>6, <1>7 DEF QueryInv

(* A request is flushed, into an empty wire if the call began on one.      *)
LEMMA SendStep ==
    ASSUME QueryInv, pc \in {"send", "bind"}, NEW kind \in AskedKinds, NEW reader \in Reading,
           Send(kind, reader), reader # "abort",
           \/ kind = "prepare" /\ reader = "describe"
           \/ kind = "execute" /\ reader = "execute" /\ path = "cached"
           \/ kind = "simple" /\ reader = "text" /\ path = "simple"
           \/ kind = "ping" /\ reader = "ping" /\ path = "ping"
    PROVE  QueryInv'
<1>1. /\ pc' = reader /\ sends' = sends + 1 /\ pgError' = "none" /\ rowCount' = 0
      /\ UNCHANGED <<reply, made, inbox, alive, watcher, past, call, path, result, out, sent, clean>>
  BY DEF Send, ctxVars, callVars
<1>2. sends \in Nat /\ call \in Nat /\ reqs \in Seq(Requests) /\ sent = <<>> /\ out = <<>>
  BY DEF QueryInv, QueryTypes, SessionTypes, Output
<1>3. PICK r \in Requests : /\ r.id = <<call, sends + 1>> /\ r.kind \in {kind, "garbage"}
                            /\ reqs' = Append(reqs, r)
  <2>1. <<call, sends + 1>> \in Ids
    BY <1>2 DEF Ids
  <2>2. \A q \in Kinds : /\ Request(q, <<call, sends + 1>>) \in Requests
                         /\ Request(q, <<call, sends + 1>>).id = <<call, sends + 1>>
                         /\ Request(q, <<call, sends + 1>>).kind = q
    BY <2>1 DEF Request, Requests
  <2>3. kind \in Kinds /\ "garbage" \in Kinds
    BY DEF AskedKinds, Kinds
  <2>4. \/ reqs' = Append(reqs, Request("garbage", <<call, sends + 1>>))
        \/ reqs' = Append(reqs, Request(kind, <<call, sends + 1>>))
    BY DEF Send, FlushRequest
  <2> QED BY <2>2, <2>3, <2>4
<1>4. SessionTypes'
  BY <1>1, <1>3, AppendProperties DEF QueryInv, SessionTypes
<1>5. QueryTypes'
  BY <1>1, <1>2 DEF QueryInv, QueryTypes
<1>6. Control' /\ Watching' /\ Settled'
  BY <1>1 DEF QueryInv, Control, Watching, Settled, Reading
<1>7. Asked' = kind
  <2>1. path' = path /\ pc' = reader
    BY <1>1
  <2>2. CASE kind = "prepare" /\ reader = "describe"
    BY <2>1, <2>2 DEF Asked
  <2>3. CASE kind = "execute" /\ reader = "execute" /\ path = "cached"
    BY <2>1, <2>3 DEF Asked
  <2>4. CASE kind = "simple" /\ reader = "text" /\ path = "simple"
    BY <2>1, <2>4 DEF Asked
  <2>5. CASE kind = "ping" /\ reader = "ping" /\ path = "ping"
    BY <2>1, <2>5 DEF Asked
  <2> QED BY <2>2, <2>3, <2>4, <2>5
<1>8. InAnswer'
  <2> SUFFICES ASSUME clean PROVE Waiting(Asked, Id, rowCount, pgError)'
    BY <1>1 DEF InAnswer
  <2>1. reqs = <<>> /\ reply = <<>> /\ inbox = <<>>
    BY DEF QueryInv, Settled, WireClean
  <2>2. reqs' = <<r>> /\ reqs'[1] = r /\ reqs' # <<>>
    <3>1. <<>> \in Seq(Requests) /\ Append(<<>>, r) = <<r>>
      OBVIOUS
    <3> QED BY <1>3, <2>1, <3>1
  <2>3. Id' = <<call, sends + 1>>
    BY <1>1 DEF Id
  <2> QED BY <1>1, <1>3, <1>7, <2>1, <2>2, <2>3 DEF Waiting
<1>9. Output'
  <2>1. Body(Id, rowCount)' = <<>> /\ <<>> \o <<>> = <<>>
    BY <1>1, EndsFacts, ConcatEmptySeq DEF Body
  <2> QED BY <1>1, <1>2, <1>4, <2>1 DEF Output, SessionTypes, Reading
<1> QED BY <1>4, <1>5, <1>6, <1>8, <1>9 DEF QueryInv

-----------------------------------------------------------------------------
(* The actions, one lemma each or one for those alike *)

(* The initial state.                                                      *)
LEMMA QueryInit ==
    ASSUME Init
    PROVE  QueryInv
<1>1. /\ reqs = <<>> /\ reply = <<>> /\ inbox = <<>> /\ made = 0 /\ alive = TRUE
      /\ watcher = "none" /\ past = FALSE
      /\ pc = "idle" /\ call = 0 /\ result = "none" /\ sends = 0 /\ pgError = "none"
      /\ out = <<>> /\ sent = <<>> /\ rowCount = 0 /\ clean = TRUE
  BY DEF Init, SessionInit
<1>2. SessionTypes
  BY <1>1 DEF SessionTypes
<1>3. QueryTypes
  BY <1>1, EndsFacts DEF QueryTypes, Results
<1>4. Control /\ Watching /\ Settled /\ InAnswer
  BY <1>1 DEF Control, Watching, Settled, WireClean, InAnswer, Reading
<1>5. IsPrefix(sent \o out, FullOutput)
  <2>1. <<>> \o <<>> = <<>>
    BY EndsFacts, ConcatEmptySeq
  <2>2. Id \in Ids /\ FullOutput = Whole(Id, 0)
    BY <1>1 DEF Id, Ids, FullOutput, Whole
  <2>3. Whole(Id, 0) \in Seq(Messages)
    BY <2>2, BodyNext
  <2>4. IsPrefix(<<>>, Whole(Id, 0))
    BY <2>3, EndsFacts, PrefixFacts
  <2> QED BY <1>1, <2>1, <2>2, <2>4
<1>6. Output
  BY <1>1, <1>5 DEF Output
<1> QED BY <1>2, <1>3, <1>4, <1>6 DEF QueryInv

(* A call begins, or is refused, on the wire the last one left.            *)
LEMMA BeginStep ==
    ASSUME SessionTypes, Watching, call \in Nat, sends \in Nat, Begin \/ Refuse
    PROVE  QueryInv'
<1>1. /\ pc = "idle" /\ call' = call + 1 /\ sent' = <<>> /\ out' = <<>> /\ rowCount' = 0
      /\ pgError' = "none" /\ clean' = WireClean /\ past' = past
      /\ UNCHANGED <<reqs, reply, made, inbox, alive>>
  BY DEF Begin, Refuse, Usable, serverVars, AttachContext
<1>2. watcher = "none" /\ ~past
  BY <1>1 DEF Watching
<1>3. SessionTypes' /\ WireClean' = WireClean
  BY <1>1 DEF SessionTypes, WireClean
<1>4. <<>> \o <<>> = <<>>
  BY EndsFacts, ConcatEmptySeq
<1>5. CASE Begin
  <2>1. pc' = "send" /\ result' = "none" /\ sends' = 0
    BY <1>5 DEF Begin
  <2>2. QueryTypes'
    BY <1>1, <2>1, EndsFacts DEF QueryTypes, WireClean, Results
  <2>3. Control' /\ Watching' /\ InAnswer' /\ Output'
    BY <1>1, <1>2, <2>1 DEF Control, Watching, InAnswer, Output, Reading
  <2>4. Settled'
    BY <1>1, <1>3 DEF Settled
  <2> QED BY <1>3, <2>2, <2>3, <2>4 DEF QueryInv
<1>6. CASE Refuse
  <2>1. pc' = "idle" /\ result' = "refused" /\ sends' = sends /\ watcher' = watcher /\ path' = path
    BY <1>1, <1>6 DEF Refuse
  <2>2. QueryTypes'
    BY <1>1, <2>1, EndsFacts DEF QueryTypes, WireClean, Results, Errors
  <2>3. Control' /\ Watching' /\ InAnswer'
    BY <1>1, <1>2, <2>1 DEF Control, Watching, InAnswer, Reading
  <2>4. Settled'
    BY <1>1, <1>3 DEF Settled
  <2>5. IsPrefix(<<>>, FullOutput')
    <3>1. Id' \in Ids /\ FullOutput' = Whole(Id', made') /\ made' \in Nat
      BY <1>1, <1>3, <2>2 DEF Id, Ids, FullOutput, Whole, SessionTypes, QueryTypes
    <3>2. Whole(Id', made') \in Seq(Messages)
      BY <3>1, BodyNext
    <3> QED BY <3>1, <3>2, EndsFacts, PrefixFacts
  <2>6. Output'
    BY <1>1, <1>4, <2>1, <2>5 DEF Output
  <2> QED BY <1>3, <2>2, <2>3, <2>4, <2>6 DEF QueryInv
<1> QED BY <1>5, <1>6

(* A request is sent.                                                      *)
LEMMA SendSteps ==
    ASSUME QueryInv, SendPrepare \/ SendExecute \/ SendSimple \/ SendPing
    PROVE  QueryInv'
<1>1. CASE SendPrepare
  <2>1. pc = "send" /\ Send("prepare", "describe") /\ "prepare" \in AskedKinds
        /\ "describe" \in Reading
    BY <1>1 DEF SendPrepare, AskedKinds, Reading
  <2> QED BY <2>1, SendStep
<1>2. CASE SendExecute
  <2>1. pc \in {"send", "bind"} /\ path = "cached" /\ Send("execute", "execute")
        /\ "execute" \in AskedKinds /\ "execute" \in Reading
    BY <1>2 DEF SendExecute, Execute, AskedKinds, Reading
  <2> QED BY <2>1, SendStep
<1>3. CASE SendSimple
  <2>1. pc = "send" /\ path = "simple" /\ Send("simple", "text") /\ "simple" \in AskedKinds
        /\ "text" \in Reading
    BY <1>3 DEF SendSimple, AskedKinds, Reading
  <2> QED BY <2>1, SendStep
<1>4. CASE SendPing
  <2>1. pc = "send" /\ path = "ping" /\ Send("ping", "ping") /\ "ping" \in AskedKinds
        /\ "ping" \in Reading
    BY <1>4 DEF SendPing, AskedKinds, Reading
  <2> QED BY <2>1, SendStep
<1> QED BY <1>1, <1>2, <1>3, <1>4

(* A call that returns before it sent its request, or between two.         *)
LEMMA UnsentSteps ==
    ASSUME QueryInv, SendFails \/ BadArgument \/ BackoffExpires
    PROVE  QueryInv'
<1>1. /\ pc \in {"send", "bind", "backoff"} /\ pc' = "detach"
      /\ result' \in {"broken", "args", "pg"}
      /\ UNCHANGED Steady /\ UNCHANGED <<reqs, alive, inbox, sent, out, rowCount, pgError>>
  BY DEF SendFails, BadArgument, BackoffExpires, Return, Steady, sessionVars, serverVars,
         ctxVars, callVars, outVars
<1>2. /\ inbox' \in Seq(Messages) /\ out' \in Seq(Messages) /\ sent' \in Seq(Messages)
      /\ rowCount' \in Nat /\ pgError' \in Codes \cup {"none"} /\ result' \in Results \ {"none"}
  BY <1>1 DEF QueryInv, SessionTypes, QueryTypes, Results, Errors
<1>3. clean => WireClean'
  BY <1>1 DEF QueryInv, Settled, WireClean, Steady
<1>4. clean => IsPrefix(sent' \o out', FullOutput) /\ (reqs # <<>> => sent' = <<>> /\ out' = <<>>)
  BY <1>1, Delivered
<1>5. result' # "ok" /\ pc \notin {"idle", "detach"}
  BY <1>1
<1> QED BY <1>1, <1>2, <1>3, <1>4, <1>5, ReturnStep

(* The messages a reader has are of the answer to the request sent last.   *)
LEMMA ReaderFacts ==
    ASSUME QueryInv, pc \in Reading, inbox # <<>>, inbox' = Tail(inbox),
           UNCHANGED <<reqs, reply, made>>,
           NEW k, k = Asked, NEW id, id = Id, NEW n, n = rowCount, NEW e, e = pgError
    PROVE  LET a == Head(inbox) IN
           /\ a \in Messages /\ inbox' \in Seq(Messages)
           /\ k \in AskedKinds /\ id \in Ids /\ n \in Nat
           /\ clean =>
                /\ reqs = <<>>
                /\ Answered(k, id, n, e, TRUE)'
                /\ a.t = "ReadyForQuery" => WireClean'
                /\ pc # "abort" =>
                     /\ ComesNext(made, k, id, n, e, a)
                     /\ a.t = "DataRow" => Answered(k, id, n + 1, e, FALSE)'
                     /\ a.t \notin {"DataRow", "Error"} => Answered(k, id, n, e, FALSE)'
                     /\ a.t = "Error" => \A c : c # "none" => Answered(k, id, n, c, FALSE)'
<1>1. k \in AskedKinds /\ id \in Ids /\ n \in Nat /\ SessionTypes
  BY DEF QueryInv, QueryTypes, Asked, AskedKinds, Id, Ids
<1>2. Head(inbox) \in Messages /\ inbox' \in Seq(Messages)
  BY <1>1, HeadTailProperties DEF SessionTypes
<1>3. PICK skims \in BOOLEAN : skims = (pc = "abort")
  OBVIOUS
<1>4. ASSUME clean PROVE Waiting(k, id, n, e) \/ Answered(k, id, n, e, skims)
  BY <1>3, <1>4 DEF QueryInv, InAnswer
<1>5. ASSUME clean
      PROVE  LET a == Head(inbox) IN
             /\ reqs = <<>>
             /\ Answered(k, id, n, e, TRUE)'
             /\ a.t = "ReadyForQuery" => WireClean'
             /\ ~skims =>
                  /\ ComesNext(made, k, id, n, e, a)
                  /\ a.t = "DataRow" => Answered(k, id, n + 1, e, FALSE)'
                  /\ a.t \notin {"DataRow", "Error"} => Answered(k, id, n, e, FALSE)'
                  /\ a.t = "Error" => \A c : c # "none" => Answered(k, id, n, c, FALSE)'
  BY <1>1, <1>4, <1>5, TakeAnswered
<1> QED BY <1>1, <1>2, <1>3, <1>5

(* A reader that returns with what was delivered and buffered as it is.    *)
LEMMA ReaderReturns ==
    ASSUME QueryInv,
           ReadFails \/ Unexpected \/ BadDescription \/ PingError \/ PingOK \/ AbortDone
    PROVE  QueryInv'
<1>1. /\ pc \in Reading /\ pc' = "detach" /\ result' \in {"lost", "broken", "ok", "cap"}
      /\ UNCHANGED Steady /\ UNCHANGED <<reqs, alive, sent, out, rowCount>>
      /\ \/ result' \in {"lost", "broken"}
         \/ (result' = "ok" => pc = "ping") /\ Read("ReadyForQuery")
  BY DEF ReadFails, Unexpected, BadDescription, PingError, PingOK, AbortDone, Reading, Return,
         Steady, readFrame, ctxVars, callVars, outVars
<1>2. inbox \in Seq(Messages) /\ <<>> \in Seq(Messages)
  BY DEF QueryInv, SessionTypes
<1>3. \/ inbox' \in {inbox, <<>>}
      \/ inbox # <<>> /\ inbox' = Tail(inbox)
  BY DEF ReadFails, Unexpected, BadDescription, PingError, PingOK, AbortDone, Read, LostOnError
<1>4. inbox # <<>> => Head(inbox) \in Messages /\ Tail(inbox) \in Seq(Messages)
  BY <1>2, HeadTailProperties
<1>5. inbox' \in Seq(Messages)
  BY <1>2, <1>3, <1>4
<1>6. pgError' \in Codes \cup {"none"}
  <2>1. pgError' = pgError \/ (inbox # <<>> /\ Head(inbox).t = "Error" /\ pgError' = Head(inbox).code)
    BY DEF ReadFails, Unexpected, BadDescription, PingError, PingOK, AbortDone, Read
  <2> QED BY <1>4, <2>1, MessageParts DEF QueryInv, QueryTypes
<1>7. /\ out' \in Seq(Messages) /\ sent' \in Seq(Messages) /\ rowCount' \in Nat
      /\ result' \in Results \ {"none"}
      /\ pc \notin {"idle", "detach"} /\ (pc = "ping" => path = "ping")
  BY <1>1 DEF QueryInv, QueryTypes, Control, Results, Errors, Reading
<1>8. clean /\ result' \notin {"lost", "broken"} => WireClean'
  <2>1. SUFFICES ASSUME clean, Read("ReadyForQuery") PROVE WireClean'
    BY <1>1
  <2>2. inbox # <<>> /\ Head(inbox).t = "ReadyForQuery" /\ inbox' = Tail(inbox)
        /\ UNCHANGED <<reqs, reply, made>>
    BY <1>1, <2>1 DEF Read, Steady
  <2> QED BY <1>1, <2>1, <2>2, ReaderFacts
<1>9. clean => IsPrefix(sent' \o out', FullOutput) /\ (reqs # <<>> => sent' = <<>> /\ out' = <<>>)
  BY <1>1, Delivered
<1> QED BY <1>1, <1>5, <1>6, <1>7, <1>8, <1>9, ReturnStep

(* A reader passes over a message, or keeps the description or the error.  *)
LEMMA ReadOnSteps ==
    ASSUME QueryInv, Skip \/ ReadDescription \/ ReadError
    PROVE  QueryInv'
<1>1. /\ pc \in Reading /\ pc' = pc /\ UNCHANGED <<result, reqs, alive, out, sent, rowCount>>
      /\ UNCHANGED Steady
      /\ inbox # <<>> /\ inbox' = Tail(inbox)
  BY DEF Skip, Skipped, ReadDescription, ReadError, RememberError, Read, Reading, Steady,
         readFrame, ctxVars, callVars, outVars
<1>2. PICK k, id, n, e : k = Asked /\ id = Id /\ n = rowCount /\ e = pgError
  OBVIOUS
<1>3. UNCHANGED <<reqs, reply, made>> /\ Asked' = k /\ Id' = id /\ rowCount' = n
  BY <1>1, <1>2 DEF Steady, Asked, Id
<1> DEFINE a == Head(inbox)
<1>4. /\ a \in Messages /\ inbox' \in Seq(Messages)
      /\ clean =>
           /\ reqs = <<>>
           /\ Answered(k, id, n, e, TRUE)'
           /\ pc # "abort" =>
                /\ a.t \notin {"DataRow", "Error"} => Answered(k, id, n, e, FALSE)'
                /\ a.t = "Error" => \A c : c # "none" => Answered(k, id, n, c, FALSE)'
  BY <1>1, <1>2, <1>3, ReaderFacts
<1>5. /\ pgError' \in Codes \cup {"none"}
      /\ \/ pgError' = e /\ (pc = "abort" \/ a.t \notin {"DataRow", "Error"})
         \/ pc # "abort" /\ a.t = "Error" /\ pgError' # "none"
  <2>1. CASE Skip \/ ReadDescription
    <3>1. pgError' = pgError
      BY <2>1 DEF Skip, ReadDescription
    <3>2. pc = "abort" \/ a.t \notin {"DataRow", "Error"}
      BY <2>1 DEF Skip, Skipped, ReadDescription, Read
    <3> QED BY <1>2, <3>1, <3>2 DEF QueryInv, QueryTypes
  <2>2. CASE ReadError
    <3>1. pgError' = a.code /\ a.t = "Error" /\ pc # "abort"
      BY <2>2 DEF ReadError, RememberError, Read
    <3>2. a.code \in Codes /\ "none" \notin Codes
      BY <1>4, <3>1, MessageParts DEF Codes, StaleStmt, Serialization, Canceled
    <3> QED BY <3>1, <3>2
  <2> QED BY <2>1, <2>2
<1>6. clean => Answered(Asked, Id, rowCount, pgError, pc = "abort")'
  <2> SUFFICES ASSUME clean PROVE Answered(Asked, Id, rowCount, pgError, pc = "abort")'
    OBVIOUS
  <2>1. PICK f : f = pgError'
    OBVIOUS
  <2>2. PICK skims \in BOOLEAN : skims = (pc = "abort")
    OBVIOUS
  <2>3. Answered(k, id, n, f, skims)'
    <3>1. CASE skims
      <4>1. Answered(k, id, n, e, TRUE)'
        BY <1>4
      <4> QED BY <3>1, <4>1 DEF Answered
    <3>2. CASE ~skims
      <4>1. Answered(k, id, n, f, FALSE)'
        BY <1>4, <1>5, <2>1, <2>2, <3>2
      <4> QED BY <3>2, <4>1 DEF Answered
    <3> QED BY <3>1, <3>2
  <2> QED BY <1>1, <1>3, <2>1, <2>2, <2>3 DEF Answered
<1>7. clean => reqs = <<>>
  BY <1>4
<1>8. clean /\ pc \in {"execute", "text", "abort"} =>
        sent' \o out' = Body(Id, rowCount') /\ rowCount' <= made
  BY <1>1, <1>7 DEF QueryInv, Output
<1>9. out' \in Seq(Messages) /\ sent' \in Seq(Messages) /\ rowCount' \in Nat
  BY <1>1 DEF QueryInv, QueryTypes
<1> QED BY <1>1, <1>4, <1>5, <1>6, <1>7, <1>8, <1>9, ReadOnStep

(* Three parts of the output.                                              *)
LEMMA ThreeParts ==
    ASSUME NEW S, NEW a \in Seq(S), NEW b \in Seq(S), NEW c \in Seq(S)
    PROVE  /\ b \o c \in Seq(S) /\ (a \o b) \o c \in Seq(S)
           /\ a \o (b \o c) = (a \o b) \o c
           /\ ((a \o b) \o c) \o <<>> = (a \o b) \o c
           /\ IsPrefix((a \o b) \o c, (a \o b) \o c)
<1>1. a \o b \in Seq(S) /\ b \o c \in Seq(S)
  BY ConcatProperties
<1>2. (a \o b) \o c \in Seq(S)
  BY <1>1, ConcatProperties
<1>3. a \o (b \o c) = (a \o b) \o c
  BY ConcatAssociative
<1> DEFINE d == (a \o b) \o c
<1>4. d \in Seq(S)
  BY <1>2
<1> HIDE DEF d
<1>5. d \o <<>> = d /\ IsPrefix(d, d)
  BY <1>4, ConcatEmptySeq, PrefixFacts
<1> QED BY <1>1, <1>2, <1>3, <1>5 DEF d

(* What a DataRow adds to the output.                                      *)
LEMMA RowItems ==
    ASSUME QueryInv, pc \in {"execute", "text"}, Read("DataRow"), UNCHANGED <<reqs, reply, made>>
    PROVE  /\ HeaderDue \in Seq(Messages) /\ WithRow(Head(inbox)) \in Seq(Messages)
           /\ clean =>
                /\ reqs = <<>> /\ rowCount < made /\ sent \o out = Body(Id, rowCount)
                /\ Body(Id, rowCount) \o HeaderDue = Body(Id, rowCount) \o Due(rowCount)
                /\ Body(Id, rowCount) \o WithRow(Head(inbox)) = Body(Id, rowCount + 1)
<1> DEFINE a == Head(inbox)
           x == <<Row(a.id, a.i)>>
<1>1. pc \in Reading /\ inbox # <<>> /\ inbox' = Tail(inbox) /\ a.t = "DataRow"
  BY DEF Read, Reading
<1>2. PICK k, id, n, e : k = Asked /\ id = Id /\ n = rowCount /\ e = pgError
  OBVIOUS
<1>3. /\ a \in Messages /\ k \in AskedKinds /\ id \in Ids /\ n \in Nat
      /\ clean => reqs = <<>> /\ ComesNext(made, k, id, n, e, a)
  BY <1>1, <1>2, ReaderFacts
<1>4. HeaderDue = Due(n) /\ Due(n) \in Seq(Messages)
  BY <1>2, <1>3, BodyNext DEF HeaderDue, Due
<1>5. x \in Seq(Messages)
  <2>1. Row(a.id, a.i) \in Messages
    BY <1>1, <1>3, MessageParts, MessageFacts
  <2> QED BY <2>1
<1>6. HeaderDue \in Seq(Messages) /\ WithRow(a) \in Seq(Messages)
  BY <1>4, <1>5, ConcatProperties DEF WithRow
<1>7. ASSUME clean
      PROVE  /\ reqs = <<>> /\ rowCount < made /\ sent \o out = Body(Id, rowCount)
             /\ Body(Id, rowCount) \o WithRow(a) = Body(Id, rowCount + 1)
  <2>1. a.id = id /\ a.i = n + 1 /\ n < made
    BY <1>1, <1>3, <1>7 DEF ComesNext, Opening
  <2>2. WithRow(a) = Due(n) \o <<Row(id, n + 1)>>
    BY <1>4, <2>1 DEF WithRow
  <2>3. Body(id, n) \o WithRow(a) = Body(id, n + 1)
    BY <1>3, <2>2, BodyNext
  <2> QED BY <1>2, <1>3, <1>7, <2>1, <2>3 DEF QueryInv, Output
<1> QED BY <1>2, <1>4, <1>6, <1>7

(* A row is written, and delivered or kept; the cap may be reached.        *)
LEMMA ReadRowStep ==
    ASSUME QueryInv, ReadRow
    PROVE  QueryInv'
<1> DEFINE a == Head(inbox)
           w == WithRow(a)
<1>1. /\ pc \in {"execute", "text"} /\ pc \in Reading
      /\ Read("DataRow") /\ inbox # <<>> /\ inbox' = Tail(inbox) /\ a.t = "DataRow"
      /\ MaybeFlush(w) /\ rowCount' = rowCount + 1 /\ pc' \in {pc, "abort"}
      /\ UNCHANGED Steady /\ UNCHANGED <<result, reqs, alive, pgError>>
  BY DEF ReadRow, Read, Reading, Steady, readFrame, ctxVars, callVars
<1>2. PICK k, id, n, e : k = Asked /\ id = Id /\ n = rowCount /\ e = pgError
  OBVIOUS
<1>3. UNCHANGED <<reqs, reply, made>> /\ Id' = id /\ rowCount' = n + 1 /\ pgError' = e
  BY <1>1, <1>2 DEF Steady, Id
<1>4. Asked' = k
  <2>1. path' = path /\ path \in {"cached", "simple"}
    BY <1>1 DEF QueryInv, Control, Steady
  <2> QED BY <1>1, <1>2, <2>1 DEF Asked
<1>5. /\ inbox' \in Seq(Messages) /\ n \in Nat
      /\ clean => Answered(k, id, n + 1, e, FALSE)'
  BY <1>1, <1>2, <1>3, ReaderFacts
<1>6. clean => Answered(Asked, Id, rowCount, pgError, pc = "abort")'
  BY <1>3, <1>4, <1>5 DEF Answered
<1>7. /\ w \in Seq(Messages)
      /\ clean => /\ reqs = <<>> /\ n < made /\ sent \o out = Body(Id, n)
                  /\ Body(Id, n) \o w = Body(Id, n + 1)
  BY <1>1, <1>2, <1>3, RowItems
<1>8. sent \in Seq(Messages) /\ out \in Seq(Messages) /\ made \in Nat /\ <<>> \in Seq(Messages)
      /\ pgError \in Codes \cup {"none"}
  BY DEF QueryInv, SessionTypes, QueryTypes
<1> HIDE DEF w
<1>9. sent' \in Seq(Messages) /\ out' \in Seq(Messages) /\ sent' \o out' = (sent \o out) \o w
  <2>1. /\ out \o w \in Seq(Messages) /\ sent \o out \in Seq(Messages)
        /\ (sent \o out) \o w \in Seq(Messages)
        /\ sent \o (out \o w) = (sent \o out) \o w
        /\ ((sent \o out) \o w) \o <<>> = (sent \o out) \o w
    BY <1>7, <1>8, ThreeParts, ConcatProperties
  <2>2. CASE out' = out \o w /\ sent' = sent
    BY <1>8, <2>1, <2>2
  <2>3. CASE out' = <<>> /\ sent' = (sent \o out) \o w
    BY <1>8, <2>1, <2>3
  <2> QED BY <1>1, <2>2, <2>3 DEF MaybeFlush
<1>10. clean => sent' \o out' = Body(Id, rowCount') /\ rowCount' <= made /\ reqs = <<>>
  <2> SUFFICES ASSUME clean
               PROVE  sent' \o out' = Body(Id, rowCount') /\ rowCount' <= made /\ reqs = <<>>
    OBVIOUS
  <2>1. n < made => n + 1 <= made
    BY <1>5, <1>8
  <2>2. n + 1 <= made /\ reqs = <<>> /\ sent \o out = Body(Id, n) /\ Body(Id, n) \o w = Body(Id, n + 1)
    BY <1>7, <2>1
  <2> QED BY <1>3, <1>9, <2>2, Zenon
<1>11. rowCount' \in Nat /\ pgError' \in Codes \cup {"none"} /\ pc \notin {"describe", "ping"}
  BY <1>1, <1>3, <1>5, <1>8
<1> QED BY <1>1, <1>5, <1>6, <1>9, <1>10, <1>11, ReadOnStep

(* A row does not decode, or its writer fails: the call ends with a        *)
(* beginning of the output.                                                *)
LEMMA RowFailsStep ==
    ASSUME QueryInv, RowFails
    PROVE  QueryInv'
<1> DEFINE w == WithRow(Head(inbox))
           h == HeaderDue
<1>1. /\ pc \in {"execute", "text"} /\ Read("DataRow") /\ inbox # <<>> /\ inbox' = Tail(inbox)
      /\ pc' = "detach" /\ result' = "broken"
      /\ out' \in {out \o h, out \o w}
      /\ UNCHANGED Steady /\ UNCHANGED <<reqs, alive, sent, rowCount, pgError>>
  BY DEF RowFails, Read, Return, Steady, readFrame, ctxVars, callVars
<1>2. UNCHANGED <<reqs, reply, made>>
  BY <1>1 DEF Steady
<1>3. /\ h \in Seq(Messages) /\ w \in Seq(Messages)
      /\ clean => /\ reqs = <<>> /\ rowCount < made /\ sent \o out = Body(Id, rowCount)
                  /\ Body(Id, rowCount) \o h = Body(Id, rowCount) \o Due(rowCount)
                  /\ Body(Id, rowCount) \o w = Body(Id, rowCount + 1)
  BY <1>1, <1>2, RowItems
<1>4. /\ sent \in Seq(Messages) /\ out \in Seq(Messages) /\ made \in Nat /\ rowCount \in Nat
      /\ inbox \in Seq(Messages) /\ pgError \in Codes \cup {"none"}
      /\ Id \in Ids /\ FullOutput = Whole(Id, made)
  BY DEF QueryInv, SessionTypes, QueryTypes, Id, Ids, FullOutput, Whole
<1> HIDE DEF w, h
<1>5. /\ out \o h \in Seq(Messages) /\ out \o w \in Seq(Messages)
      /\ sent \o (out \o h) = (sent \o out) \o h /\ sent \o (out \o w) = (sent \o out) \o w
  <2>1. sent \in Seq(Messages) /\ out \in Seq(Messages)
    BY <1>4
  <2>2. h \in Seq(Messages) /\ w \in Seq(Messages)
    BY <1>3
  <2>3. out \o h \in Seq(Messages) /\ sent \o (out \o h) = (sent \o out) \o h
    BY <2>1, <2>2, ThreeParts
  <2>4. out \o w \in Seq(Messages) /\ sent \o (out \o w) = (sent \o out) \o w
    BY <2>1, <2>2, ThreeParts
  <2> QED BY <2>3, <2>4
<1>6. ASSUME clean PROVE IsPrefix(sent' \o out', FullOutput)
  <2>1. rowCount < made => rowCount \in 0..made /\ rowCount + 1 \in 0..made
    BY <1>4
  <2>2. rowCount \in 0..made /\ rowCount + 1 \in 0..made
    BY <1>3, <1>6, <2>1
  <2>3. IsPrefix(Body(Id, rowCount) \o Due(rowCount), Whole(Id, made))
    BY <1>4, <2>2, BodyPrefix
  <2>4. IsPrefix(Body(Id, rowCount + 1), Whole(Id, made))
    BY <1>4, <2>2, BodyPrefix
  <2>5. sent' \o out' \in {Body(Id, rowCount) \o Due(rowCount), Body(Id, rowCount + 1)}
    BY <1>1, <1>3, <1>5, <1>6
  <2> QED BY <1>4, <2>3, <2>4, <2>5
<1>7. inbox' \in Seq(Messages)
  BY <1>1, <1>4, HeadTailProperties
<1>8. "broken" \in Results \ {"none"}
  BY DEF Results, Errors
<1>9. out' \in Seq(Messages) /\ sent' \in Seq(Messages)
  BY <1>1, <1>4, <1>5
<1>10. clean => reqs = <<>>
  BY <1>3
<1> QED BY <1>1, <1>4, <1>6, <1>7, <1>8, <1>9, <1>10, ReturnStep

(* ReadyForQuery of a result without an error: the output is whole.        *)
LEMMA FinishItems ==
    ASSUME QueryInv, pc \in {"execute", "text"}, NoError, Read("ReadyForQuery"),
           UNCHANGED <<reqs, reply, made>>
    PROVE  /\ Completed \in Seq(Messages) /\ inbox' \in Seq(Messages)
           /\ clean => reqs = <<>> /\ WireClean' /\ (sent \o out) \o Completed = FullOutput
<1> DEFINE a == Head(inbox)
<1>1. pc \in Reading /\ inbox # <<>> /\ inbox' = Tail(inbox) /\ a.t = "ReadyForQuery"
  BY DEF Read, Reading
<1>2. PICK k, id, n, e : k = Asked /\ id = Id /\ n = rowCount /\ e = pgError
  OBVIOUS
<1>3. /\ a \in Messages /\ inbox' \in Seq(Messages) /\ id \in Ids /\ n \in Nat
      /\ clean => reqs = <<>> /\ WireClean' /\ ComesNext(made, k, id, n, e, a)
  BY <1>1, <1>2, ReaderFacts
<1>4. Completed = Due(n) \o Footer /\ Due(n) \in Seq(Messages)
  BY <1>2, <1>3, BodyNext DEF Completed, HeaderDue, Due
<1>5. Completed \in Seq(Messages)
  BY <1>4, EndsFacts, ConcatProperties
<1>6. ASSUME clean PROVE (sent \o out) \o Completed = FullOutput
  <2>1. k \in Tabular /\ e = "none"
    <3>1. path \in {"cached", "simple"}
      BY DEF QueryInv, Control
    <3> QED BY <1>2, <3>1 DEF Asked, Tabular, NoError
  <2>2. n = made
    BY <1>1, <1>3, <1>6, <2>1 DEF ComesNext, Opening
  <2>3. sent \o out = Body(id, n)
    BY <1>2, <1>6 DEF QueryInv, Output
  <2>4. Body(id, n) \o (Due(n) \o Footer) = Whole(id, n)
    BY <1>3, BodyNext
  <2>5. FullOutput = Whole(id, n)
    BY <1>2, <2>2 DEF FullOutput, Whole, Id
  <2> QED BY <1>4, <2>3, <2>4, <2>5
<1> QED BY <1>3, <1>5, <1>6

(* The result is complete, and delivered or not.                           *)
LEMMA FinishSteps ==
    ASSUME QueryInv, FinishOK \/ FinishFails
    PROVE  QueryInv'
<1> DEFINE f == Completed
<1>1. /\ pc \in {"execute", "text"} /\ NoError /\ Read("ReadyForQuery")
      /\ pc' = "detach" /\ UNCHANGED Steady /\ UNCHANGED <<reqs, alive, rowCount, pgError>>
      /\ \/ sent' = (sent \o out) \o f /\ out' = <<>> /\ result' = "ok"
         \/ sent' = sent /\ out' = out \o f /\ result' = "broken"
  BY DEF FinishOK, FinishFails, Return, Steady, readFrame, ctxVars, callVars
<1>2. UNCHANGED <<reqs, reply, made>>
  BY <1>1 DEF Steady
<1>3. /\ f \in Seq(Messages) /\ inbox' \in Seq(Messages)
      /\ clean => reqs = <<>> /\ WireClean' /\ (sent \o out) \o f = FullOutput
  BY <1>1, <1>2, FinishItems
<1>4. /\ sent \in Seq(Messages) /\ out \in Seq(Messages) /\ <<>> \in Seq(Messages)
      /\ rowCount \in Nat /\ pgError \in Codes \cup {"none"}
      /\ "ok" \in Results \ {"none"} /\ "broken" \in Results \ {"none"}
  BY DEF QueryInv, QueryTypes, Results, Errors
<1> HIDE DEF f
<1>5. /\ out \o f \in Seq(Messages) /\ (sent \o out) \o f \in Seq(Messages)
      /\ sent \o (out \o f) = (sent \o out) \o f
      /\ ((sent \o out) \o f) \o <<>> = (sent \o out) \o f
      /\ IsPrefix((sent \o out) \o f, (sent \o out) \o f)
  BY <1>3, <1>4, ThreeParts
<1>6. /\ sent' \in Seq(Messages) /\ out' \in Seq(Messages)
      /\ result' \in Results \ {"none"}
  BY <1>1, <1>4, <1>5
<1>7. clean => IsPrefix(sent' \o out', FullOutput)
  BY <1>1, <1>3, <1>5
<1>8. clean => (result' = "ok" => sent' = FullOutput /\ out' = <<>>)
  BY <1>1, <1>3
<1> QED BY <1>1, <1>3, <1>4, <1>6, <1>7, <1>8, ReturnStep

(* A reader is at its ReadyForQuery, and the call goes on or returns.      *)
LEMMA ReadyItems ==
    ASSUME QueryInv, pc \in Reading, Read("ReadyForQuery"), UNCHANGED <<reqs, reply, made>>
    PROVE  inbox' \in Seq(Messages) /\ (clean => reqs = <<>> /\ WireClean')
<1>1. inbox # <<>> /\ inbox' = Tail(inbox) /\ Head(inbox).t = "ReadyForQuery"
  BY DEF Read
<1>2. PICK k, id, n, e : k = Asked /\ id = Id /\ n = rowCount /\ e = pgError
  OBVIOUS
<1> QED BY <1>1, <1>2, ReaderFacts

(* runQuery retries only while nothing was delivered.                      *)
LEMMA FailStep ==
    ASSUME QueryInv, pc \in Reading, Read("ReadyForQuery"), NEW res \in {"pg", "noplan"},
           NEW code, Fail(res, code), UNCHANGED Steady, UNCHANGED <<reqs, alive, sent, pgError>>
    PROVE  QueryInv'
<1>1. /\ UNCHANGED <<reqs, reply, made, clean>> /\ pc \notin {"idle", "detach"}
  BY DEF Steady, Reading
<1>2. inbox' \in Seq(Messages) /\ (clean => reqs = <<>> /\ WireClean')
  BY <1>1, ReadyItems
<1>3. pgError' \in Codes \cup {"none"} /\ sent' \in Seq(Messages) /\ out \in Seq(Messages)
      /\ rowCount \in Nat
  BY DEF QueryInv, QueryTypes
<1>4. CASE pc' = "detach" /\ result' = res /\ UNCHANGED <<out, rowCount>>
  <2>1. res \in Results \ {"none"} /\ res # "ok"
    BY DEF Results, Errors
  <2>2. clean => IsPrefix(sent' \o out', FullOutput)
    BY <1>4, Delivered
  <2> QED BY <1>1, <1>2, <1>3, <1>4, <2>1, <2>2, ReturnStep
<1>5. CASE pc' = "backoff" /\ ~Committed /\ out' = Reset(out) /\ rowCount' = 0 /\ result' = result
  <2>1. sent' = <<>> /\ out' = <<>> /\ rowCount' \in Nat
    BY <1>5 DEF Committed, Reset
  <2> QED BY <1>1, <1>2, <1>3, <1>5, <2>1, QuietStep
<1> QED BY <1>4, <1>5 DEF Fail, Return, Retryable

(* ReadyForQuery after an error, or of a prepare.                          *)
LEMMA ReadySteps ==
    ASSUME QueryInv, DescribeOK \/ DescribeFails \/ FinishStale \/ FinishError
    PROVE  QueryInv'
<1>1. /\ pc \in Reading /\ pc \notin {"idle", "detach"} /\ Read("ReadyForQuery")
      /\ UNCHANGED Steady /\ UNCHANGED <<reqs, reply, made, alive, sent, pgError>>
  BY DEF DescribeOK, DescribeFails, FinishStale, StaleRetry, FinishError, Reading, Steady,
         readFrame, ctxVars, callVars, outVars
<1>2. inbox' \in Seq(Messages) /\ (clean => WireClean')
  BY <1>1, ReadyItems
<1>3. pgError' \in Codes \cup {"none"} /\ rowCount \in Nat
  BY <1>1 DEF QueryInv, QueryTypes
<1>4. CASE DescribeOK
  <2>1. pc = "describe" /\ pc' = "bind" /\ result' = result /\ UNCHANGED <<out, sent, rowCount>>
    BY <1>4 DEF DescribeOK, outVars
  <2>2. sent' = <<>> /\ out' = <<>>
    BY <2>1 DEF QueryInv, Output
  <2> QED BY <1>1, <1>2, <1>3, <2>1, <2>2, QuietStep
<1>5. CASE FinishStale
  <2>1. pc' = "send" /\ result' = result /\ sent' = <<>> /\ out' = <<>> /\ rowCount' = 0
    BY <1>1, <1>5 DEF FinishStale, StaleRetry, Committed, Reset
  <2> QED BY <1>1, <1>2, <1>3, <2>1, QuietStep
<1>6. CASE DescribeFails
  <2>1. PICK res, code : res \in {"pg", "noplan"} /\ Fail(res, code)
    BY <1>6 DEF DescribeFails
  <2> QED BY <1>1, <2>1, FailStep
<1>7. CASE FinishError
  <2>1. Fail("pg", pgError)
    BY <1>7 DEF FinishError
  <2>2. PICK res, code : res \in {"pg", "noplan"} /\ Fail(res, code)
    BY <2>1
  <2> QED BY <1>1, <2>2, FailStep
<1> QED BY <1>4, <1>5, <1>6, <1>7

(* The backoff is over.                                                    *)
LEMMA RetryStep ==
    ASSUME QueryInv, Retry
    PROVE  QueryInv'
<1>1. /\ pc = "backoff" /\ pc' = "send" /\ UNCHANGED Steady
      /\ UNCHANGED <<result, reqs, alive, inbox, out, sent, rowCount, pgError>>
  BY DEF Retry, Steady, sessionVars, serverVars, ctxVars, callVars, outVars
<1>2. /\ inbox' \in Seq(Messages) /\ rowCount' \in Nat /\ pgError' \in Codes \cup {"none"}
      /\ sent' = <<>> /\ out' = <<>>
  BY <1>1 DEF QueryInv, SessionTypes, QueryTypes, Output
<1>3. clean => WireClean'
  BY <1>1 DEF QueryInv, Settled, WireClean, Steady
<1> QED BY <1>1, <1>2, <1>3, QuietStep

(* The watcher is gone, and with it the deadline.                          *)
LEMMA DetachStep ==
    ASSUME QueryInv, Detach
    PROVE  QueryInv'
<1>1. /\ pc = "detach" /\ pc' = "idle" /\ watcher' = "none" /\ ~past'
      /\ UNCHANGED <<reqs, reply, made, inbox, alive, call, path, result, sends, pgError, out,
                     sent, rowCount, clean>>
  <2>1. past' = IF watcher = "none" THEN past ELSE FALSE
    BY DEF Detach, DetachContext
  <2>2. ~past'
    BY <2>1 DEF QueryInv, Watching
  <2> QED BY <2>2 DEF Detach, DetachContext, serverVars, callVars, outVars
<1>2. SessionTypes'
  BY <1>1 DEF QueryInv, SessionTypes
<1>3. QueryTypes'
  BY <1>1 DEF QueryInv, QueryTypes
<1>4. Control' /\ Watching' /\ InAnswer'
  BY <1>1 DEF Control, Watching, InAnswer, Reading
<1>5. Settled'
  BY <1>1 DEF QueryInv, Settled, WireClean
<1>6. FullOutput' = FullOutput
  BY <1>1 DEF FullOutput
<1>7. Output'
  BY <1>1, <1>6 DEF QueryInv, Output
<1> QED BY <1>2, <1>3, <1>4, <1>5, <1>7 DEF QueryInv

(* The backend, the network and the watcher, while the call does nothing.  *)
LEMMA EnvironmentStep ==
    ASSUME QueryInv, Environment, UNCHANGED queryVars
    PROVE  QueryInv'
<1>1. UNCHANGED <<pc, call, path, result, sends, pgError, out, sent, rowCount, clean>>
  BY DEF queryVars, callVars, outVars
<1>2. /\ SessionTypes /\ SessionTypes' /\ (WireClean => WireClean')
      /\ reqs = <<>> => reqs' = <<>> /\ made' = made
  BY EnvironmentTypes DEF QueryInv
<1>3. QueryTypes'
  BY <1>1 DEF QueryInv, QueryTypes
<1>4. Control'
  BY <1>1 DEF QueryInv, Control
<1>5. Watching'
  <2>1. CASE WatcherCancels \/ WatcherDeadline
    BY <1>1, <2>1 DEF QueryInv, Watching, WatcherCancels, WatcherDeadline
  <2>2. CASE UNCHANGED <<watcher, past>>
    BY <1>1, <2>2 DEF QueryInv, Watching
  <2> QED BY <2>1, <2>2 DEF Environment, Serve, Emit, ServeGarbage, ServerDies, Rotate,
                            DeliverCancel, CtxExpires, ctxVars
<1>6. Settled'
  BY <1>1, <1>2 DEF QueryInv, Settled
<1>7. InAnswer'
  <2> SUFFICES ASSUME clean, pc \in Reading
               PROVE  \/ Waiting(Asked, Id, rowCount, pgError)' /\ pc # "abort"
                      \/ Answered(Asked, Id, rowCount, pgError, pc = "abort")'
    BY <1>1 DEF InAnswer
  <2>1. PICK k, id, n, e : k = Asked /\ id = Id /\ n = rowCount /\ e = pgError
    OBVIOUS
  <2>2. PICK skims \in BOOLEAN : skims = (pc = "abort")
    OBVIOUS
  <2>3. Asked' = k /\ Id' = id /\ rowCount' = n /\ pgError' = e /\ k \in AskedKinds
    BY <1>1, <2>1 DEF Asked, Id, AskedKinds
  <2>4. CASE Waiting(k, id, n, e) /\ pc # "abort"
    <3>1. Waiting(k, id, n, e)' \/ Answered(k, id, n, e, FALSE)'
      BY <1>2, <2>3, <2>4, EnvironmentWaiting
    <3> QED BY <1>1, <2>3, <2>4, <3>1 DEF Waiting, Answered
  <2>5. CASE Answered(k, id, n, e, skims)
    <3>1. Answered(k, id, n, e, skims)'
      BY <1>2, <2>3, <2>5, EnvironmentAnswered
    <3> QED BY <1>1, <2>2, <2>3, <3>1 DEF Answered
  <2> QED BY <2>1, <2>2, <2>4, <2>5 DEF QueryInv, InAnswer
<1>8. Output'
  <2>1. CASE reqs = <<>>
    <3>1. reqs' = <<>> /\ made' = made
      BY <1>2, <2>1
    <3>2. FullOutput' = FullOutput /\ Body(Id, rowCount)' = Body(Id, rowCount)
      BY <1>1, <3>1 DEF FullOutput, Body, Id
    <3> QED BY <1>1, <2>1, <3>1, <3>2 DEF QueryInv, Output
  <2>2. CASE reqs # <<>>
    <3>1. Body(Id, rowCount)' = Body(Id, rowCount) /\ made' \in Nat
      BY <1>1, <1>2 DEF Body, Id, SessionTypes
    <3>2. clean /\ pc \in {"execute", "text", "abort"} => rowCount = 0
      BY <2>2 DEF QueryInv, InAnswer, Waiting, Answered, Reading
    <3>3. clean /\ pc \in {"detach", "idle"} => sent = <<>> /\ out = <<>> /\ result # "ok"
      BY <2>2 DEF QueryInv, Output, Settled, WireClean
    <3>4. IsPrefix(<<>> \o <<>>, FullOutput')
      <4>1. <<>> \o <<>> = <<>>
        BY EndsFacts, ConcatEmptySeq
      <4>2. Id' \in Ids /\ FullOutput' = Whole(Id', made')
        BY <1>3 DEF Id, Ids, FullOutput, Whole, QueryTypes
      <4>3. Whole(Id', made') \in Seq(Messages)
        BY <3>1, <4>2, BodyNext
      <4>4. IsPrefix(<<>>, Whole(Id', made'))
        BY <4>3, EndsFacts, PrefixFacts
      <4> QED BY <4>1, <4>2, <4>4
    <3>5. ASSUME clean', pc' \in {"execute", "text", "abort"}
          PROVE  /\ (sent \o out)' = Body(Id, rowCount)'
                 /\ (reqs = <<>> => rowCount <= made)'
      <4>1. sent \o out = Body(Id, rowCount)
        BY <1>1, <3>5 DEF QueryInv, Output
      <4>2. rowCount' = 0
        BY <1>1, <3>2, <3>5
      <4>3. 0 <= made'
        BY <3>1
      <4> QED BY <1>1, <3>1, <4>1, <4>2, <4>3
    <3>6. ASSUME clean', pc' \in {"detach", "idle"}
          PROVE  sent' = <<>> /\ out' = <<>> /\ result' # "ok"
      BY <1>1, <3>3, <3>6
    <3>7. pc' \in {"send", "bind", "backoff", "describe", "ping"} => sent' = <<>> /\ out' = <<>>
      BY <1>1 DEF QueryInv, Output
    <3> QED BY <3>4, <3>5, <3>6, <3>7 DEF Output
  <2> QED BY <2>1, <2>2
<1> QED BY <1>2, <1>3, <1>4, <1>5, <1>6, <1>7, <1>8 DEF QueryInv

(* Every step keeps the invariant.                                         *)
LEMMA QueryNext ==
    ASSUME QueryInv, [Next]_vars
    PROVE  QueryInv'
<1>1. CASE Begin \/ Refuse
  BY <1>1, BeginStep DEF QueryInv, QueryTypes
<1>2. CASE Client
  <2>1. CASE SendPrepare \/ SendExecute \/ SendSimple \/ SendPing
    BY <2>1, SendSteps
  <2>2. CASE SendFails \/ BadArgument \/ BackoffExpires
    BY <2>2, UnsentSteps
  <2>3. CASE ReadFails \/ Unexpected \/ BadDescription \/ PingError \/ PingOK \/ AbortDone
    BY <2>3, ReaderReturns
  <2>4. CASE Skip \/ ReadDescription \/ ReadError
    BY <2>4, ReadOnSteps
  <2>5. CASE ReadRow
    BY <2>5, ReadRowStep
  <2>6. CASE RowFails
    BY <2>6, RowFailsStep
  <2>7. CASE FinishOK \/ FinishFails
    BY <2>7, FinishSteps
  <2>8. CASE DescribeOK \/ DescribeFails \/ FinishStale \/ FinishError
    BY <2>8, ReadySteps
  <2>9. CASE Retry
    BY <2>9, RetryStep
  <2>10. CASE Detach
    BY <2>10, DetachStep
  <2> QED BY <1>2, <2>1, <2>2, <2>3, <2>4, <2>5, <2>6, <2>7, <2>8, <2>9, <2>10 DEF Client
<1>3. CASE Environment /\ UNCHANGED queryVars
  BY <1>3, EnvironmentStep
<1>4. CASE UNCHANGED vars
  <2>1. UNCHANGED <<reqs, reply, made, inbox, alive, watcher, past, pc, call, path, result,
                    sends, pgError, out, sent, rowCount, clean>>
    BY <1>4 DEF vars, sessionVars, serverVars, ctxVars, callVars, outVars
  <2>2. SessionTypes' /\ QueryTypes' /\ Control' /\ Watching'
    BY <2>1 DEF QueryInv, SessionTypes, QueryTypes, Control, Watching
  <2>3. Settled' /\ InAnswer' /\ Output'
    BY <2>1 DEF QueryInv, Settled, WireClean, InAnswer, Waiting, Answered, Unread, Asked, Id,
                Output, Body, FullOutput
  <2> QED BY <2>2, <2>3 DEF QueryInv
<1> QED BY <1>1, <1>2, <1>3, <1>4 DEF Next, Stopped

(* The invariant holds in every state of every behaviour.                  *)
LEMMA QueryInvariant == Spec => []QueryInv
BY QueryInit, QueryNext, PTL DEF Spec

-----------------------------------------------------------------------------
(* The write buffer *)

\* Half a Bind is in writeBuf only between the call that left it there and the
\* next Flush.
WriteBuf ==
    torn => \/ pc = "send"
            \/ pc = "detach" /\ result \in {"args", "shape"}
            \/ pc = "idle" /\ result \in {"args", "shape", "refused"}

(* A step of the query engine, in a query or under a scan.                 *)
LEMMA ClientWriteBuf ==
    ASSUME WriteBuf, Client
    PROVE  WriteBuf'
<1>1. CASE SendPrepare \/ SendExecute \/ SendSimple \/ SendPing \/ SendFails
  <2>1. ~torn'
    BY <1>1 DEF SendPrepare, SendExecute, SendSimple, SendPing, Execute, Send, SendFails
  <2> QED BY <2>1 DEF WriteBuf
<1>2. CASE BadArgument
  BY <1>2 DEF BadArgument, Return, WriteBuf
<1>3. CASE \/ Skip \/ ReadFails \/ Unexpected \/ ReadDescription \/ BadDescription
           \/ ReadError \/ PingError \/ PingOK \/ DescribeOK \/ DescribeFails
           \/ ReadRow \/ RowFails \/ FinishOK \/ FinishFails \/ FinishStale \/ FinishError
           \/ AbortDone
  <2>1. pc \in Reading /\ torn' = torn
    BY <1>3 DEF Skip, Skipped, ReadFails, Unexpected, ReadDescription, BadDescription, ReadError,
                PingError, PingOK, DescribeOK, DescribeFails, ReadRow, RowFails, FinishOK,
                FinishFails, FinishStale, StaleRetry, FinishError, AbortDone, Reading, readFrame
  <2>2. ~torn
    BY <2>1 DEF WriteBuf, Reading
  <2> QED BY <2>1, <2>2 DEF WriteBuf
<1>4. CASE Retry \/ BackoffExpires
  BY <1>4 DEF Retry, BackoffExpires, WriteBuf
<1>5. CASE Detach
  BY <1>5 DEF Detach, WriteBuf
<1> QED BY <1>1, <1>2, <1>3, <1>4, <1>5 DEF Client

(* It holds in every state of every behaviour.                             *)
LEMMA WriteBufInvariant == Spec => []WriteBuf
<1>1. Init => WriteBuf
  BY DEF Init, WriteBuf
<1>2. ASSUME WriteBuf, [Next]_vars PROVE WriteBuf'
  <2>1. CASE Begin \/ Refuse
    BY <1>2, <2>1 DEF Begin, Refuse, Usable, WriteBuf
  <2>2. CASE Client
    BY <1>2, <2>2, ClientWriteBuf
  <2>3. CASE UNCHANGED <<torn, pc, result>>
    BY <1>2, <2>3 DEF WriteBuf
  <2>4. (Environment /\ UNCHANGED queryVars) \/ UNCHANGED vars => UNCHANGED <<torn, pc, result>>
    BY DEF queryVars, vars
  <2> QED BY <1>2, <2>1, <2>2, <2>3, <2>4 DEF Next, Stopped
<1> QED BY <1>1, <1>2, PTL DEF Spec

-----------------------------------------------------------------------------
(* Theorems *)

(* IdleIsUnwatched: between calls no watcher runs and no deadline is set,  *)
(* so a cancelled call never makes the reads or writes of the next one     *)
(* fail (detachContext of ctx.go waits for the watcher).                   *)
THEOREM UnwatchedTheorem == Spec => []IdleIsUnwatched
<1>1. QueryInv => IdleIsUnwatched
  BY DEF QueryInv, Watching, IdleIsUnwatched
<1> QED BY <1>1, QueryInvariant, PTL

(* ReturnLeavesWireClean: a call that ends with a result, with the error   *)
(* of the server, without a RowDescription or with a drained cap error has *)
(* read its own ReadyForQuery, nothing is left behind it and nothing is    *)
(* left in writeBuf, whatever CancelRequests, deadlines and backends did   *)
(* in between.                                                             *)
THEOREM WireCleanTheorem == Spec => []ReturnLeavesWireClean
<1>1. QueryInv /\ WriteBuf => ReturnLeavesWireClean
  BY DEF QueryInv, Settled, WriteBuf, ReturnLeavesWireClean
<1> QED BY <1>1, QueryInvariant, WriteBufInvariant, PTL

(* OutputIsOnePass: what was delivered and what is buffered behind it are  *)
(* a beginning of the output of the last execution, through both retries   *)
(* of runQuery and runCached and every flush of a streaming writer.        *)
THEOREM OnePassTheorem == Spec => []OutputIsOnePass
<1>1. QueryInv => OutputIsOnePass
  BY Delivered DEF OutputIsOnePass
<1> QED BY <1>1, QueryInvariant, PTL

(* SuccessIsComplete: a query that returns nil delivered its whole result. *)
THEOREM CompleteTheorem == Spec => []SuccessIsComplete
<1>1. QueryInv => SuccessIsComplete
  BY DEF QueryInv, QueryTypes, Control, Output, SuccessIsComplete, Reading
<1> QED BY <1>1, QueryInvariant, PTL

-----------------------------------------------------------------------------
(* The calls implement Call.tla *)

(* What was delivered is a beginning of the output of the last execution,  *)
(* all of it when the call succeeded.                                      *)
LEMMA SentFacts ==
    QueryInv /\ clean =>
      /\ IsPrefix(sent, FullOutput)
      /\ pc = "detach" /\ result = "ok" /\ path # "ping" => sent = FullOutput
<1> SUFFICES ASSUME QueryInv, clean
             PROVE  /\ IsPrefix(sent, FullOutput)
                    /\ pc = "detach" /\ result = "ok" /\ path # "ping" => sent = FullOutput
  OBVIOUS
<1>1. /\ sent \in Seq(Messages) /\ out \in Seq(Messages) /\ made \in Nat
      /\ Id \in Ids /\ FullOutput = Whole(Id, made)
  BY DEF QueryInv, QueryTypes, SessionTypes, Id, Ids, FullOutput, Whole
<1>2. FullOutput \in Seq(Messages)
  BY <1>1, BodyNext
<1>3. IsPrefix(sent \o out, FullOutput)
  BY Delivered
<1>4. IsPrefix(sent, FullOutput)
  BY <1>1, <1>2, <1>3, PrefixFacts
<1> QED BY <1>4 DEF QueryInv, Output

(* What was delivered stays delivered.                                     *)
LEMMA SentGrows ==
    ASSUME QueryInv, \/ sent' = sent
                     \/ \E items \in Seq(Messages) : sent' = (sent \o out) \o items
    PROVE  IsPrefix(sent, sent')
<1>1. sent \in Seq(Messages) /\ out \in Seq(Messages)
  BY DEF QueryInv, QueryTypes
<1>2. CASE sent' = sent
  BY <1>1, <1>2, PrefixFacts
<1>3. CASE \E items \in Seq(Messages) : sent' = (sent \o out) \o items
  <2>1. PICK items \in Seq(Messages) : sent' = (sent \o out) \o items
    BY <1>3
  <2>2. out \o items \in Seq(Messages) /\ sent \o (out \o items) = (sent \o out) \o items
    BY <1>1, ThreeParts
  <2>3. IsPrefix(sent, sent \o (out \o items))
    BY <1>1, <2>2, PrefixFacts
  <2> QED BY <2>1, <2>2, <2>3
<1> QED BY <1>2, <1>3

MappedFrame == <<call, path, sends, made, clean>>

(* A step of the call that the program does not see.                       *)
LEMMA UnseenStep ==
    ASSUME UNCHANGED MappedFrame, UNCHANGED <<sent, result>>,
           (pc' = pc /\ torn' = torn) \/ (pc # "idle" /\ pc' # "idle")
    PROVE  UNCHANGED C!callVars
BY DEF MappedFrame, C!callVars

(* More of the output is delivered.                                        *)
LEMMA DeliverStep ==
    ASSUME QueryInv, QueryInv', UNCHANGED MappedFrame, pc \notin {"idle", "detach"}, pc' # "idle",
           result' = result, IsPrefix(sent, sent')
    PROVE  C!Deliver
<1>1. UNCHANGED <<call, path, sends, made, clean>>
  BY DEF MappedFrame
<1>2. (QueryInv /\ clean => IsPrefix(sent, FullOutput))'
  BY SentFacts, PTL
<1>3. clean => IsPrefix(sent', FullOutput)
  BY <1>1, <1>2 DEF FullOutput
<1>4. result = "none"
  BY DEF QueryInv, Control
<1>5. C!IsPrefix(sent, sent') /\ (clean => C!IsPrefix(sent', FullOutput))
  BY <1>3 DEF IsPrefix, C!IsPrefix
<1>6. C!Extended
  BY <1>5 DEF C!Extended, FullOutput
<1> QED BY <1>1, <1>4, <1>6 DEF C!Deliver

(* The call returns.                                                       *)
LEMMA ReturnsStep ==
    ASSUME QueryInv, QueryInv', UNCHANGED MappedFrame, pc \notin {"idle", "detach"},
           pc' = "detach", IsPrefix(sent, sent')
    PROVE  C!Return
<1>1. UNCHANGED <<call, path, sends, made, clean>>
  BY DEF MappedFrame
<1>2. (QueryInv /\ clean =>
         /\ IsPrefix(sent, FullOutput)
         /\ pc = "detach" /\ result = "ok" /\ path # "ping" => sent = FullOutput)'
  BY SentFacts, PTL
<1>3. clean => /\ IsPrefix(sent', FullOutput)
               /\ result' = "ok" /\ path # "ping" => sent' = FullOutput
  BY <1>1, <1>2 DEF FullOutput
<1>4. result = "none" /\ result' # "none"
  BY DEF QueryInv, Control
<1>5. C!IsPrefix(sent, sent') /\ (clean => C!IsPrefix(sent', FullOutput))
  BY <1>3 DEF IsPrefix, C!IsPrefix
<1>6. C!Extended
  BY <1>5 DEF C!Extended, FullOutput
<1> QED BY <1>1, <1>3, <1>4, <1>6 DEF C!Return, FullOutput

(* A call begins on a connection as good as the last one left it.          *)
LEMMA BeginsStep ==
    ASSUME QueryInv, Begin \/ Refuse
    PROVE  C!Begin
<1>1. /\ pc = "idle" /\ call' = call + 1 /\ sent' = <<>> /\ clean' = WireClean /\ made' = made
  BY DEF Begin, Refuse, Usable, serverVars
<1>2. clean /\ result \in Good \cup {"none"} => WireClean
  BY <1>1 DEF QueryInv, Settled, Good
<1>3. WireClean \in BOOLEAN
  BY DEF WireClean
<1>4. CASE Begin
  <2>1. pc' = "send" /\ result' = "none" /\ sends' = 0
    BY <1>4 DEF Begin
  <2> QED BY <1>1, <1>2, <1>3, <2>1 DEF C!Begin
<1>5. CASE Refuse
  <2>1. /\ pc' = "idle" /\ result' = "refused" /\ UNCHANGED <<path, sends, torn>>
        /\ "refused" \in Good
    BY <1>1, <1>5 DEF Refuse, Good
  <2> QED BY <1>1, <1>2, <1>3, <2>1 DEF C!Begin
<1> QED BY <1>4, <1>5

(* A request is sent while nothing is delivered.                           *)
LEMMA ExecutesStep ==
    ASSUME QueryInv, SendPrepare \/ SendExecute \/ SendSimple \/ SendPing
    PROVE  C!Executes
<1>1. /\ pc \in {"send", "bind"} /\ pc' # "idle" /\ sends' = sends + 1
      /\ UNCHANGED <<call, path, made, sent, result, clean>>
  BY DEF SendPrepare, SendExecute, Execute, SendSimple, SendPing, Send, callVars
<1>2. sent = <<>>
  BY <1>1 DEF QueryInv, Output
<1> QED BY <1>1, <1>2 DEF C!Executes

(* The backend serves a request, behind the program's back.                *)
LEMMA ProducesStep ==
    ASSUME QueryInv, Environment, UNCHANGED queryVars
    PROVE  C!Produces \/ UNCHANGED C!callVars
<1>1. UNCHANGED <<pc, call, path, result, torn, sends, sent, clean>>
  BY DEF queryVars, callVars, outVars
<1>2. CASE made' = made
  BY <1>1, <1>2, UnseenStep DEF MappedFrame
<1>3. CASE made' # made
  <2>1. reqs # <<>>
    BY <1>3, EnvironmentTypes DEF QueryInv
  <2>2. clean => sent = <<>>
    BY <2>1, Delivered
  <2> QED BY <1>1, <1>3, <2>2 DEF C!Produces
<1> QED BY <1>2, <1>3

(* Every step of a call is a step of the abstract call, or unseen.         *)
LEMMA ClientSteps ==
    ASSUME QueryInv, QueryInv', WriteBuf, Client
    PROVE  C!Next \/ UNCHANGED C!callVars
<1>1. CASE SendPrepare \/ SendExecute \/ SendSimple \/ SendPing
  BY <1>1, ExecutesStep DEF C!Next
<1>2. CASE \/ SendFails \/ BadArgument \/ BackoffExpires \/ ReadFails \/ Unexpected
           \/ BadDescription \/ PingError \/ PingOK \/ AbortDone \/ RowFails \/ FinishFails
  <2>1. pc \notin {"idle", "detach"} /\ pc' = "detach" /\ UNCHANGED MappedFrame /\ sent' = sent
    BY <1>2 DEF SendFails, BadArgument, BackoffExpires, ReadFails, Unexpected, BadDescription,
                PingError, PingOK, AbortDone, RowFails, FinishFails, Return, Reading,
                MappedFrame, sessionVars, serverVars, readFrame, callVars, outVars
  <2>2. IsPrefix(sent, sent')
    BY <2>1, SentGrows
  <2> QED BY <2>1, <2>2, ReturnsStep DEF C!Next
<1>3. CASE Skip \/ ReadDescription \/ ReadError \/ DescribeOK \/ FinishStale \/ Retry
  <2>1. pc # "idle" /\ pc' # "idle" /\ UNCHANGED MappedFrame /\ UNCHANGED <<sent, result>>
    BY <1>3 DEF Skip, Skipped, ReadDescription, ReadError, RememberError, DescribeOK, FinishStale,
                StaleRetry, Retry, MappedFrame, sessionVars, serverVars, readFrame, callVars,
                outVars
  <2> QED BY <2>1, UnseenStep
<1>4. CASE ReadRow
  <2>1. /\ pc \in {"execute", "text"} /\ pc' # "idle" /\ UNCHANGED MappedFrame
        /\ UNCHANGED <<reqs, reply, made>>
        /\ result' = result /\ Read("DataRow") /\ MaybeFlush(WithRow(Head(inbox)))
    BY <1>4 DEF ReadRow, MappedFrame, readFrame, callVars
  <2>2. WithRow(Head(inbox)) \in Seq(Messages)
    BY <2>1, RowItems
  <2>3. IsPrefix(sent, sent')
    BY <2>1, <2>2, SentGrows DEF MaybeFlush
  <2> QED BY <2>1, <2>3, DeliverStep DEF C!Next
<1>5. CASE FinishOK
  <2>1. /\ pc \in {"execute", "text"} /\ pc' = "detach" /\ UNCHANGED MappedFrame
        /\ UNCHANGED <<reqs, reply, made>>
        /\ Read("ReadyForQuery") /\ NoError /\ sent' = (sent \o out) \o Completed
    BY <1>5 DEF FinishOK, Return, MappedFrame, readFrame, callVars
  <2>2. Completed \in Seq(Messages)
    BY <2>1, FinishItems
  <2>3. IsPrefix(sent, sent')
    BY <2>1, <2>2, SentGrows
  <2> QED BY <2>1, <2>3, ReturnsStep DEF C!Next
<1>6. CASE DescribeFails \/ FinishError
  <2>1. /\ pc \notin {"idle", "detach"} /\ UNCHANGED MappedFrame /\ sent' = sent
        /\ pc' = "detach" \/ (pc' = "backoff" /\ result' = result)
    BY <1>6 DEF DescribeFails, FinishError, Fail, Return, MappedFrame, readFrame, callVars
  <2>2. IsPrefix(sent, sent')
    BY <2>1, SentGrows
  <2>3. CASE pc' = "detach"
    BY <2>1, <2>2, <2>3, ReturnsStep DEF C!Next
  <2>4. CASE pc' = "backoff" /\ result' = result
    BY <2>1, <2>4, UnseenStep
  <2> QED BY <2>1, <2>3, <2>4
<1>7. CASE Detach
  <2>1. /\ pc = "detach" /\ pc' = "idle"
        /\ UNCHANGED <<call, path, sends, made, clean, torn, sent, result>>
    BY <1>7 DEF Detach, serverVars, callVars, outVars
  <2>2. result # "none" /\ clean \in BOOLEAN
    BY <2>1 DEF QueryInv, Control, QueryTypes
  <2>3. result \in Good => ~torn
    BY <2>1 DEF WriteBuf, Good
  <2> QED BY <2>1, <2>2, <2>3 DEF C!Next, C!End
<1> QED BY <1>1, <1>2, <1>3, <1>4, <1>5, <1>6, <1>7 DEF Client

(* The calls on a Client implement Call.tla: whatever the backend, the     *)
(* network, the contexts and the writers do, a call delivers in order the  *)
(* output of one execution, sends another request only while nothing was   *)
(* delivered, is complete when it returns nil, and keeps a usable          *)
(* connection usable when it ends with a result, the error of the server,  *)
(* no RowDescription, a drained cap error or a refusal; not after a        *)
(* refused argument, a cap error whose drain failed or a broken call.      *)
THEOREM CallTheorem == Spec => ImplementsCall
<1>1. Init => C!Init
  BY DEF Init, SessionInit, C!Init, Good
<1>2. QueryInv /\ QueryInv' /\ WriteBuf /\ [Next]_vars => [C!Next]_(C!callVars)
  <2> SUFFICES ASSUME QueryInv, QueryInv', WriteBuf, [Next]_vars
               PROVE  C!Next \/ UNCHANGED C!callVars
    OBVIOUS
  <2>1. CASE Begin \/ Refuse
    BY <2>1, BeginsStep DEF C!Next
  <2>2. CASE Client
    BY <2>2, ClientSteps
  <2>3. CASE Environment /\ UNCHANGED queryVars
    BY <2>3, ProducesStep DEF C!Next
  <2>4. CASE UNCHANGED vars
    <3>1. UNCHANGED MappedFrame /\ UNCHANGED <<sent, result, pc, torn>>
      BY <2>4 DEF vars, sessionVars, serverVars, callVars, outVars, MappedFrame
    <3> QED BY <3>1, UnseenStep
  <2> QED BY <2>1, <2>2, <2>3, <2>4 DEF Next, Stopped
<1> QED BY <1>1, <1>2, QueryInvariant, WriteBufInvariant, PTL DEF Spec, C!Spec, ImplementsCall

-----------------------------------------------------------------------------
(* Types, and the requests of a call *)

\* What the backend, the network and the watcher count.
SessionBounds ==
    /\ made \in 0..MaxRows /\ parsed \in BOOLEAN
    /\ Len(inbox) <= Window + 1 /\ (alive => Len(inbox) <= Window)
    /\ cancels \in 0..MaxInFlight
    /\ ctxDone \in BOOLEAN /\ past \in BOOLEAN
    /\ watcher \in {"none", "watching", "cancelling", "exited"}

CallBounds ==
    /\ call \in 0..MaxCalls /\ path \in Paths /\ writer \in Writers
    /\ attempt \in 0..(MaxAttempts - 1)
    /\ restale \in BOOLEAN /\ fromCache \in BOOLEAN /\ cached \in BOOLEAN
    /\ torn \in BOOLEAN /\ plan \in BOOLEAN

\* An attempt that has a statement of the cache may send an Execute that finds it
\* forgotten, and then, once, a Parse and a second Execute.
Budget ==
    /\ sends <= 3 * attempt + 3
    /\ pc \in {"send", "backoff"} /\ ~restale => sends <= 3 * attempt
    /\ pc = "send" /\ restale => sends <= 3 * attempt + 1 /\ ~cached
    /\ pc = "backoff" => ~restale
    /\ pc \in {"describe", "bind"} => sends <= 3 * attempt + (IF restale THEN 2 ELSE 1)
    /\ pc = "execute" /\ fromCache => ~restale /\ sends <= 3 * attempt + 1

TypeInv == SessionBounds /\ CallBounds /\ Budget

(* The environment respects the bounds of the session.                     *)
LEMMA EnvironmentBounds ==
    ASSUME SessionTypes, SessionBounds, Environment
    PROVE  SessionBounds'
<1> USE SessionAssumption DEF SessionAssumption
<1>1. CASE Serve
  BY <1>1 DEF Serve, SessionBounds, ctxVars
<1>2. CASE Emit
  <2>1. Len(inbox') = Len(inbox) + 1
    <3>1. Head(reply) \in Messages
      BY <1>2, HeadTailProperties DEF Emit, SessionTypes
    <3> QED BY <1>2, <3>1, AppendProperties DEF Emit, SessionTypes
  <2>2. Len(inbox) \in Nat
    BY DEF SessionTypes
  <2> QED BY <1>2, <2>1, <2>2 DEF Emit, SessionBounds, ctxVars
<1>3. CASE ServeGarbage
  <2>1. Len(inbox') = Len(inbox) + 1
    <3>1. Err("other") \in Messages
      BY MessageFacts DEF Codes
    <3> QED BY <1>3, <3>1, AppendProperties DEF ServeGarbage, SessionTypes
  <2>2. Len(inbox) \in Nat
    BY DEF SessionTypes
  <2> QED BY <1>3, <2>1, <2>2 DEF ServeGarbage, SessionBounds, ctxVars
<1>4. CASE ServerDies \/ Rotate
  BY <1>4 DEF ServerDies, Rotate, SessionBounds, ctxVars
<1>5. CASE DeliverCancel
  BY <1>5 DEF DeliverCancel, SessionBounds, ctxVars
<1>6. CASE CtxExpires \/ WatcherDeadline
  <2>1. /\ UNCHANGED <<made, inbox, alive, parsed, cancels>>
        /\ watcher' \in {watcher, "exited"} /\ ctxDone' \in {ctxDone, TRUE}
        /\ past' \in {past, TRUE}
    BY <1>6 DEF CtxExpires, WatcherDeadline, serverVars
  <2>2. TRUE \in BOOLEAN
    OBVIOUS
  <2> QED BY <2>1, <2>2 DEF SessionBounds
<1>7. CASE WatcherCancels
  BY <1>7 DEF WatcherCancels, SendCancel, SessionBounds, serverVars
<1> QED BY <1>1, <1>2, <1>3, <1>4, <1>5, <1>6, <1>7 DEF Environment

(* A message that is read makes room in the socket.                        *)
LEMMA ReadBounds ==
    ASSUME SessionTypes, SessionBounds,
           inbox' \in {inbox, LostOnError} \/ (inbox # <<>> /\ inbox' = Tail(inbox)),
           cancels' = cancels \/ SendCancel, UNCHANGED <<made, alive, parsed, ctxVars>>
    PROVE  SessionBounds'
<1>1. Len(inbox) \in Nat /\ (inbox # <<>> => Len(Tail(inbox)) \in Nat /\ Len(Tail(inbox)) <= Len(inbox)) /\ Len(<<>>) = 0
  BY EmptySeq DEF SessionTypes
<1>2. Len(inbox') \in Nat /\ Len(inbox') <= Len(inbox)
  BY <1>1 DEF LostOnError
<1>3. cancels' \in 0..MaxInFlight
  BY SessionAssumption DEF SessionAssumption, SendCancel, SessionBounds
<1> QED BY <1>1, <1>2, <1>3, SessionAssumption DEF SessionAssumption, SessionBounds, ctxVars

(* An error that reaches the outer loop, with a request left in the budget *)
(* of the next attempt.                                                    *)
LEMMA FailBudget ==
    ASSUME CallBounds, sends \in Nat, sends <= 3 * attempt + 3, sends' = sends,
           UNCHANGED <<call, path, writer, fromCache, torn, plan>>, cached' \in BOOLEAN,
           NEW res, NEW code, Fail(res, code)
    PROVE  CallBounds' /\ Budget'
<1> USE QueryAssumption DEF QueryAssumption
<1>1. CASE ~Retryable(res, code)
  BY <1>1 DEF Fail, Return, CallBounds, Budget
<1>2. CASE Retryable(res, code)
  <2>1. pc' = "backoff" /\ attempt' = attempt + 1 /\ restale' = FALSE /\ attempt + 1 < MaxAttempts
    BY <1>2 DEF Fail, Retryable
  <2>2. restale' \in BOOLEAN /\ ~restale'
    BY <2>1
  <2>3. attempt' \in 0..(MaxAttempts - 1)
    BY <2>1 DEF CallBounds
  <2>4. CallBounds'
    BY <2>2, <2>3 DEF CallBounds
  <2>5. attempt \in Nat /\ sends' <= 3 * attempt'
    BY <2>1 DEF CallBounds
  <2> QED BY <2>1, <2>2, <2>4, <2>5 DEF Budget
<1> QED BY <1>1, <1>2

(* A call keeps the bounds of the session.                                 *)
LEMMA ClientSessionBounds ==
    ASSUME SessionTypes, SessionBounds, Client
    PROVE  SessionBounds'
<1> DEFINE Took == inbox' \in {inbox, LostOnError} \/ (inbox # <<>> /\ inbox' = Tail(inbox))
           Same == UNCHANGED <<made, alive, parsed, ctxVars>>
           Mine == Took /\ (cancels' = cancels \/ SendCancel) /\ Same
<1>1. CASE SendPrepare \/ SendExecute \/ SendSimple \/ SendPing
  <2>1. UNCHANGED <<made, inbox, alive, parsed, cancels, ctxVars>>
    BY <1>1 DEF SendPrepare, SendExecute, Execute, SendSimple, SendPing, Send
  <2> QED BY <2>1 DEF SessionBounds, ctxVars
<1>2. CASE SendFails \/ BadArgument \/ Retry \/ BackoffExpires
  <2>1. UNCHANGED sessionVars
    BY <1>2 DEF SendFails, BadArgument, Retry, BackoffExpires
  <2> QED BY <2>1 DEF sessionVars, serverVars, SessionBounds, ctxVars
<1>3. CASE Skip \/ ReadFails \/ Unexpected \/ ReadDescription \/ BadDescription \/ ReadError
  <2>1. Mine
    BY <1>3 DEF Skip, ReadFails, Unexpected, ReadDescription, BadDescription, ReadError, Read,
                readFrame
  <2> QED BY <2>1, ReadBounds
<1>4. CASE PingError \/ PingOK \/ DescribeOK \/ DescribeFails \/ RowFails \/ AbortDone
  <2>1. Mine
    BY <1>4 DEF PingError, PingOK, DescribeOK, DescribeFails, RowFails, AbortDone, Read, readFrame
  <2> QED BY <2>1, ReadBounds
<1>5. CASE FinishOK \/ FinishFails \/ FinishStale \/ FinishError
  <2>1. Mine
    BY <1>5 DEF FinishOK, FinishFails, FinishStale, FinishError, Read, readFrame
  <2> QED BY <2>1, ReadBounds
<1>6. CASE ReadRow
  <2>1. Mine
    BY <1>6 DEF ReadRow, Read, readFrame
  <2> QED BY <2>1, ReadBounds
<1>7. CASE Detach
  BY <1>7 DEF Detach, DetachContext, SessionBounds, serverVars
<1> QED BY <1>1, <1>2, <1>3, <1>4, <1>5, <1>6, <1>7 DEF Client

(* A call keeps its own bounds, and the budget of its requests.            *)
LEMMA ClientBudget ==
    ASSUME QueryTypes, CallBounds, Budget, Client
    PROVE  CallBounds' /\ Budget'
<1> USE QueryAssumption DEF QueryAssumption
<1>1. sends \in Nat /\ attempt \in Nat /\ sends <= 3 * attempt + 3
  BY DEF QueryTypes, CallBounds, Budget
<1>2. CASE SendPrepare
  <2>1. /\ pc = "send" /\ pc' = "describe" /\ sends' = sends + 1 /\ torn' = FALSE /\ plan' = FALSE
        /\ fromCache' = FALSE /\ UNCHANGED <<callVars, attempt, restale, cached>>
    BY <1>2 DEF SendPrepare, Send
  <2>2. CallBounds'
    BY <2>1 DEF CallBounds, callVars
  <2>3. Budget'
    BY <1>1, <2>1 DEF Budget, CallBounds
  <2> QED BY <2>2, <2>3
<1>3. CASE SendExecute
  <2>1. /\ pc \in {"send", "bind"} /\ cached /\ pc' = "execute" /\ sends' = sends + 1
        /\ torn' = FALSE /\ plan' = FALSE /\ fromCache' = (pc = "send")
        /\ UNCHANGED <<callVars, attempt, restale, cached>>
    BY <1>3 DEF SendExecute, Execute, Send
  <2>2. CallBounds'
    BY <2>1 DEF CallBounds, callVars
  <2>3. CASE pc = "send"
    <3>1. ~restale /\ sends <= 3 * attempt
      BY <2>1, <2>3 DEF Budget
    <3>2. ~restale' /\ sends' <= 3 * attempt' + 1 /\ sends' <= 3 * attempt' + 3
      BY <1>1, <2>1, <3>1
    <3> QED BY <2>1, <2>2, <3>2 DEF Budget
  <2>4. CASE pc = "bind"
    <3>1. sends <= 3 * attempt + 2
      BY <1>1, <2>4 DEF Budget
    <3>2. ~fromCache'
      BY <2>1, <2>4
    <3>3. sends' <= 3 * attempt' + 3
      BY <1>1, <2>1, <3>1
    <3> QED BY <2>1, <2>2, <3>2, <3>3 DEF Budget
  <2> QED BY <2>1, <2>2, <2>3, <2>4
<1>4. CASE SendSimple \/ SendPing
  <2>1. /\ pc = "send" /\ pc' \in {"text", "ping"} /\ sends' = sends + 1 /\ torn' = FALSE
        /\ plan' = FALSE /\ UNCHANGED <<callVars, fromCache, attempt, restale, cached>>
    BY <1>4 DEF SendSimple, SendPing, Send
  <2>2. CallBounds'
    BY <2>1 DEF CallBounds, callVars
  <2>3. Budget'
    BY <1>1, <2>1 DEF Budget, CallBounds
  <2> QED BY <2>2, <2>3
<1> DEFINE Kept == UNCHANGED <<callVars, attempt, restale, fromCache, sends>>
                   /\ {torn', plan', cached'} \subseteq BOOLEAN
<1>5. ASSUME Kept, pc' \in {"detach", "idle", "text", "abort"} PROVE CallBounds' /\ Budget'
  <2>1. CallBounds'
    BY <1>5 DEF CallBounds, callVars
  <2>2. Budget'
    BY <1>1, <1>5 DEF Budget
  <2> QED BY <2>1, <2>2
<1>6. ASSUME Kept, pc' = pc, cached' = cached PROVE CallBounds' /\ Budget'
  BY <1>6 DEF CallBounds, callVars, Budget
<1>7. CASE SendFails \/ BadArgument \/ BackoffExpires
  <2>1. Kept /\ pc' = "detach"
    BY <1>7 DEF SendFails, BadArgument, BackoffExpires, Return, CallBounds
  <2> QED BY <2>1, <1>5
<1>8. CASE ReadFails \/ Unexpected \/ BadDescription \/ PingError \/ PingOK
  <2>1. Kept /\ pc' = "detach"
    BY <1>8 DEF ReadFails, Unexpected, BadDescription, PingError, PingOK, Return, CallBounds,
                readFrame
  <2> QED BY <2>1, <1>5
<1>9. CASE RowFails \/ FinishOK \/ FinishFails \/ AbortDone
  <2>1. Kept /\ pc' = "detach"
    BY <1>9 DEF RowFails, FinishOK, FinishFails, AbortDone, Return, CallBounds, readFrame
  <2> QED BY <2>1, <1>5
<1>10. CASE Skip \/ ReadDescription \/ ReadError
  <2>1. Kept /\ pc' = pc /\ cached' = cached
    BY <1>10 DEF Skip, ReadDescription, ReadError, RememberError, CallBounds, readFrame
  <2> QED BY <2>1, <1>6
<1>11. CASE ReadRow
  <2>1. Kept /\ pc' \in {pc, "abort"} /\ cached' = cached
    BY <1>11 DEF ReadRow, CallBounds, readFrame
  <2> QED BY <2>1, <1>5, <1>6
<1>12. CASE Detach
  <2>1. Kept /\ pc' = "idle"
    BY <1>12 DEF Detach, CallBounds
  <2> QED BY <2>1, <1>5
<1>13. CASE DescribeOK
  <2>1. /\ pc = "describe" /\ pc' = "bind" /\ cached' = TRUE
        /\ UNCHANGED <<callVars, attempt, restale, fromCache, sends, torn, plan>>
    BY <1>13 DEF DescribeOK, readFrame
  <2> QED BY <1>1, <2>1 DEF CallBounds, callVars, Budget
<1>14. CASE FinishStale
  <2>1. /\ pc = "execute" /\ fromCache /\ pc' = "send" /\ restale' = TRUE /\ cached' = FALSE
        /\ UNCHANGED <<callVars, attempt, fromCache, sends, torn, plan>>
    BY <1>14 DEF FinishStale, StaleRetry, readFrame
  <2> QED BY <1>1, <2>1 DEF CallBounds, callVars, Budget
<1>15. CASE Retry
  <2>1. /\ pc = "backoff" /\ pc' = "send"
        /\ UNCHANGED <<callVars, attempt, restale, cached, fromCache, sends, torn, plan>>
    BY <1>15 DEF Retry
  <2> QED BY <1>1, <2>1 DEF CallBounds, callVars, Budget
<1>16. CASE DescribeFails
  <2>1. /\ sends' = sends /\ UNCHANGED <<call, path, writer, fromCache, torn, plan>>
        /\ cached' \in BOOLEAN
    BY <1>16 DEF DescribeFails, readFrame, callVars
  <2>2. Fail(IF pgError # "none" THEN "pg" ELSE "noplan", pgError)
    BY <1>16 DEF DescribeFails
  <2> QED BY <1>1, <2>1, <2>2, FailBudget
<1>17. CASE FinishError
  <2>1. /\ sends' = sends /\ UNCHANGED <<call, path, writer, fromCache, torn, plan>>
        /\ cached' \in BOOLEAN
    BY <1>17 DEF FinishError, readFrame, callVars, CallBounds
  <2>2. Fail("pg", pgError)
    BY <1>17 DEF FinishError
  <2> QED BY <1>1, <2>1, <2>2, FailBudget
<1> QED BY <1>2, <1>3, <1>4, <1>7, <1>8, <1>9, <1>10, <1>11, <1>12, <1>13, <1>14, <1>15, <1>16,
           <1>17 DEF Client

(* The bounds hold at the start, and every step keeps them.                *)
LEMMA TypesInit == Init => TypeInv
<1> USE SessionAssumption, QueryAssumption DEF SessionAssumption, QueryAssumption
<1> SUFFICES ASSUME Init PROVE TypeInv
  OBVIOUS
<1>1. Len(<<>>) = 0 /\ {TRUE, FALSE} \subseteq BOOLEAN
  OBVIOUS
<1>2. SessionBounds
  <2>1. /\ inbox = <<>> /\ made = 0 /\ cancels = 0 /\ watcher = "none"
        /\ {parsed, ctxDone, past} \subseteq BOOLEAN
    BY <1>1, Zenon DEF Init, SessionInit
  <2> QED BY <1>1, <2>1 DEF SessionBounds
<1>3. CallBounds /\ Budget
  <2>1. /\ pc = "idle" /\ call = 0 /\ path \in Paths /\ writer \in Writers /\ attempt = 0
        /\ sends = 0
    BY DEF Init
  <2>2. {restale, fromCache, cached, torn, plan} \subseteq BOOLEAN
    BY <1>1, Zenon DEF Init
  <2> QED BY <2>1, <2>2 DEF CallBounds, Budget
<1> QED BY <1>2, <1>3 DEF TypeInv

LEMMA TypesNext ==
    ASSUME QueryInv, TypeInv, [Next]_vars
    PROVE  TypeInv'
<1> USE SessionAssumption, QueryAssumption DEF SessionAssumption, QueryAssumption
<1>1. SessionTypes /\ QueryTypes /\ SessionBounds /\ CallBounds /\ Budget
  BY DEF QueryInv, TypeInv
<1>2. CASE Begin
  <2>1. /\ call < MaxCalls /\ call' = call + 1 /\ path' \in Paths /\ writer' \in Writers
        /\ pc' = "send" /\ attempt' = 0 /\ restale' = FALSE /\ fromCache' = FALSE /\ sends' = 0
        /\ plan' = FALSE /\ UNCHANGED <<serverVars, cancels, cached, torn>> /\ AttachContext
    BY <1>2 DEF Begin, Usable
  <2>2. SessionBounds'
    BY <1>1, <2>1 DEF SessionBounds, serverVars, AttachContext
  <2>3. {restale', fromCache', plan'} \subseteq BOOLEAN /\ ~restale'
    BY <2>1
  <2>4. CallBounds'
    BY <1>1, <2>1, <2>3 DEF CallBounds
  <2>5. Budget'
    BY <2>1, <2>3 DEF Budget
  <2> QED BY <2>2, <2>4, <2>5 DEF TypeInv
<1>3. CASE Refuse
  <2>1. /\ pc = "idle" /\ call < MaxCalls /\ call' = call + 1 /\ ctxDone' = FALSE
        /\ UNCHANGED <<serverVars, cancels, watcher, past, pc, path, writer, attempt, restale,
                       fromCache, cached, torn, sends, plan>>
    BY <1>3 DEF Refuse, Usable
  <2>2. SessionBounds'
    BY <1>1, <2>1 DEF SessionBounds, serverVars
  <2>3. CallBounds' /\ Budget'
    BY <1>1, <2>1 DEF CallBounds, Budget
  <2> QED BY <2>2, <2>3 DEF TypeInv
<1>4. CASE Client
  BY <1>1, <1>4, ClientSessionBounds, ClientBudget DEF TypeInv
<1>5. CASE Environment /\ UNCHANGED queryVars
  <2>1. SessionBounds'
    BY <1>1, <1>5, EnvironmentBounds
  <2>2. CallBounds' /\ Budget'
    BY <1>1, <1>5 DEF CallBounds, Budget, queryVars, callVars
  <2> QED BY <2>1, <2>2 DEF TypeInv
<1>6. CASE UNCHANGED vars
  <2>1. SessionBounds'
    BY <1>1, <1>6 DEF SessionBounds, vars, sessionVars, serverVars, ctxVars
  <2>2. CallBounds' /\ Budget'
    BY <1>1, <1>6 DEF CallBounds, Budget, vars, callVars
  <2> QED BY <2>1, <2>2 DEF TypeInv
<1> QED BY <1>2, <1>3, <1>4, <1>5, <1>6 DEF Next, Stopped

(* With the invariant, every variable has its type.                        *)
LEMMA TypesHold == QueryInv /\ TypeInv => TypeOK
<1> USE SessionAssumption, QueryAssumption DEF SessionAssumption, QueryAssumption
<1> SUFFICES ASSUME QueryInv, TypeInv PROVE TypeOK
  OBVIOUS
<1>1. SessionTypes /\ QueryTypes /\ SessionBounds /\ CallBounds /\ Budget
  BY DEF QueryInv, TypeInv
<1>2. \A n \in DOMAIN reqs : reqs[n].kind \in Kinds
  <2>1. \A n \in DOMAIN reqs : reqs[n] \in Requests
    BY <1>1 DEF SessionTypes
  <2> QED BY <2>1 DEF Requests
<1>3. \A n \in DOMAIN inbox : inbox[n].t = "Error" => inbox[n].code \in Codes
  <2>1. \A n \in DOMAIN inbox : inbox[n] \in Messages
    BY <1>1 DEF SessionTypes
  <2>2. \A x \in Messages : x.t = "Error" => x.code \in Codes
    BY DEF Messages, Names
  <2> QED BY <2>1, <2>2
<1>4. Len(inbox) \in 0..(Window + 1)
  BY <1>1 DEF SessionTypes, SessionBounds
<1>5. SessionTypeOK
  BY <1>1, <1>2, <1>3, <1>4 DEF SessionTypes, SessionBounds, SessionTypeOK
<1>6. sends \in 0..(3 * MaxAttempts)
  BY <1>1 DEF QueryTypes, CallBounds, Budget
<1> QED BY <1>1, <1>5, <1>6 DEF QueryTypes, CallBounds, TypeOK

(* Every variable has its type: runQuery makes at most MaxAttempts         *)
(* attempts, and a call never sends more than three requests an attempt,   *)
(* whatever the backend answers and whichever of the two retries it takes. *)
THEOREM TypesTheorem == Spec => []TypeOK
<1>1. QueryInv /\ TypeInv /\ [Next]_vars => TypeInv'
  BY TypesNext
<1> QED BY <1>1, TypesInit, TypesHold, QueryInvariant, PTL DEF Spec

-----------------------------------------------------------------------------
(* The query engine under an iterator or a scan, on any wire *)

(* What is read was sent by the backend.                                   *)
LEMMA ReadTypes ==
    ASSUME SessionTypes, inbox' \in {inbox, LostOnError} \/ (inbox # <<>> /\ inbox' = Tail(inbox)),
           UNCHANGED <<reqs, reply, made, alive>>
    PROVE  SessionTypes'
<1>1. inbox' \in Seq(Messages)
  BY HeadTailProperties, EndsFacts DEF SessionTypes, LostOnError
<1> QED BY <1>1 DEF SessionTypes

(* What is sent is a request.                                              *)
LEMMA SendTypes ==
    ASSUME SessionTypes, call \in Nat, sends \in Nat, NEW kind \in AskedKinds, NEW reader,
           Send(kind, reader)
    PROVE  /\ SessionTypes' /\ sends' = sends + 1
           /\ reqs = <<>> => /\ reqs' # <<>> /\ reqs' = <<reqs'[1]>>
                             /\ reqs'[1].id = <<call, sends + 1>>
                             /\ reqs'[1].kind \in {kind, "garbage"}
<1>1. sends' = sends + 1 /\ UNCHANGED <<reply, made, inbox, alive>>
  BY DEF Send
<1>2. PICK r \in Requests : /\ r.id = <<call, sends + 1>> /\ r.kind \in {kind, "garbage"}
                            /\ reqs' = Append(reqs, r)
  <2>1. <<call, sends + 1>> \in Ids
    BY DEF Ids
  <2>2. \A q \in Kinds : /\ Request(q, <<call, sends + 1>>) \in Requests
                         /\ Request(q, <<call, sends + 1>>).id = <<call, sends + 1>>
                         /\ Request(q, <<call, sends + 1>>).kind = q
    BY <2>1 DEF Request, Requests
  <2>3. kind \in Kinds /\ "garbage" \in Kinds
    BY DEF AskedKinds, Kinds
  <2>4. \/ reqs' = Append(reqs, Request("garbage", <<call, sends + 1>>))
        \/ reqs' = Append(reqs, Request(kind, <<call, sends + 1>>))
    BY DEF Send, FlushRequest
  <2> QED BY <2>2, <2>3, <2>4
<1>3. SessionTypes'
  BY <1>1, <1>2, AppendProperties DEF SessionTypes
<1>4. ASSUME reqs = <<>> PROVE reqs' = <<r>> /\ reqs'[1] = r /\ reqs' # <<>>
  <2>1. <<>> \in Seq(Requests) /\ Append(<<>>, r) = <<r>>
    OBVIOUS
  <2> QED BY <1>2, <1>4, <2>1
<1> QED BY <1>1, <1>2, <1>3, <1>4

(* What a step of the query engine does to the session.                    *)
LEMMA ClientTypes ==
    ASSUME SessionTypes, Watching, call \in Nat, sends \in Nat, Client
    PROVE  /\ SessionTypes' /\ Watching'
           /\ call' = call /\ path' = path /\ clean' = clean /\ sends' \in {sends, sends + 1}
<1> DEFINE Same == UNCHANGED <<reply, made, alive, call, path, clean, watcher, past>>
           Took == inbox' \in {inbox, LostOnError} \/ (inbox # <<>> /\ inbox' = Tail(inbox))
           Mine == Took /\ Same /\ UNCHANGED <<reqs, sends>> /\ pc' # "idle"
<1>1. ASSUME NEW kind \in AskedKinds, NEW reader \in Reading, Send(kind, reader)
      PROVE  Same /\ SessionTypes' /\ sends' = sends + 1 /\ pc' # "idle"
  <2>1. Same /\ pc' # "idle"
    BY <1>1 DEF Send, ctxVars, callVars, Reading
  <2> QED BY <1>1, <2>1, SendTypes
<1>2. CASE SendPrepare \/ SendExecute \/ SendSimple \/ SendPing
  <2>1. /\ {"prepare", "execute", "simple", "ping"} \subseteq AskedKinds
        /\ {"describe", "execute", "text", "ping"} \subseteq Reading
    BY DEF AskedKinds, Reading
  <2>2. Same /\ SessionTypes' /\ sends' = sends + 1 /\ pc' # "idle"
    BY <1>1, <1>2, <2>1 DEF SendPrepare, SendExecute, SendSimple, SendPing, Execute
  <2> QED BY <2>2 DEF Watching
<1>3. CASE SendFails \/ BadArgument \/ BackoffExpires \/ Retry
  <2>1. Mine
    BY <1>3 DEF SendFails, BadArgument, BackoffExpires, Retry, Return, sessionVars, serverVars,
                ctxVars, callVars
  <2> QED BY <2>1, ReadTypes DEF Watching
<1>4. CASE Skip \/ ReadDescription \/ ReadError \/ ReadRow
  <2>1. pc # "idle" /\ pc' \in {pc, "abort"}
    BY <1>4 DEF Skip, Skipped, ReadDescription, ReadError, RememberError, ReadRow
  <2>2. Mine
    BY <1>4, <2>1 DEF Skip, ReadDescription, ReadError, ReadRow, Read, readFrame, ctxVars, callVars
  <2> QED BY <2>2, ReadTypes DEF Watching
<1>5. CASE ReadFails \/ Unexpected \/ BadDescription \/ PingError \/ PingOK \/ AbortDone
  <2>1. Mine
    BY <1>5 DEF ReadFails, Unexpected, BadDescription, PingError, PingOK, AbortDone, Return, Read,
                readFrame, ctxVars, callVars
  <2> QED BY <2>1, ReadTypes DEF Watching
<1>6. CASE RowFails \/ FinishOK \/ FinishFails \/ FinishStale \/ DescribeOK
  <2>1. Mine
    BY <1>6 DEF RowFails, FinishOK, FinishFails, FinishStale, DescribeOK, Return, Read,
                readFrame, ctxVars, callVars
  <2> QED BY <2>1, ReadTypes DEF Watching
<1>7. CASE DescribeFails \/ FinishError
  <2>1. pc' # "idle"
    BY <1>7 DEF DescribeFails, FinishError, Fail, Return
  <2>2. Mine
    BY <1>7, <2>1 DEF DescribeFails, FinishError, Read, readFrame, ctxVars, callVars
  <2> QED BY <2>2, ReadTypes DEF Watching
<1>8. CASE Detach
  <2>1. pc' = "idle" /\ watcher' = "none" /\ past' = (IF watcher = "none" THEN past ELSE FALSE)
        /\ UNCHANGED <<reqs, reply, made, inbox, alive, call, path, clean, sends>>
    BY <1>8 DEF Detach, DetachContext, serverVars, callVars
  <2>2. ~past'
    BY <2>1 DEF Watching
  <2> QED BY <2>1, <2>2, ReadTypes DEF Watching
<1> QED BY <1>2, <1>3, <1>4, <1>5, <1>6, <1>7, <1>8 DEF Client

(* The query engine on the connection of a call with a reader of its own.  *)
LEMMA PreparedClient ==
    ASSUME path \notin {"cached", "simple", "ping"},
           pc \notin {"execute", "text", "ping", "abort", "backoff"}, Client
    PROVE  /\ pc \in {"send", "describe", "bind", "detach"}
           /\ pc' \in {"send", "describe", "bind", "detach", "idle"}
           /\ pc # "detach" => pc' # "idle"
           /\ sent' = sent /\ out' = out
           /\ result' \in {result, "broken", "args", "pg", "noplan"}
<1>0. pc \notin {"execute", "text", "ping", "abort", "backoff"} /\ path \notin {"cached", "simple", "ping"}
  OBVIOUS
<1>1. CASE SendPrepare
  BY <1>1 DEF SendPrepare, Send
<1>2. CASE SendFails \/ BadArgument
  BY <1>2 DEF SendFails, BadArgument, Return, outVars
<1>3. CASE Skip
  BY <1>0, <1>3 DEF Skip, Skipped, outVars
<1>4. CASE ReadFails \/ Unexpected \/ ReadDescription
  BY <1>0, <1>4 DEF ReadFails, Unexpected, ReadDescription, Return, Reading, outVars
<1>5. CASE BadDescription \/ ReadError
  BY <1>0, <1>5 DEF BadDescription, ReadError, RememberError, Return, outVars
<1>6. CASE DescribeOK
  BY <1>6 DEF DescribeOK, outVars
<1>7. CASE DescribeFails
  <2>1. \A res, code : ~Retryable(res, code)
    BY <1>0 DEF Retryable
  <2> QED BY <1>7, <2>1 DEF DescribeFails, Fail, Return
<1>8. CASE Detach
  BY <1>8 DEF Detach, outVars
<1>9. ~(SendExecute \/ SendSimple \/ SendPing)
  BY <1>0 DEF SendExecute, SendSimple, SendPing
<1>10. ~(PingError \/ PingOK \/ ReadRow \/ RowFails \/ AbortDone \/ Retry \/ BackoffExpires)
  BY <1>0 DEF PingError, PingOK, ReadRow, RowFails, AbortDone, Retry, BackoffExpires
<1>11. ~(FinishOK \/ FinishFails \/ FinishStale \/ FinishError)
  BY <1>0 DEF FinishOK, FinishFails, FinishStale, StaleRetry, FinishError
<1> QED BY <1>1, <1>2, <1>3, <1>4, <1>5, <1>6, <1>7, <1>8, <1>9, <1>10, <1>11 DEF Client

(* A call that is over only has its watcher to wait for.                   *)
LEMMA OnlyDetach ==
    ASSUME pc \in {"detach", "idle"}, Client
    PROVE  Detach
<1>1. ~(SendPrepare \/ SendExecute \/ SendSimple \/ SendPing \/ SendFails \/ BadArgument)
  BY DEF SendPrepare, SendExecute, Execute, SendSimple, SendPing, SendFails, BadArgument
<1>2. ~(Skip \/ ReadFails \/ Unexpected \/ ReadDescription \/ BadDescription \/ ReadError)
  BY DEF Skip, Skipped, ReadFails, Unexpected, ReadDescription, BadDescription, ReadError,
         Reading
<1>3. ~(PingError \/ PingOK \/ DescribeOK \/ DescribeFails \/ ReadRow \/ RowFails)
  BY DEF PingError, PingOK, DescribeOK, DescribeFails, ReadRow, RowFails
<1>4. ~(FinishOK \/ FinishFails \/ FinishStale \/ FinishError \/ AbortDone \/ Retry \/ BackoffExpires)
  BY DEF FinishOK, FinishFails, FinishStale, StaleRetry, FinishError, AbortDone, Retry,
         BackoffExpires
<1> QED BY <1>1, <1>2, <1>3, <1>4 DEF Client

(* The environment, and the watcher in it.                                 *)
LEMMA EnvironmentWatching ==
    ASSUME Watching, Environment, UNCHANGED pc
    PROVE  Watching' /\ (watcher = "none" => watcher' = "none" /\ past' = past)
<1>1. CASE WatcherCancels \/ WatcherDeadline
  BY <1>1 DEF Watching, WatcherCancels, WatcherDeadline
<1>2. CASE UNCHANGED <<watcher, past>>
  BY <1>2 DEF Watching
<1> QED BY <1>1, <1>2 DEF Environment, Serve, Emit, ServeGarbage, ServerDies, Rotate,
                          DeliverCancel, CtxExpires, ctxVars

=============================================================================
