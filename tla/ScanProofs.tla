---------------------------- MODULE ScanProofs ----------------------------
(***************************************************************************)
(* Proofs about Scan.tla, for results of any length, any initial capacity, *)
(* batch size and set of NULLs, and any number of calls of ScanStruct,     *)
(* ScanStructBatched and the queries of Query.tla on one Client.           *)
(*                                                                         *)
(* A call is the query engine's until its rows are read, and QueryProofs   *)
(* is about that part of it (Prelude).  While the rows are read, what the  *)
(* caller was given and what the slots hold behind it are the rows of the  *)
(* last execution read so far, and the slots behind them are blank         *)
(* (Reads); then only what was given matters (Over).                       *)
(***************************************************************************)
EXTENDS Scan, QueryProofs

Cells == [row: {<<>>} \cup (Ids \X Nat), val: Nat]

\* Row i of a result as a struct, and the first n of them.
Entry(id, i) == [row |-> <<id, i>>, val |-> IF i \in NullRows THEN 0 ELSE i]
Entries(id, n) == [i \in 1..n |-> Entry(id, i)]

\* The rows read so far.
Seen == Len(sent) + rowCount

\* A scan has a reader of its own, and only ScanStructBatched a callback.
Lanes ==
    path \in ScanPaths =>
        /\ pc \in {"send", "describe", "bind", "scan", "detach", "idle"}
        /\ pc = "scan" /\ path = "scan" => ~Refused

\* Whatever an earlier call left on the wire.
Basic ==
    /\ SessionTypes /\ Watching /\ Lanes
    /\ call \in Nat /\ sends \in Nat /\ clean \in BOOLEAN

\* No row of a scan was read yet.
Prelude ==
    /\ QueryInv
    /\ path \in ScanPaths => sent = <<>> /\ out = <<>> /\ result \notin {"ok", "lost"}

\* The slots of the rows read are in use, the others are as new.
Slice ==
    /\ slots \in Seq(Cells) /\ Len(slots) > 0 /\ rowCount \in 0..Len(slots)
    /\ \A i \in 1..Len(slots) : i > rowCount => slots[i] = Blank
    /\ path = "batched" => Len(slots) = BatchSize /\ rowCount < BatchSize
    /\ path = "scan" => sent = <<>>

\* No batch was refused so far.
Accepting ==
    /\ ~Refused /\ Slice
    /\ sent \o Taken(slots, rowCount) = Entries(Id, Seen)
    /\ \/ Waiting("execute", Id, Seen, pgError)
       \/ Answered("execute", Id, Seen, pgError, FALSE) /\ Seen <= made
    /\ pgError = StaleStmt => Seen = 0

\* A batch was refused, and the rest of the answer is skimmed.
Refusing ==
    /\ Refused /\ path = "batched" /\ cbErr # StaleStmt /\ rowCount \in Nat
    /\ sent = Entries(Id, Len(sent)) /\ Len(sent) <= made
    /\ Answered("execute", Id, Seen, pgError, TRUE)

Reads ==
    /\ pc = "scan" /\ path \in ScanPaths /\ result = "none" /\ out = <<>>
    /\ sent \in Seq(Cells) /\ pgError \in Codes \cup {"none"}
    /\ Accepting \/ Refusing

Over ==
    /\ pc \in {"detach", "idle"} /\ path \in ScanPaths
    /\ result \in {"ok", "pg", "callback", "broken"}
    /\ sent \in Seq(Cells) /\ sent = Entries(Id, Len(sent))
    /\ Len(sent) <= made /\ (reqs # <<>> => sent = <<>>)
    /\ result = "ok" => Len(sent) = made
    /\ result # "broken" => WireClean

ScanInv == Basic /\ (clean => Prelude \/ Reads \/ Over)

-----------------------------------------------------------------------------
(* Structs and slots *)

(* Structs have their types.                                               *)
LEMMA CellFacts ==
    /\ Blank \in Cells /\ Blank.val = 0
    /\ \A id \in Ids, i \in Nat : Entry(id, i) \in Cells /\ Entry(id, i).row = <<id, i>>
<1>1. Blank \in Cells /\ Blank.val = 0
  BY DEF Blank, Cells
<1>2. ASSUME NEW id \in Ids, NEW i \in Nat
      PROVE  Entry(id, i) \in Cells /\ Entry(id, i).row = <<id, i>>
  <2>1. <<id, i>> \in Ids \X Nat
    OBVIOUS
  <2> QED BY <2>1 DEF Entry, Cells
<1> QED BY <1>1, <1>2

(* The first n rows of a result.                                           *)
LEMMA EntriesFacts ==
    ASSUME NEW id \in Ids, NEW n \in Nat
    PROVE  /\ Entries(id, n) \in Seq(Cells) /\ Len(Entries(id, n)) = n
           /\ \A i \in 1..n : Entries(id, n)[i] = Entry(id, i)
<1>1. \A i \in 1..n : Entry(id, i) \in Cells
  BY CellFacts
<1>2. Entries(id, n) \in [1..n -> Cells] /\ \A i \in 1..n : Entries(id, n)[i] = Entry(id, i)
  BY <1>1 DEF Entries
<1>3. Entries(id, n) \in Seq(Cells)
  BY <1>2, SeqDef
<1>4. DOMAIN Entries(id, n) = 1..n /\ DOMAIN Entries(id, n) = 1..Len(Entries(id, n))
  BY <1>2, <1>3
<1>5. Len(Entries(id, n)) \in Nat
  BY <1>3
<1>6. Len(Entries(id, n)) = n
  BY <1>4, <1>5
<1> QED BY <1>2, <1>3, <1>6

(* A sequence that is, element by element, the first n rows.               *)
LEMMA EntriesEqual ==
    ASSUME NEW id \in Ids, NEW n \in Nat, NEW s \in Seq(Cells), Len(s) = n,
           \A i \in 1..n : s[i] = Entry(id, i)
    PROVE  s = Entries(id, n)
BY EntriesFacts, SeqEqual

(* A row more.                                                             *)
LEMMA EntriesNext ==
    ASSUME NEW id \in Ids, NEW n \in Nat
    PROVE  Entries(id, n) \o <<Entry(id, n + 1)>> = Entries(id, n + 1)
<1> DEFINE r == Entries(id, n)
           x == <<Entry(id, n + 1)>>
           s == r \o x
<1>1. r \in Seq(Cells) /\ Len(r) = n /\ \A i \in 1..n : r[i] = Entry(id, i)
  BY EntriesFacts
<1>2. x \in Seq(Cells) /\ Len(x) = 1 /\ x[1] = Entry(id, n + 1)
  <2>1. Entry(id, n + 1) \in Cells
    BY CellFacts
  <2> QED BY <2>1
<1> HIDE DEF r, x
<1>3. /\ s \in Seq(Cells) /\ Len(s) = Len(r) + Len(x)
      /\ \A i \in 1..Len(r) + Len(x) : s[i] = IF i <= Len(r) THEN r[i] ELSE x[i - Len(r)]
  BY <1>1, <1>2, ConcatProperties
<1>4. Len(r) + Len(x) = n + 1 /\ Len(r) = n
  BY <1>1, <1>2
<1> HIDE DEF s
<1>5. \A i \in 1..n + 1 : s[i] = Entry(id, i)
  <2> SUFFICES ASSUME NEW i \in 1..n + 1 PROVE s[i] = Entry(id, i)
    OBVIOUS
  <2>1. s[i] = IF i <= n THEN r[i] ELSE x[i - n]
    BY <1>3, <1>4, Zenon
  <2>2. CASE i <= n
    BY <1>1, <2>1, <2>2
  <2>3. CASE ~(i <= n)
    <3>1. i = n + 1 /\ i - n = 1
      BY <2>3
    <3> QED BY <1>2, <2>1, <2>3, <3>1
  <2> QED BY <2>2, <2>3
<1>6. n + 1 \in Nat /\ Len(s) = n + 1
  BY <1>3, <1>4
<1>7. s = Entries(id, n + 1)
  BY <1>3, <1>5, <1>6, EntriesEqual
<1> QED BY <1>7 DEF s, r, x

(* The first part of some rows is the first of them.                       *)
LEMMA EntriesPart ==
    ASSUME NEW id \in Ids, NEW n \in Nat, NEW a \in Seq(Cells), NEW b \in Seq(Cells),
           a \o b = Entries(id, n)
    PROVE  a = Entries(id, Len(a)) /\ Len(a) + Len(b) = n /\ Len(a) <= n
<1>1. /\ Len(a) \in Nat /\ Len(b) \in Nat /\ Len(a \o b) = Len(a) + Len(b)
      /\ \A i \in 1..Len(a) + Len(b) : (a \o b)[i] = IF i <= Len(a) THEN a[i] ELSE b[i - Len(a)]
  BY ConcatProperties
<1>2. Len(Entries(id, n)) = n /\ \A i \in 1..n : Entries(id, n)[i] = Entry(id, i)
  BY EntriesFacts
<1>3. Len(a) + Len(b) = n
  BY <1>1, <1>2
<1>4. Len(a) <= n
  BY <1>1, <1>3
<1>5. \A i \in 1..Len(a) : a[i] = Entry(id, i)
  <2> SUFFICES ASSUME NEW i \in 1..Len(a) PROVE a[i] = Entry(id, i)
    OBVIOUS
  <2>1. i \in 1..Len(a) + Len(b) /\ i \in 1..n /\ i <= Len(a)
    BY <1>1, <1>3
  <2> QED BY <1>1, <1>2, <2>1
<1>6. a = Entries(id, Len(a))
  BY <1>1, <1>5, EntriesEqual
<1> QED BY <1>3, <1>4, <1>6

(* What the slots in use hold.                                             *)
LEMMA TakenFacts ==
    ASSUME NEW s \in Seq(Cells), NEW n \in 0..Len(s)
    PROVE  /\ Taken(s, n) \in Seq(Cells) /\ Len(Taken(s, n)) = n
           /\ \A i \in 1..n : Taken(s, n)[i] = s[i]
<1>1. Len(s) \in Nat /\ n \in Nat
  OBVIOUS
<1> QED BY <1>1 DEF Taken

(* fillStructRow on the next slot, which is blank, leaves the others alone *)
(* and makes of the slot what the row is: nothing shows through a NULL.    *)
LEMMA FillSlots ==
    ASSUME NEW s \in Seq(Cells), NEW n \in Nat, n < Len(s), NEW id \in Ids, NEW j \in Nat,
           \A i \in 1..Len(s) : i > n => s[i] = Blank, NEW m, m.id = id, m.i = j
    PROVE  LET f == Fill(s, n + 1, m) IN
           /\ f \in Seq(Cells) /\ Len(f) = Len(s)
           /\ \A i \in 1..Len(f) : i > n + 1 => f[i] = Blank
           /\ Taken(f, n + 1) = Taken(s, n) \o <<Entry(id, j)>>
<1> DEFINE f == Fill(s, n + 1, m)
           x == <<Entry(id, j)>>
           t == Taken(s, n)
<1>1. Len(s) \in Nat /\ n + 1 \in 1..Len(s) /\ n \in 0..Len(s) /\ n + 1 > n
  OBVIOUS
<1>2. s[n + 1] = Blank /\ Blank.val = 0
  BY <1>1, CellFacts
<1>3. f = [s EXCEPT ![n + 1] = Entry(id, j)]
  BY <1>2 DEF Fill, Entry
<1>4. Entry(id, j) \in Cells
  BY CellFacts
<1> HIDE DEF f
<1>5. f \in Seq(Cells) /\ Len(f) = Len(s) /\ f[n + 1] = Entry(id, j)
      /\ \A i \in 1..Len(s) : i # n + 1 => f[i] = s[i]
  BY <1>1, <1>3, <1>4
<1>6. \A i \in 1..Len(f) : i > n + 1 => f[i] = Blank
  <2> SUFFICES ASSUME NEW i \in 1..Len(s), i > n + 1 PROVE f[i] = Blank
    BY <1>5
  <2>1. i # n + 1 /\ i > n
    BY <1>1
  <2> QED BY <1>5, <2>1
<1>7. Taken(f, n + 1) = t \o x
  <2>1. t \in Seq(Cells) /\ Len(t) = n /\ \A i \in 1..n : t[i] = s[i]
    BY <1>1, TakenFacts
  <2>2. x \in Seq(Cells) /\ Len(x) = 1 /\ x[1] = Entry(id, j)
    BY <1>4
  <2>3. n + 1 \in 0..Len(f)
    BY <1>1, <1>5
  <2> DEFINE g == Taken(f, n + 1)
  <2>4. g \in Seq(Cells) /\ Len(g) = n + 1 /\ \A i \in 1..n + 1 : g[i] = f[i]
    BY <1>5, <2>3, TakenFacts
  <2> HIDE DEF t, x, g
  <2>5. /\ t \o x \in Seq(Cells) /\ Len(t \o x) = Len(t) + Len(x)
        /\ \A i \in 1..Len(t) + Len(x) : (t \o x)[i] = IF i <= Len(t) THEN t[i] ELSE x[i - Len(t)]
    BY <2>1, <2>2, ConcatProperties
  <2>6. Len(t) + Len(x) = n + 1 /\ Len(t) = n
    BY <2>1, <2>2
  <2>7. \A i \in 1..n + 1 : (t \o x)[i] = g[i]
    <3> SUFFICES ASSUME NEW i \in 1..n + 1 PROVE (t \o x)[i] = g[i]
      OBVIOUS
    <3>1. (t \o x)[i] = IF i <= n THEN t[i] ELSE x[i - n]
      BY <2>5, <2>6, Zenon
    <3>2. CASE i <= n
      <4>1. i \in 1..n /\ i \in 1..Len(s) /\ i # n + 1
        BY <1>1, <3>2
      <4> QED BY <1>5, <2>1, <2>4, <3>1, <3>2, <4>1
    <3>3. CASE ~(i <= n)
      <4>1. i = n + 1 /\ i - n = 1
        BY <3>3
      <4> QED BY <1>5, <2>2, <2>4, <3>1, <3>3, <4>1
    <3> QED BY <3>2, <3>3
  <2>8. g = t \o x
    BY <2>4, <2>5, <2>6, <2>7, SeqEqual
  <2> QED BY <2>8 DEF g
<1> QED BY <1>5, <1>6, <1>7 DEF f

(* New slots.                                                              *)
LEMMA BlanksFacts ==
    ASSUME NEW n \in Nat
    PROVE  Blanks(n) \in Seq(Cells) /\ Len(Blanks(n)) = n /\ \A i \in 1..n : Blanks(n)[i] = Blank
<1>1. Blanks(n) \in [1..n -> Cells] /\ \A i \in 1..n : Blanks(n)[i] = Blank
  BY CellFacts DEF Blanks
<1>2. Blanks(n) \in Seq(Cells)
  BY <1>1, SeqDef
<1>3. DOMAIN Blanks(n) = 1..n /\ DOMAIN Blanks(n) = 1..Len(Blanks(n)) /\ Len(Blanks(n)) \in Nat
  BY <1>1, <1>2
<1>4. Len(Blanks(n)) = n
  BY <1>3
<1> QED BY <1>1, <1>2, <1>4

(* A full slice grows: the rows stay, the new slots are blank.             *)
LEMMA GrowSlots ==
    ASSUME NEW s \in Seq(Cells), Len(s) > 0
    PROVE  /\ Grown(s) \in Seq(Cells) /\ Len(Grown(s)) > Len(s)
           /\ \A i \in 1..Len(Grown(s)) : i > Len(s) => Grown(s)[i] = Blank
           /\ Taken(Grown(s), Len(s)) = Taken(s, Len(s))
<1> DEFINE k == Len(s)
           b == Blanks(k)
           g == s \o b
<1>0. k \in Nat /\ k > 0
  OBVIOUS
<1> HIDE DEF k
<1>1. k \in Nat /\ b \in Seq(Cells) /\ Len(b) = k /\ \A i \in 1..k : b[i] = Blank
  BY <1>0, BlanksFacts
<1> HIDE DEF b
<1>2. /\ g \in Seq(Cells) /\ Len(g) = k + Len(b)
      /\ \A i \in 1..k + Len(b) : g[i] = IF i <= k THEN s[i] ELSE b[i - k]
  BY <1>1, ConcatProperties DEF k
<1>3. Len(g) = k + k /\ Len(g) > k
  BY <1>0, <1>1, <1>2
<1> HIDE DEF g
<1>4. \A i \in 1..Len(g) : i > k => g[i] = Blank
  <2> SUFFICES ASSUME NEW i \in 1..k + k, i > k PROVE g[i] = Blank
    BY <1>3
  <2>1. ~(i <= k) /\ i - k \in 1..k
    BY <1>1
  <2> QED BY <1>1, <1>2, <2>1
<1>5. Taken(g, k) = Taken(s, k)
  <2>1. k \in 0..Len(g) /\ k \in 0..Len(s)
    BY <1>1, <1>3 DEF k
  <2>2. /\ Taken(g, k) \in Seq(Cells) /\ Len(Taken(g, k)) = k /\ \A i \in 1..k : Taken(g, k)[i] = g[i]
        /\ Taken(s, k) \in Seq(Cells) /\ Len(Taken(s, k)) = k /\ \A i \in 1..k : Taken(s, k)[i] = s[i]
    BY <1>2, <2>1, TakenFacts
  <2>3. \A i \in 1..k : i \in 1..k + Len(b) /\ i <= k
    BY <1>1
  <2>4. \A i \in 1..k : Taken(g, k)[i] = Taken(s, k)[i]
    BY <1>2, <2>2, <2>3
  <2> QED BY <2>2, <2>4, SeqEqual
<1> QED BY <1>2, <1>3, <1>4, <1>5 DEF g, b, k, Grown

-----------------------------------------------------------------------------
(* What holds on any wire *)

(* A step of the query engine on the connection of a scan.                 *)
LEMMA ClientOfScan ==
    ASSUME Lanes, path \in ScanPaths, Client
    PROVE  /\ pc # "scan" /\ pc' \in {"send", "describe", "bind", "detach", "idle"}
           /\ sent' = sent /\ out' = out
           /\ result' \in {result, "broken", "args", "pg", "noplan"}
<1>1. /\ path \notin {"cached", "simple", "ping"}
      /\ pc \notin {"execute", "text", "ping", "abort", "backoff"}
  BY DEF Lanes, ScanPaths
<1> QED BY <1>1, PreparedClient

ReaderSteps ==
    \/ ScanSkips \/ ScanFails \/ ScanError
    \/ ScanRow \/ BatchRow \/ BatchFull \/ BatchRefused
    \/ ScanReadyError \/ ScanReadyOK \/ LastRefused

(* What the readers of a scan leave alone.                                 *)
LEMMA ReaderFrame ==
    ASSUME ReaderSteps
    PROVE  /\ pc = "scan" /\ pc' \in {"scan", "send", "detach"}
           /\ UNCHANGED <<reqs, reply, made, alive, watcher, past, call, path, sends, out, clean>>
           /\ inbox' = LostOnError \/ (inbox # <<>> /\ inbox' = Tail(inbox))
           /\ cbErr' # cbErr => path = "batched"
<1>1. pc = "scan" /\ UNCHANGED scanFrame
  BY DEF ReaderSteps, ScanSkips, ScanFails, ScanError, ScanRow, BatchRow, BatchFull, BatchRefused,
         ScanReadyError, ScanReadyOK, LastRefused
<1>2. UNCHANGED <<reqs, reply, made, alive, watcher, past, call, path, sends, out, clean>>
  BY <1>1 DEF scanFrame, ctxVars, callVars
<1>3. inbox' = LostOnError \/ (inbox # <<>> /\ inbox' = Tail(inbox))
  BY DEF ReaderSteps, ScanSkips, ScanFails, ScanError, ScanRow, BatchRow, BatchFull, BatchRefused,
         ScanReadyError, ScanReadyOK, LastRefused, Read
<1>4. pc' \in {"scan", "send", "detach"}
  BY <1>1 DEF ReaderSteps, ScanSkips, ScanFails, ScanError, ScanRow, BatchRow, BatchFull, BatchRefused,
         StopReading, ScanReadyError, ScanReadyOK, LastRefused, ScanReturns, Return
<1>5. cbErr' # cbErr => path = "batched"
  BY DEF ReaderSteps, ScanSkips, ScanFails, ScanError, ScanRow, BatchRow, BatchFull, BatchRefused,
         ScanReadyError, ScanReadyOK, LastRefused, scanVars
<1> QED BY <1>1, <1>2, <1>3, <1>4, <1>5

(* The environment leaves the call alone.                                  *)
LEMMA EnvironmentBasic ==
    ASSUME Basic, Environment, UNCHANGED <<pc, path, call, sends, clean, cbErr>>
    PROVE  Basic'
<1>1. SessionTypes'
  BY EnvironmentTypes DEF Basic
<1>2. Watching'
  BY EnvironmentWatching DEF Basic
<1> QED BY <1>1, <1>2 DEF Basic, Lanes, Refused

(* Every step keeps what holds on any wire.                                *)
LEMMA BasicNext ==
    ASSUME Basic, [ScanNext]_allVars
    PROVE  Basic'
<1>1. CASE ScanBegin \/ (Refuse /\ UNCHANGED scanVars)
  <2>1. QueryInv'
    BY <1>1, BeginStep DEF Basic, ScanBegin
  <2>2. Lanes'
    <3>1. CASE ScanBegin
      BY <3>1 DEF ScanBegin, Begin, Lanes
    <3>2. CASE Refuse
      BY <3>2 DEF Refuse, Usable, Lanes
    <3> QED BY <1>1, <3>1, <3>2
  <2> QED BY <2>1, <2>2 DEF Basic, QueryInv, QueryTypes
<1>2. CASE PlanFails
  <2>1. /\ pc' = "detach"
        /\ UNCHANGED <<reqs, reply, made, inbox, alive, watcher, past, call, path, sends, clean>>
    BY <1>2 DEF PlanFails, Return, sessionVars, serverVars, ctxVars, callVars
  <2>2. SessionTypes'
    BY <2>1, ReadTypes DEF Basic
  <2> QED BY <2>1, <2>2 DEF Basic, Watching, Lanes
<1>3. CASE StartScan
  <2>1. /\ Send("execute", "scan") /\ "execute" \in AskedKinds /\ pc' = "scan" /\ cbErr' = "none"
        /\ UNCHANGED <<watcher, past, call, path, clean>>
    BY <1>3 DEF StartScan, Execute, Send, AskedKinds, ctxVars, callVars
  <2>2. SessionTypes' /\ sends' = sends + 1
    BY <2>1, SendTypes DEF Basic
  <2>3. sends' \in Nat
    BY <2>2 DEF Basic
  <2> QED BY <2>1, <2>2, <2>3 DEF Basic, Watching, Lanes, Refused
<1>4. CASE ReaderSteps
  <2>1. /\ pc = "scan" /\ pc' \in {"scan", "send", "detach"}
        /\ UNCHANGED <<reqs, reply, made, alive, watcher, past, call, path, sends, out, clean>>
        /\ inbox' = LostOnError \/ (inbox # <<>> /\ inbox' = Tail(inbox))
        /\ cbErr' # cbErr => path = "batched"
    BY <1>4, ReaderFrame
  <2>2. SessionTypes'
    BY <2>1, ReadTypes DEF Basic
  <2>3. Lanes'
    BY <2>1 DEF Basic, Lanes, Refused
  <2> QED BY <2>1, <2>2, <2>3 DEF Basic, Watching
<1>5. CASE Client /\ UNCHANGED scanVars
  <2>1. /\ SessionTypes' /\ Watching' /\ call' = call /\ path' = path /\ clean' = clean
        /\ sends' \in {sends, sends + 1}
    BY <1>5, ClientTypes DEF Basic
  <2>2. Lanes'
    <3>1. ASSUME path \in ScanPaths PROVE pc' \in {"send", "describe", "bind", "detach", "idle"}
      BY <1>5, <3>1, ClientOfScan DEF Basic
    <3> QED BY <2>1, <3>1 DEF Lanes
  <2>3. sends' \in Nat
    BY <2>1 DEF Basic
  <2> QED BY <2>1, <2>2, <2>3 DEF Basic
<1>6. CASE (Environment /\ UNCHANGED queryVars) /\ UNCHANGED scanVars
  BY <1>6, EnvironmentBasic DEF queryVars, callVars, scanVars
<1>7. CASE UNCHANGED allVars
  <2>1. UNCHANGED <<reqs, reply, made, inbox, alive, watcher, past, pc, path, call, sends, clean, cbErr>>
    BY <1>7 DEF allVars, vars, scanVars, sessionVars, serverVars, ctxVars, callVars
  <2>2. SessionTypes'
    BY <2>1, ReadTypes DEF Basic
  <2> QED BY <2>1, <2>2 DEF Basic, Watching, Lanes, Refused
<1>8. CASE Stopped /\ UNCHANGED scanVars
  BY <1>7, <1>8 DEF Stopped, allVars
<1>9. CASE ScanNext
  <2>1. \/ ScanBegin \/ PlanFails \/ StartScan \/ ReaderSteps
        \/ /\ Client \/ Refuse \/ Stopped \/ (Environment /\ UNCHANGED queryVars)
           /\ UNCHANGED scanVars
    BY <1>9 DEF ScanNext, ReaderSteps
  <2> QED BY <1>1, <1>2, <1>3, <1>4, <1>5, <1>6, <1>8, <2>1
<1> QED BY <1>7, <1>9

(* What holds on any wire does so initially.                               *)
LEMMA BasicInit ==
    ASSUME ScanInit
    PROVE  Basic /\ Prelude
<1>1. QueryInv /\ pc = "idle" /\ sent = <<>> /\ out = <<>> /\ result = "none"
  BY QueryInit DEF ScanInit, Init
<1> QED BY <1>1 DEF Basic, Lanes, Prelude, QueryInv, QueryTypes


-----------------------------------------------------------------------------
(* Until the rows are read *)

(* A call begins, or is refused.                                           *)
LEMMA BeginPrelude ==
    ASSUME Basic, ScanBegin \/ Refuse
    PROVE  Prelude'
<1>1. QueryInv'
  BY BeginStep DEF Basic, ScanBegin
<1>2. sent' = <<>> /\ out' = <<>> /\ result' \in {"none", "refused"}
  BY DEF ScanBegin, Begin, Refuse
<1> QED BY <1>1, <1>2 DEF Prelude

(* The steps of the query engine.                                          *)
LEMMA EnginePrelude ==
    ASSUME Basic, Prelude,
           Client \/ (Environment /\ UNCHANGED queryVars) \/ UNCHANGED vars
    PROVE  Prelude'
<1>1. QueryInv'
  <2>1. QueryInv /\ [Next]_vars
    BY DEF Prelude, Next
  <2> QED BY <2>1, QueryNext
<1>2. CASE Client
  <2>1. path' = path
    BY <1>2, ClientTypes DEF Basic
  <2>2. ASSUME path \in ScanPaths
        PROVE  /\ sent' = sent /\ out' = out
               /\ result' \in {result, "broken", "args", "pg", "noplan"}
    BY <1>2, <2>2, ClientOfScan DEF Basic
  <2> QED BY <1>1, <2>1, <2>2 DEF Prelude
<1>3. CASE (Environment /\ UNCHANGED queryVars) \/ UNCHANGED vars
  <2>1. UNCHANGED <<path, sent, out, result>>
    BY <1>3 DEF queryVars, vars, callVars, outVars
  <2> QED BY <1>1, <2>1 DEF Prelude
<1> QED BY <1>2, <1>3

(* The struct does not fit, and nothing was sent, or the answer was read.  *)
LEMMA PlanFailsPrelude ==
    ASSUME Basic, Prelude, PlanFails
    PROVE  Prelude'
<1>1. /\ pc \in {"send", "bind"} /\ pc' = "detach" /\ result' = "shape" /\ path \in ScanPaths
      /\ UNCHANGED Steady /\ UNCHANGED <<reqs, alive, inbox, sent, out, rowCount, pgError>>
  BY DEF PlanFails, Return, Steady, sessionVars, serverVars, ctxVars, callVars, outVars
<1>2. /\ inbox' \in Seq(Messages) /\ out' \in Seq(Messages) /\ sent' \in Seq(Messages)
      /\ rowCount' \in Nat /\ pgError' \in Codes \cup {"none"} /\ result' \in Results \ {"none"}
  BY <1>1 DEF Prelude, QueryInv, SessionTypes, QueryTypes, Results, Errors
<1>3. clean => WireClean'
  BY <1>1 DEF Prelude, QueryInv, Settled, WireClean, Steady
<1>4. clean => IsPrefix(sent' \o out', FullOutput) /\ (reqs # <<>> => sent' = <<>> /\ out' = <<>>)
  BY <1>1, Delivered DEF Prelude
<1>5. result' # "ok" /\ pc \notin {"idle", "detach"} /\ QueryInv
  BY <1>1 DEF Prelude
<1>6. QueryInv'
  BY <1>1, <1>2, <1>3, <1>4, <1>5, ReturnStep
<1> QED BY <1>1, <1>6 DEF Prelude

(* The first part of no slots, and no rows.                                *)
LEMMA NoRows ==
    /\ \A s \in Seq(Cells) : Taken(s, 0) = <<>> /\ s \o <<>> = s
    /\ \A id \in Ids : Entries(id, 0) = <<>>
    /\ <<>> \in Seq(Cells) /\ Len(<<>>) = 0
<1>1. ASSUME NEW s \in Seq(Cells) PROVE Taken(s, 0) = <<>>
  <2>1. 0 \in 0..Len(s)
    OBVIOUS
  <2>2. Taken(s, 0) \in Seq(Cells) /\ Len(Taken(s, 0)) = 0
    BY <2>1, TakenFacts
  <2> QED BY <2>2, EmptySeq
<1>2. ASSUME NEW id \in Ids PROVE Entries(id, 0) = <<>>
  <2>1. Entries(id, 0) \in Seq(Cells) /\ Len(Entries(id, 0)) = 0
    BY EntriesFacts
  <2> QED BY <2>1, EmptySeq
<1>3. \A s \in Seq(Cells) : s \o <<>> = s
  BY ConcatEmptySeq
<1>4. <<>> \in Seq(Cells) /\ Len(<<>>) = 0
  OBVIOUS
<1> QED BY <1>1, <1>2, <1>3, <1>4

(* Bind, Execute and Sync are sent, and the slice is made.                 *)
LEMMA StartReads ==
    ASSUME Basic, Prelude, clean, StartScan
    PROVE  Reads'
<1>1. /\ pc \in {"send", "bind"} /\ path \in ScanPaths /\ Send("execute", "scan")
      /\ "execute" \in AskedKinds /\ pc' = "scan" /\ pgError' = "none" /\ rowCount' = 0
      /\ UNCHANGED <<reply, made, inbox, call, path, result, out, sent>>
      /\ slots' = Blanks(IF path = "scan" THEN InitialCap ELSE BatchSize) /\ cbErr' = "none"
  BY DEF StartScan, Execute, Send, AskedKinds, callVars
<1>2. /\ reqs = <<>> /\ reply = <<>> /\ inbox = <<>> /\ sent = <<>> /\ out = <<>>
      /\ result = "none"
  BY <1>1 DEF Prelude, QueryInv, Settled, WireClean, Control
<1>3. /\ reqs' # <<>> /\ reqs' = <<reqs'[1]>> /\ reqs'[1].id = <<call, sends + 1>>
      /\ reqs'[1].kind \in {"execute", "garbage"} /\ sends' = sends + 1
  BY <1>1, <1>2, SendTypes DEF Basic
<1>4. Id' = <<call, sends + 1>> /\ Id' \in Ids
  BY <1>1, <1>3 DEF Id, Ids, Basic
<1>5. PICK c \in Nat : c > 0 /\ slots' = Blanks(c) /\ (path = "batched" => c = BatchSize)
  BY <1>1, ScanAssumption
<1>6. slots' \in Seq(Cells) /\ Len(slots') = c /\ \A i \in 1..c : slots'[i] = Blank
  BY <1>5, BlanksFacts
<1>7. Slice'
  <2>1. rowCount' \in 0..Len(slots') /\ Len(slots') > 0
    BY <1>1, <1>5, <1>6
  <2>2. path' = "batched" => Len(slots') = BatchSize /\ rowCount' < BatchSize
    BY <1>1, <1>5, <1>6
  <2>3. \A i \in 1..Len(slots') : i > rowCount' => slots'[i] = Blank
    BY <1>6
  <2>4. sent' = <<>>
    BY <1>1, <1>2
  <2> QED BY <1>6, <2>1, <2>2, <2>3, <2>4 DEF Slice
<1>8. Seen' = 0 /\ sent' = <<>>
  BY <1>1, <1>2, NoRows DEF Seen
<1>9. (sent \o Taken(slots, rowCount) = Entries(Id, Seen))'
  BY <1>1, <1>4, <1>6, <1>8, NoRows
<1>10. Waiting("execute", Id, Seen, pgError)'
  BY <1>1, <1>2, <1>3, <1>4, <1>8 DEF Waiting
<1>11. Accepting'
  BY <1>1, <1>7, <1>8, <1>9, <1>10 DEF Accepting, Refused
<1> QED BY <1>1, <1>2, <1>8, <1>11, NoRows DEF Reads


-----------------------------------------------------------------------------
(* While the rows are read *)

(* How many rows were read.                                                *)
LEMMA SeenFacts ==
    ASSUME Basic, Reads
    PROVE  /\ Id \in Ids /\ Seen \in Nat /\ rowCount \in Nat /\ Len(sent) \in Nat
           /\ sent \in Seq(Cells) /\ made \in Nat
<1>1. rowCount \in Nat
  <2>1. CASE Accepting
    BY <2>1 DEF Accepting, Slice
  <2>2. CASE Refusing
    BY <2>2 DEF Refusing
  <2> QED BY <2>1, <2>2 DEF Reads
<1>2. sent \in Seq(Cells) /\ Len(sent) \in Nat
  BY DEF Reads
<1>3. Id \in Ids /\ made \in Nat
  BY DEF Basic, Id, Ids, SessionTypes
<1> QED BY <1>1, <1>2, <1>3 DEF Seen

(* What the caller was given are the first rows of the result, and none    *)
(* before the request was served.                                          *)
LEMMA GivenSoFar ==
    ASSUME Basic, Reads
    PROVE  /\ sent = Entries(Id, Len(sent)) /\ Len(sent) <= made
           /\ reqs # <<>> => sent = <<>>
<1>1. /\ Id \in Ids /\ Seen \in Nat /\ rowCount \in Nat /\ Len(sent) \in Nat
      /\ sent \in Seq(Cells) /\ made \in Nat
  BY SeenFacts
<1>2. CASE Accepting
  <2>1. /\ slots \in Seq(Cells) /\ rowCount \in 0..Len(slots)
        /\ sent \o Taken(slots, rowCount) = Entries(Id, Seen)
    BY <1>2 DEF Accepting, Slice
  <2>2. Taken(slots, rowCount) \in Seq(Cells)
    BY <2>1, TakenFacts
  <2>3. sent = Entries(Id, Len(sent)) /\ Len(sent) <= Seen
    BY <1>1, <2>1, <2>2, EntriesPart
  <2>4. CASE Waiting("execute", Id, Seen, pgError)
    <3>1. Seen = 0
      BY <2>4 DEF Waiting
    <3>2. Len(sent) = 0 /\ Len(sent) <= made
      BY <1>1, <2>3, <3>1
    <3> QED BY <1>1, <2>3, <3>2, EmptySeq
  <2>5. CASE Answered("execute", Id, Seen, pgError, FALSE) /\ Seen <= made
    <3>1. reqs = <<>>
      BY <2>5 DEF Answered
    <3>2. Len(sent) <= made
      BY <1>1, <2>3, <2>5
    <3> QED BY <2>3, <3>1, <3>2
  <2> QED BY <1>2, <2>4, <2>5 DEF Accepting
<1>3. CASE Refusing
  BY <1>3 DEF Refusing, Answered
<1> QED BY <1>2, <1>3 DEF Reads

(* A message is read.                                                      *)
LEMMA TakeReads ==
    ASSUME Basic, Reads, Accepting, inbox # <<>>, inbox' = Tail(inbox),
           UNCHANGED <<reqs, reply, made>>,
           NEW id, id = Id, NEW n, n = Seen, NEW e, e = pgError
    PROVE  LET a == Head(inbox) IN
           /\ a \in Messages /\ reqs = <<>> /\ n <= made
           /\ a.t = "ReadyForQuery" => WireClean'
           /\ ComesNext(made, "execute", id, n, e, a)
           /\ Answered("execute", id, n, e, TRUE)'
           /\ a.t = "DataRow" => Answered("execute", id, n + 1, e, FALSE)'
           /\ a.t \notin {"DataRow", "Error"} => Answered("execute", id, n, e, FALSE)'
           /\ a.t = "Error" => \A c : c # "none" => Answered("execute", id, n, c, FALSE)'
<1>1. n \in Nat /\ "execute" \in AskedKinds /\ SessionTypes
  BY SeenFacts DEF AskedKinds, Basic
<1>2. Answered("execute", id, n, e, FALSE) /\ n <= made
  BY DEF Accepting, Waiting
<1>3. PICK k \in AskedKinds : k = "execute"
  BY <1>1
<1>4. PICK skims \in BOOLEAN : skims = FALSE
  OBVIOUS
<1>5. LET a == Head(inbox) IN
      /\ a \in Messages /\ inbox' \in Seq(Messages) /\ reqs = <<>>
      /\ Answered(k, id, n, e, TRUE)'
      /\ a.t = "ReadyForQuery" => WireClean'
      /\ ~skims =>
           /\ ComesNext(made, k, id, n, e, a)
           /\ a.t = "DataRow" => Answered(k, id, n + 1, e, FALSE)'
           /\ a.t \notin {"DataRow", "Error"} => Answered(k, id, n, e, FALSE)'
           /\ a.t = "Error" => \A c : c # "none" => Answered(k, id, n, c, FALSE)'
  BY <1>1, <1>2, <1>3, <1>4, TakeAnswered
<1> QED BY <1>2, <1>3, <1>4, <1>5

(* A message is skimmed.                                                   *)
LEMMA SkimReads ==
    ASSUME Basic, Reads, Refusing, inbox # <<>>, inbox' = Tail(inbox),
           UNCHANGED <<reqs, reply, made>>, NEW id, id = Id
    PROVE  LET a == Head(inbox) IN
           /\ a \in Messages /\ reqs = <<>> /\ (a.t = "ReadyForQuery" => WireClean')
           /\ \A n, e : Answered("execute", id, n, e, TRUE)'
<1>1. PICK n, e : n \in Nat /\ n = Seen /\ e = pgError
  BY SeenFacts
<1>2. Answered("execute", id, n, e, TRUE) /\ "execute" \in AskedKinds /\ SessionTypes
  BY <1>1 DEF Refusing, AskedKinds, Basic
<1>3. LET a == Head(inbox) IN
      /\ a \in Messages /\ reqs = <<>> /\ Answered("execute", id, n, e, TRUE)'
      /\ a.t = "ReadyForQuery" => WireClean'
  BY <1>1, <1>2, TakeAnswered
<1> QED BY <1>3 DEF Answered

(* The scan is over.                                                       *)
LEMMA ReadsOver ==
    ASSUME Basic, Reads, pc' = "detach", result' \in {"pg", "callback", "broken"},
           UNCHANGED <<reqs, made, call, path, sends>>, sent' = sent,
           result' # "broken" => WireClean'
    PROVE  Over'
<1>1. sent = Entries(Id, Len(sent)) /\ Len(sent) <= made /\ (reqs # <<>> => sent = <<>>)
  BY GivenSoFar
<1>2. sent \in Seq(Cells) /\ path \in ScanPaths /\ Id' = Id
  BY DEF Reads, Id
<1> QED BY <1>1, <1>2 DEF Over


(* A message that leaves the slots alone.                                  *)
LEMMA StillReads ==
    ASSUME Reads, UNCHANGED <<pc, path, result, out, sent, slots, cbErr, rowCount, call, sends, made>>,
           pgError' \in Codes \cup {"none"},
           Accepting => /\ Answered("execute", Id, Seen, pgError, FALSE)' /\ Seen <= made
                        /\ pgError' = StaleStmt => Seen = 0,
           Refusing => Answered("execute", Id, Seen, pgError, TRUE)'
    PROVE  Reads'
<1>1. Id' = Id /\ Seen' = Seen /\ Refused' = Refused
  BY DEF Id, Seen, Refused
<1>2. CASE Accepting
  <2>1. Slice'
    BY <1>2 DEF Accepting, Slice
  <2>2. (sent \o Taken(slots, rowCount) = Entries(Id, Seen))'
    BY <1>1, <1>2 DEF Accepting
  <2>3. Answered("execute", Id, Seen, pgError, FALSE)'
    BY <1>2
  <2>4. Accepting'
    BY <1>1, <1>2, <2>1, <2>2, <2>3 DEF Accepting
  <2> QED BY <2>4 DEF Reads
<1>3. CASE Refusing
  <2>1. Refusing'
    BY <1>1, <1>3 DEF Refusing
  <2> QED BY <2>1 DEF Reads
<1> QED BY <1>2, <1>3 DEF Reads

(* The messages a reader passes over, and the error it remembers.          *)
LEMMA SkipsReads ==
    ASSUME Basic, Reads, ScanSkips \/ ScanError
    PROVE  Reads'
<1> DEFINE a == Head(inbox)
<1>1. /\ inbox # <<>> /\ inbox' = Tail(inbox)
      /\ UNCHANGED <<reqs, reply, made, pc, path, result, out, sent, slots, cbErr, rowCount, call,
                     sends>>
  BY DEF ScanSkips, ScanError, Read, scanFrame, callVars, scanVars
<1>2. PICK id, n, e : id = Id /\ n = Seen /\ e = pgError
  OBVIOUS
<1>3. Id' = id /\ Seen' = n
  BY <1>1, <1>2 DEF Id, Seen
<1>4. a \in Messages
  BY <1>1, HeadTailProperties DEF Basic, SessionTypes
<1>5. \/ /\ pgError' = e /\ (Accepting => a.t \notin {"DataRow", "Error"})
      \/ /\ pgError' = a.code /\ a.t = "Error"
  BY <1>2 DEF ScanSkips, ScanError, Read, Accepting
<1>6. pgError' \in Codes \cup {"none"} /\ (a.t = "Error" => a.code # "none")
  BY <1>2, <1>4, <1>5, MessageParts DEF Reads, Codes, StaleStmt, Serialization, Canceled
<1>7. ASSUME Accepting
      PROVE  /\ n <= made /\ ComesNext(made, "execute", id, n, e, a)
             /\ a.t \notin {"DataRow", "Error"} => Answered("execute", id, n, e, FALSE)'
             /\ a.t = "Error" => \A c : c # "none" => Answered("execute", id, n, c, FALSE)'
  BY <1>1, <1>2, <1>7, TakeReads
<1> HIDE DEF a
<1>8. ASSUME Accepting
      PROVE  /\ Answered("execute", Id, Seen, pgError, FALSE)' /\ Seen <= made
             /\ pgError' = StaleStmt => Seen = 0
  <2>1. CASE pgError' = e /\ a.t \notin {"DataRow", "Error"}
    <3>1. Answered("execute", id, n, e, FALSE)' /\ n <= made
      BY <1>7, <1>8, <2>1
    <3>2. e = StaleStmt => n = 0
      BY <1>2, <1>8 DEF Accepting
    <3>3. Answered("execute", Id, Seen, pgError, FALSE)'
      BY <1>3, <2>1, <3>1 DEF Answered
    <3> QED BY <1>2, <2>1, <3>1, <3>2, <3>3
  <2>2. CASE pgError' = a.code /\ a.t = "Error"
    <3>1. PICK c : c = a.code /\ c # "none"
      BY <1>6, <2>2
    <3>2. Answered("execute", id, n, c, FALSE)' /\ n <= made
      BY <1>7, <1>8, <2>2, <3>1
    <3>3. c = StaleStmt => n = 0
      BY <1>7, <1>8, <2>2, <3>1 DEF ComesNext, Opening
    <3>4. Answered("execute", Id, Seen, pgError, FALSE)'
      BY <1>3, <2>2, <3>1, <3>2 DEF Answered
    <3> QED BY <1>2, <2>2, <3>1, <3>2, <3>3, <3>4
  <2> QED BY <1>5, <1>8, <2>1, <2>2
<1>9. ASSUME Refusing PROVE Answered("execute", Id, Seen, pgError, TRUE)'
  <2>1. \A m, c : Answered("execute", id, m, c, TRUE)'
    BY <1>1, <1>2, <1>9, SkimReads
  <2> QED BY <1>3, <2>1 DEF Answered
<1> QED BY <1>1, <1>6, <1>8, <1>9, StillReads

(* The reader gives up.                                                    *)
LEMMA FailsReads ==
    ASSUME Basic, Reads, ScanFails
    PROVE  Over'
<1>1. /\ pc' = "detach" /\ result' = "broken"
      /\ UNCHANGED <<reqs, made, call, path, sends, sent>>
  BY DEF ScanFails, Return, scanFrame, callVars
<1> QED BY <1>1, ReadsOver


(* The next row of the result is the next one read.                        *)
LEMMA NextRow ==
    ASSUME Basic, Reads, Accepting, Read("DataRow"), UNCHANGED <<reqs, reply, made>>
    PROVE  /\ Head(inbox).id = Id /\ Head(inbox).i = Seen + 1 /\ Seen + 1 <= made
           /\ pgError = "none"
           /\ \A id, n : id = Id /\ n = Seen => Answered("execute", id, n + 1, "none", FALSE)'
<1> SUFFICES ASSUME NEW id, id = Id, NEW n, n = Seen
             PROVE  /\ Head(inbox).id = id /\ Head(inbox).i = n + 1 /\ n + 1 <= made
                    /\ pgError = "none" /\ Answered("execute", id, n + 1, "none", FALSE)'
  OBVIOUS
<1>0. PICK e : e = pgError
  OBVIOUS
<1>1. inbox # <<>> /\ inbox' = Tail(inbox) /\ Head(inbox).t = "DataRow"
  BY DEF Read
<1>2. /\ reqs = <<>> /\ ComesNext(made, "execute", id, n, e, Head(inbox))
      /\ Answered("execute", id, n + 1, e, FALSE)'
  BY <1>0, <1>1, TakeReads
<1>3. n \in Nat /\ made \in Nat
  BY SeenFacts
<1>4. Head(inbox).id = id /\ Head(inbox).i = n + 1 /\ n < made /\ e = "none"
  BY <1>1, <1>2 DEF ComesNext, Opening
<1>5. n + 1 <= made
  BY <1>3, <1>4
<1> QED BY <1>0, <1>2, <1>4, <1>5

(* It goes into the first slot that is not in use.                         *)
LEMMA RowStored ==
    ASSUME Basic, Reads, Accepting, NEW b \in Seq(Cells), rowCount < Len(b),
           \A i \in 1..Len(b) : i > rowCount => b[i] = Blank,
           Taken(b, rowCount) = Taken(slots, rowCount),
           NEW m, m.id = Id, m.i = Seen + 1
    PROVE  LET f == Fill(b, rowCount + 1, m) IN
           /\ f \in Seq(Cells) /\ Len(f) = Len(b)
           /\ \A i \in 1..Len(f) : i > rowCount + 1 => f[i] = Blank
           /\ sent \o Taken(f, rowCount + 1) = Entries(Id, Seen + 1)
<1> DEFINE f == Fill(b, rowCount + 1, m)
           x == <<Entry(Id, Seen + 1)>>
           t == Taken(slots, rowCount)
<1>1. Id \in Ids /\ Seen \in Nat /\ rowCount \in Nat /\ sent \in Seq(Cells) /\ Seen + 1 \in Nat
  BY SeenFacts
<1>2. /\ f \in Seq(Cells) /\ Len(f) = Len(b)
      /\ \A i \in 1..Len(f) : i > rowCount + 1 => f[i] = Blank
      /\ Taken(f, rowCount + 1) = t \o x
  <2>1. PICK id, n, j : id \in Ids /\ id = Id /\ n \in Nat /\ n = rowCount /\ j \in Nat /\ j = Seen + 1
    BY <1>1
  <2>2. /\ n < Len(b) /\ m.id = id /\ m.i = j
        /\ \A i \in 1..Len(b) : i > n => b[i] = Blank
    BY <2>1
  <2>3. LET g == Fill(b, n + 1, m) IN
        /\ g \in Seq(Cells) /\ Len(g) = Len(b)
        /\ \A i \in 1..Len(g) : i > n + 1 => g[i] = Blank
        /\ Taken(g, n + 1) = Taken(b, n) \o <<Entry(id, j)>>
    BY <2>1, <2>2, FillSlots
  <2> QED BY <2>1, <2>3
<1>3. t \in Seq(Cells) /\ sent \o t = Entries(Id, Seen)
  <2>1. slots \in Seq(Cells) /\ rowCount \in 0..Len(slots) /\ sent \o t = Entries(Id, Seen)
    BY DEF Accepting, Slice
  <2> QED BY <2>1, TakenFacts
<1>4. x \in Seq(Cells)
  <2>1. Entry(Id, Seen + 1) \in Cells
    BY <1>1, CellFacts
  <2> QED BY <2>1
<1>5. (sent \o t) \o x = Entries(Id, Seen + 1)
  BY <1>1, <1>3, EntriesNext
<1> HIDE DEF t, x, f
<1>6. sent \o (t \o x) = (sent \o t) \o x
  <2>1. sent \in Seq(Cells) /\ t \in Seq(Cells) /\ x \in Seq(Cells)
    BY <1>1, <1>3, <1>4
  <2>2. \A u, v, w \in Seq(Cells) : u \o (v \o w) = (u \o v) \o w
    BY ThreeParts
  <2> QED BY <2>1, <2>2
<1> QED BY <1>2, <1>5, <1>6 DEF f

(* A row that leaves room, or for which room is made.                      *)
LEMMA RowReads ==
    ASSUME Basic, Reads, ScanRow \/ BatchRow
    PROVE  Reads'
<1>1. /\ Read("DataRow") /\ rowCount' = rowCount + 1
      /\ UNCHANGED <<reqs, reply, made, pc, path, result, out, sent, cbErr, pgError, call, sends>>
      /\ \/ path = "scan"
         \/ path = "batched" /\ ~Refused /\ rowCount + 1 < BatchSize
  BY DEF ScanRow, BatchRow, scanFrame, callVars
<1>2. Accepting
  <2>1. CASE path = "scan"
    BY <2>1 DEF Reads, Refusing
  <2>2. CASE ~Refused
    BY <2>2 DEF Reads, Refusing
  <2> QED BY <1>1, <2>1, <2>2
<1>3. /\ slots \in Seq(Cells) /\ Len(slots) \in Nat /\ Len(slots) > 0 /\ rowCount \in 0..Len(slots)
      /\ \A i \in 1..Len(slots) : i > rowCount => slots[i] = Blank
      /\ path = "batched" => Len(slots) = BatchSize
      /\ path = "scan" => sent = <<>>
  BY <1>2 DEF Accepting, Slice
<1>4. PICK b \in Seq(Cells) :
        /\ slots' = Fill(b, rowCount + 1, Head(inbox)) /\ rowCount < Len(b)
        /\ \A i \in 1..Len(b) : i > rowCount => b[i] = Blank
        /\ Taken(b, rowCount) = Taken(slots, rowCount)
        /\ path = "batched" => Len(b) = BatchSize /\ rowCount + 1 < BatchSize
  <2>1. CASE ScanRow /\ rowCount = Len(slots)
    <3>1. /\ Grown(slots) \in Seq(Cells) /\ Len(Grown(slots)) > Len(slots)
          /\ \A i \in 1..Len(Grown(slots)) : i > Len(slots) => Grown(slots)[i] = Blank
          /\ Taken(Grown(slots), Len(slots)) = Taken(slots, Len(slots))
      BY <1>3, GrowSlots
    <3>2. slots' = Fill(Grown(slots), rowCount + 1, Head(inbox)) /\ path # "batched"
      BY <2>1 DEF ScanRow
    <3>3. rowCount < Len(Grown(slots))
      BY <1>3, <2>1, <3>1
    <3> QED BY <2>1, <3>1, <3>2, <3>3
  <2>2. CASE ScanRow /\ rowCount # Len(slots)
    <3>1. slots' = Fill(slots, rowCount + 1, Head(inbox)) /\ path # "batched"
      BY <2>2 DEF ScanRow
    <3>2. rowCount < Len(slots)
      BY <1>3, <2>2
    <3> QED BY <1>3, <3>1, <3>2
  <2>3. CASE BatchRow
    <3>1. slots' = Fill(slots, rowCount + 1, Head(inbox)) /\ path = "batched" /\ rowCount + 1 < BatchSize
      BY <2>3 DEF BatchRow
    <3>2. rowCount < Len(slots)
      BY <1>3, <3>1
    <3> QED BY <1>3, <3>1, <3>2
  <2> QED BY <2>1, <2>2, <2>3
<1>5. PICK id, n, e : id = Id /\ n = Seen /\ e = pgError
  OBVIOUS
<1>6. /\ Head(inbox).id = id /\ Head(inbox).i = n + 1 /\ n + 1 <= made /\ e = "none"
      /\ Answered("execute", id, n + 1, e, FALSE)'
  <2>1. Read("DataRow") /\ UNCHANGED <<reqs, reply, made>>
    BY <1>1
  <2>2. /\ Head(inbox).id = Id /\ Head(inbox).i = Seen + 1 /\ Seen + 1 <= made
        /\ pgError = "none" /\ Answered("execute", id, n + 1, "none", FALSE)'
    BY <1>2, <1>5, <2>1, NextRow
  <2> QED BY <1>5, <2>2
<1>7. /\ slots' \in Seq(Cells) /\ Len(slots') = Len(b)
      /\ \A i \in 1..Len(slots') : i > rowCount + 1 => slots'[i] = Blank
      /\ sent \o Taken(slots', rowCount + 1) = Entries(Id, Seen + 1)
  BY <1>2, <1>4, <1>5, <1>6, RowStored
<1>8. rowCount \in Nat /\ Seen \in Nat /\ Len(sent) \in Nat /\ Len(b) \in Nat /\ BatchSize \in Nat
  BY <1>4, SeenFacts, ScanAssumption
<1>9. Id' = id /\ Seen' = n + 1 /\ Refused' = Refused
  BY <1>1, <1>5, <1>8 DEF Id, Seen, Refused
<1>10. Slice'
  <2>1. rowCount' \in 0..Len(slots') /\ Len(slots') > 0
    BY <1>1, <1>4, <1>7, <1>8
  <2>2. path' = "batched" => Len(slots') = BatchSize /\ rowCount' < BatchSize
    BY <1>1, <1>4, <1>7
  <2>3. path' = "scan" => sent' = <<>>
    BY <1>1, <1>3
  <2>4. \A i \in 1..Len(slots') : i > rowCount' => slots'[i] = Blank
    BY <1>1, <1>7
  <2> QED BY <1>7, <2>1, <2>2, <2>3, <2>4 DEF Slice
<1>11. (sent \o Taken(slots, rowCount) = Entries(Id, Seen))'
  BY <1>1, <1>5, <1>7, <1>9
<1>12. Answered("execute", Id, Seen, pgError, FALSE)' /\ Seen' <= made'
  BY <1>1, <1>5, <1>6, <1>9 DEF Answered
<1>13. pgError' # StaleStmt
  BY <1>1, <1>5, <1>6 DEF StaleStmt
<1>14. Accepting'
  BY <1>2, <1>9, <1>10, <1>11, <1>12, <1>13 DEF Accepting
<1> QED BY <1>1, <1>14 DEF Reads


(* A row that fills the batch.                                             *)
LEMMA BatchItems ==
    ASSUME Basic, Reads, Accepting, path = "batched", rowCount + 1 = BatchSize,
           Head(inbox).id = Id, Head(inbox).i = Seen + 1
    PROVE  LET f == Fill(slots, BatchSize, Head(inbox)) IN
           /\ Len(f) = BatchSize /\ sent \o Taken(f, BatchSize) = Entries(Id, Seen + 1)
<1>1. /\ slots \in Seq(Cells) /\ Len(slots) = BatchSize /\ rowCount < Len(slots)
      /\ \A i \in 1..Len(slots) : i > rowCount => slots[i] = Blank
  BY DEF Accepting, Slice
<1>2. PICK m : m = Head(inbox)
  OBVIOUS
<1>3. m.id = Id /\ m.i = Seen + 1
  BY <1>2
<1>4. LET g == Fill(slots, rowCount + 1, m) IN
      Len(g) = Len(slots) /\ sent \o Taken(g, rowCount + 1) = Entries(Id, Seen + 1)
  BY <1>1, <1>3, RowStored
<1> QED BY <1>1, <1>2, <1>4

(* The callback takes a batch, and its slots are cleared.                  *)
LEMMA FullReads ==
    ASSUME Basic, Reads, BatchFull
    PROVE  Reads'
<1>1. PICK f : f = Fill(slots, BatchSize, Head(inbox))
  OBVIOUS
<1>2. /\ Read("DataRow") /\ rowCount' = 0 /\ path = "batched" /\ ~Refused /\ rowCount + 1 = BatchSize
      /\ sent' = sent \o Taken(f, BatchSize) /\ slots' = Blanks(Len(f))
      /\ UNCHANGED <<reqs, reply, made, pc, path, result, out, cbErr, pgError, call, sends>>
  BY <1>1 DEF BatchFull, Cleared, scanFrame, callVars
<1>3. PICK id, n, e : id = Id /\ n = Seen /\ e = pgError
  OBVIOUS
<1>4. /\ Len(f) = BatchSize /\ id \in Ids /\ n + 1 \in Nat
      /\ sent \o Taken(f, BatchSize) = Entries(id, n + 1) /\ n + 1 <= made
      /\ e = "none" /\ Answered("execute", id, n + 1, e, FALSE)'
  <2>1. Accepting
    BY <1>2 DEF Reads, Refusing
  <2>2. /\ Head(inbox).id = id /\ Head(inbox).i = n + 1 /\ n + 1 <= made /\ e = "none"
        /\ Answered("execute", id, n + 1, e, FALSE)'
    <3>1. Read("DataRow") /\ UNCHANGED <<reqs, reply, made>>
      BY <1>2
    <3>2. /\ Head(inbox).id = Id /\ Head(inbox).i = Seen + 1 /\ Seen + 1 <= made
          /\ pgError = "none" /\ Answered("execute", id, n + 1, "none", FALSE)'
      BY <1>3, <2>1, <3>1, NextRow
    <3> QED BY <1>3, <3>2
  <2>3. Len(f) = BatchSize /\ sent \o Taken(f, BatchSize) = Entries(Id, Seen + 1)
    BY <1>1, <1>2, <1>3, <2>1, <2>2, BatchItems
  <2>4. id \in Ids /\ n + 1 \in Nat
    BY <1>3, SeenFacts
  <2> QED BY <1>3, <2>2, <2>3, <2>4
<1>5. sent' = Entries(id, n + 1) /\ sent' \in Seq(Cells) /\ Len(sent') = n + 1
  BY <1>2, <1>4, EntriesFacts
<1>6. Id' = id /\ Seen' = n + 1 /\ ~Refused'
  BY <1>2, <1>3, <1>4, <1>5 DEF Id, Seen, Refused
<1>7. BatchSize \in Nat /\ BatchSize > 0
  BY ScanAssumption
<1>8. slots' \in Seq(Cells) /\ Len(slots') = BatchSize /\ \A i \in 1..BatchSize : slots'[i] = Blank
  BY <1>2, <1>4, <1>7, BlanksFacts
<1>9. Slice'
  <2>1. rowCount' \in 0..Len(slots') /\ Len(slots') > 0
    BY <1>2, <1>7, <1>8
  <2>2. Len(slots') = BatchSize /\ rowCount' < BatchSize /\ path' # "scan"
    BY <1>2, <1>7, <1>8
  <2>3. \A i \in 1..Len(slots') : i > rowCount' => slots'[i] = Blank
    BY <1>8
  <2> QED BY <1>8, <2>1, <2>2, <2>3 DEF Slice
<1>10. sent' \o Taken(slots', rowCount') = Entries(Id', Seen')
  <2>1. Taken(slots', 0) = <<>> /\ sent' \o <<>> = sent'
    BY <1>5, <1>8, NoRows
  <2> QED BY <1>2, <1>5, <1>6, <2>1
<1>11. Answered("execute", Id, Seen, pgError, FALSE)' /\ Seen' <= made'
  BY <1>2, <1>3, <1>4, <1>6 DEF Answered
<1>12. pgError' # StaleStmt /\ pgError' = pgError
  BY <1>2, <1>3, <1>4 DEF StaleStmt
<1>13. Accepting'
  BY <1>6, <1>9, <1>10, <1>11, <1>12 DEF Accepting
<1> QED BY <1>2, <1>5, <1>12, <1>13 DEF Reads

(* The callback refuses a batch, which it was given.                       *)
LEMMA RefusedReads ==
    ASSUME Basic, Reads, BatchRefused, StaleStmt \notin CallbackErrors
    PROVE  Reads'
<1>1. PICK f : f = Fill(slots, BatchSize, Head(inbox))
  OBVIOUS
<1>2. /\ Read("DataRow") /\ rowCount' = BatchSize /\ path = "batched" /\ ~Refused
      /\ rowCount + 1 = BatchSize /\ sent' = sent \o Taken(f, BatchSize) /\ cbErr' \in CallbackErrors
      /\ UNCHANGED <<reqs, reply, made, pc, path, result, out, pgError, call, sends>>
  BY <1>1 DEF BatchRefused, StopReading, scanFrame, callVars
<1>3. PICK id, n, e : id = Id /\ n = Seen /\ e = pgError
  OBVIOUS
<1>4. /\ id \in Ids /\ n + 1 \in Nat
      /\ sent \o Taken(f, BatchSize) = Entries(id, n + 1) /\ n + 1 <= made
      /\ e = "none" /\ Answered("execute", id, n + 1, e, FALSE)'
  <2>1. Accepting
    BY <1>2 DEF Reads, Refusing
  <2>2. /\ Head(inbox).id = id /\ Head(inbox).i = n + 1 /\ n + 1 <= made /\ e = "none"
        /\ Answered("execute", id, n + 1, e, FALSE)'
    <3>1. Read("DataRow") /\ UNCHANGED <<reqs, reply, made>>
      BY <1>2
    <3>2. /\ Head(inbox).id = Id /\ Head(inbox).i = Seen + 1 /\ Seen + 1 <= made
          /\ pgError = "none" /\ Answered("execute", id, n + 1, "none", FALSE)'
      BY <1>3, <2>1, <3>1, NextRow
    <3> QED BY <1>3, <3>2
  <2>3. Len(f) = BatchSize /\ sent \o Taken(f, BatchSize) = Entries(Id, Seen + 1)
    BY <1>1, <1>2, <1>3, <2>1, <2>2, BatchItems
  <2>4. id \in Ids /\ n + 1 \in Nat
    BY <1>3, SeenFacts
  <2> QED BY <1>3, <2>2, <2>3, <2>4
<1>5. sent' = Entries(id, n + 1) /\ sent' \in Seq(Cells) /\ Len(sent') = n + 1
  BY <1>2, <1>4, EntriesFacts
<1>6. cbErr' \in Codes /\ cbErr' # StaleStmt /\ Refused'
  BY <1>2, ScanAssumption DEF Refused, Codes, StaleStmt, Serialization, Canceled
<1>7. Id' = id /\ rowCount' \in Nat /\ BatchSize \in Nat
  BY <1>2, <1>3, ScanAssumption DEF Id
<1>8. Answered("execute", Id, Seen, pgError, TRUE)'
  BY <1>4, <1>7 DEF Answered
<1>9. sent' = Entries(Id', Len(sent')) /\ Len(sent') <= made'
  BY <1>2, <1>4, <1>5, <1>7
<1>10. Refusing'
  BY <1>2, <1>6, <1>7, <1>8, <1>9 DEF Refusing
<1> QED BY <1>2, <1>5, <1>10 DEF Reads

-----------------------------------------------------------------------------
(* ReadyForQuery *)

(* A scan whose cached statement the backend forgot has read no row, and   *)
(* starts again on a clean wire.                                           *)
LEMMA RetryPrelude ==
    ASSUME Basic, Basic', Reads, pc' = "send", sent' = <<>>, out' = <<>>, result' = "none",
           WireClean', rowCount' \in Nat, pgError' \in Codes \cup {"none"}
    PROVE  Prelude'
<1>1. SessionTypes' /\ QueryTypes'
  BY EndsFacts DEF Basic, QueryTypes, Results
<1>2. Control' /\ InAnswer' /\ Watching'
  BY DEF Control, InAnswer, Basic, Reading
<1>3. Settled' /\ Output'
  BY DEF Settled, Output
<1> QED BY <1>1, <1>2, <1>3 DEF Prelude, QueryInv

(* The reader has an error at ReadyForQuery.                               *)
LEMMA ErrorReads ==
    ASSUME Basic, Basic', Reads, ScanReadyError
    PROVE  Prelude' \/ Over'
<1>1. /\ Read("ReadyForQuery") /\ inbox # <<>> /\ inbox' = Tail(inbox)
      /\ Head(inbox).t = "ReadyForQuery" /\ ScanReturns(Failure[1], Failure[2])
      /\ UNCHANGED <<reqs, reply, made, path, out, pgError, rowCount, sent, call, sends>>
  BY DEF ScanReadyError, Read, scanFrame, callVars
<1>2. PICK id, n, e : id = Id /\ n = Seen /\ e = pgError
  OBVIOUS
<1>3. CASE Accepting
  <2>1. Failure[1] = "pg" /\ Failure[2] = pgError
    BY <1>3 DEF Accepting, Failure
  <2>2. WireClean'
    BY <1>1, <1>2, <1>3, TakeReads
  <2>3. CASE pc' = "send" /\ pgError = StaleStmt /\ UNCHANGED result
    <3>1. Seen = 0 /\ Len(sent) \in Nat /\ rowCount \in Nat /\ sent \in Seq(Cells)
      BY <1>3, <2>3, SeenFacts DEF Accepting
    <3>2. Len(sent) = 0
      BY <3>1 DEF Seen
    <3>3. sent = <<>>
      BY <3>1, <3>2, EmptySeq
    <3>4. out' = <<>> /\ result' = "none" /\ pgError' \in Codes \cup {"none"}
      BY <1>1, <2>3 DEF Reads
    <3> QED BY <1>1, <2>2, <2>3, <3>1, <3>3, <3>4, RetryPrelude
  <2>4. CASE Return("pg")
    <3>1. pc' = "detach" /\ result' = "pg"
      BY <2>4 DEF Return
    <3> QED BY <1>1, <2>2, <3>1, ReadsOver
  <2> QED BY <1>1, <2>1, <2>3, <2>4 DEF ScanReturns
<1>4. CASE Refusing
  <2>1. Failure[1] = "callback" /\ Failure[2] = cbErr /\ cbErr # StaleStmt
    BY <1>4 DEF Refusing, Failure
  <2>2. WireClean'
    BY <1>1, <1>2, <1>4, SkimReads
  <2>3. pc' = "detach" /\ result' = "callback"
    BY <1>1, <2>1 DEF ScanReturns, Return
  <2> QED BY <1>1, <2>2, <2>3, ReadsOver
<1> QED BY <1>3, <1>4 DEF Reads

(* The reader has no error: all the rows were read, and they are given.    *)
LEMMA DoneReads ==
    ASSUME Basic, Reads, ScanReadyOK \/ LastRefused, StaleStmt \notin CallbackErrors
    PROVE  Over'
<1>1. /\ Failure[2] = "none" /\ inbox # <<>> /\ inbox' = Tail(inbox)
      /\ Head(inbox).t = "ReadyForQuery" /\ sent' = sent \o Taken(slots, rowCount)
      /\ UNCHANGED <<reqs, reply, made, path, call, sends>>
  BY DEF ScanReadyOK, LastRefused, Read, scanFrame, callVars
<1>2. pc' = "detach" /\ result' \in {"ok", "callback"}
  <2>1. CASE ScanReadyOK
    BY <2>1 DEF ScanReadyOK, Return
  <2>2. CASE LastRefused
    <3>1. PICK code \in CallbackErrors : ScanReturns("callback", code)
      BY <2>2 DEF LastRefused
    <3>2. code # StaleStmt
      BY <3>1
    <3> QED BY <3>1, <3>2 DEF ScanReturns, Return
  <2> QED BY <2>1, <2>2
<1>3. Accepting /\ pgError = "none"
  BY <1>1 DEF Failure, Refused, Reads, Accepting, Refusing
<1>4. PICK id, n, e : id = Id /\ n = Seen /\ e = pgError
  OBVIOUS
<1>5. reqs = <<>> /\ WireClean' /\ ComesNext(made, "execute", id, n, e, Head(inbox))
  BY <1>1, <1>3, <1>4, TakeReads
<1>6. Seen = made
  BY <1>1, <1>3, <1>4, <1>5 DEF ComesNext, Tabular, Opening
<1>7. sent' = Entries(Id, made) /\ Id \in Ids /\ made \in Nat
  BY <1>1, <1>3, <1>6, SeenFacts DEF Accepting
<1>8. sent' \in Seq(Cells) /\ Len(sent') = made
  BY <1>7, EntriesFacts
<1>9. Id' = Id /\ path' \in ScanPaths
  BY <1>1 DEF Id, Reads
<1>10. Len(sent') <= made'
  BY <1>1, <1>7, <1>8
<1>11. sent' = Entries(Id', Len(sent')) /\ Len(sent') = made'
  BY <1>1, <1>7, <1>8, <1>9
<1> QED BY <1>1, <1>2, <1>5, <1>8, <1>9, <1>10, <1>11 DEF Over


-----------------------------------------------------------------------------
(* The environment, and the end of a scan *)

(* The backend, the network and the watcher, while the rows are read.      *)
LEMMA EnvironmentReads ==
    ASSUME Basic, Reads, Environment,
           UNCHANGED <<pc, call, path, result, sends, pgError, out, sent, rowCount, slots, cbErr>>
    PROVE  Reads'
<1>1. Id' = Id /\ Seen' = Seen /\ Refused' = Refused
  BY DEF Id, Seen, Refused
<1>2. SessionTypes /\ SessionTypes' /\ (reqs = <<>> => reqs' = <<>> /\ made' = made)
  BY EnvironmentTypes DEF Basic
<1>3. PICK k, id, n, e : k \in AskedKinds /\ k = "execute" /\ id = Id /\ n = Seen /\ e = pgError
  BY DEF AskedKinds
<1>4. CASE Accepting
  <2>1. Slice'
    BY <1>4 DEF Accepting, Slice
  <2>2. (sent \o Taken(slots, rowCount) = Entries(Id, Seen))'
    BY <1>1, <1>4 DEF Accepting
  <2>3. \/ Waiting("execute", Id, Seen, pgError)'
        \/ Answered("execute", Id, Seen, pgError, FALSE)' /\ Seen' <= made'
    <3>1. CASE Waiting(k, id, n, e)
      <4>1. Waiting(k, id, n, e)' \/ Answered(k, id, n, e, FALSE)'
        BY <1>2, <1>3, <3>1, EnvironmentWaiting
      <4>2. n = 0 /\ made' \in Nat
        BY <1>2, <3>1 DEF Waiting, SessionTypes
      <4>3. Seen' <= made'
        BY <1>1, <1>3, <4>2
      <4> QED BY <1>1, <1>3, <4>1, <4>3 DEF Waiting, Answered
    <3>2. CASE Answered(k, id, n, e, FALSE) /\ Seen <= made
      <4>1. PICK skims \in BOOLEAN : skims = FALSE
        OBVIOUS
      <4>2. Answered(k, id, n, e, skims)'
        BY <1>2, <1>3, <3>2, <4>1, EnvironmentAnswered
      <4>3. Answered("execute", Id, Seen, pgError, FALSE)'
        BY <1>1, <1>3, <4>1, <4>2 DEF Answered
      <4>4. made' = made
        BY <1>2, <3>2 DEF Answered
      <4> QED BY <1>1, <3>2, <4>3, <4>4
    <3> QED BY <1>3, <1>4, <3>1, <3>2 DEF Accepting
  <2>4. Accepting'
    BY <1>1, <1>4, <2>1, <2>2, <2>3 DEF Accepting
  <2> QED BY <2>4 DEF Reads
<1>5. CASE Refusing
  <2>1. PICK skims \in BOOLEAN : skims = TRUE
    OBVIOUS
  <2>2. Answered(k, id, n, e, skims) /\ reqs = <<>>
    BY <1>3, <1>5, <2>1 DEF Refusing, Answered
  <2>3. Answered(k, id, n, e, skims)'
    BY <1>2, <1>3, <2>2, EnvironmentAnswered
  <2>4. Answered("execute", Id, Seen, pgError, TRUE)'
    BY <1>1, <1>3, <2>1, <2>3 DEF Answered
  <2>5. made' = made
    BY <1>2, <2>2
  <2>6. Refusing'
    BY <1>1, <1>5, <2>4, <2>5 DEF Refusing
  <2> QED BY <2>6 DEF Reads
<1> QED BY <1>4, <1>5 DEF Reads

(* The same when the scan is over.                                         *)
LEMMA EnvironmentOver ==
    ASSUME Basic, Over, Environment, UNCHANGED <<pc, call, path, result, sends, sent>>
    PROVE  Over'
<1>1. /\ SessionTypes' /\ (WireClean => WireClean')
      /\ reqs = <<>> => reqs' = <<>> /\ made' = made
  BY EnvironmentTypes DEF Basic
<1>2. Id' = Id
  BY DEF Id
<1>3. CASE reqs = <<>>
  BY <1>1, <1>2, <1>3 DEF Over
<1>4. CASE reqs # <<>>
  <2>1. sent = <<>> /\ result # "ok" /\ made' \in Nat
    BY <1>1, <1>4 DEF Over, WireClean, SessionTypes
  <2>2. Len(sent') = 0 /\ 0 <= made'
    BY <2>1, NoRows
  <2> QED BY <1>1, <1>2, <2>1, <2>2 DEF Over
<1> QED BY <1>3, <1>4

(* A scan that is over only has its watcher to wait for.                   *)
LEMMA DetachOver ==
    ASSUME Over, Client
    PROVE  Over'
<1>1. pc \in {"detach", "idle"}
  BY DEF Over
<1>2. Detach
  BY <1>1, OnlyDetach
<1>3. pc' = "idle" /\ UNCHANGED <<reqs, reply, made, inbox, path, result, call, sends, sent>>
  BY <1>2 DEF Detach, serverVars, callVars, outVars
<1> QED BY <1>3 DEF Over, WireClean, Id

(* Nothing happens.                                                        *)
LEMMA IdleStep ==
    ASSUME Reads \/ Over, UNCHANGED allVars
    PROVE  Reads' \/ Over'
<1>1. UNCHANGED <<reqs, reply, made, inbox, pc, call, path, result, sends, pgError, out, sent,
                  rowCount, slots, cbErr>>
  BY DEF allVars, vars, scanVars, sessionVars, serverVars, callVars, outVars
<1>2. Id' = Id /\ Seen' = Seen /\ Refused' = Refused /\ Unread' = Unread
  BY <1>1 DEF Id, Seen, Refused, Unread
<1>3. CASE Over
  BY <1>1, <1>2, <1>3 DEF Over, WireClean
<1>4. CASE Reads /\ Accepting
  <2>1. Slice'
    BY <1>1, <1>4 DEF Accepting, Slice
  <2>2. (sent \o Taken(slots, rowCount) = Entries(Id, Seen))'
    BY <1>1, <1>2, <1>4 DEF Accepting
  <2>3. /\ Waiting("execute", Id, Seen, pgError) => Waiting("execute", Id, Seen, pgError)'
        /\ Answered("execute", Id, Seen, pgError, FALSE)
             => Answered("execute", Id, Seen, pgError, FALSE)'
    BY <1>1, <1>2 DEF Waiting, Answered
  <2>4. Accepting'
    BY <1>1, <1>2, <1>4, <2>1, <2>2, <2>3 DEF Accepting
  <2> QED BY <1>1, <1>4, <2>4 DEF Reads
<1>5. CASE Reads /\ Refusing
  <2>1. Refusing'
    BY <1>1, <1>2, <1>5 DEF Refusing, Answered
  <2> QED BY <1>1, <1>5, <2>1 DEF Reads
<1> QED BY <1>3, <1>4, <1>5 DEF Reads


-----------------------------------------------------------------------------
(* The invariant *)

(* Every step keeps it.                                                    *)
LEMMA ScanInvNext ==
    ASSUME ScanInv, [ScanNext]_allVars, StaleStmt \notin CallbackErrors
    PROVE  ScanInv'
<1> DEFINE Kept == Prelude' \/ Reads' \/ Over'
<1>1. Basic /\ Basic'
  BY BasicNext DEF ScanInv
<1>2. CASE ScanBegin \/ Refuse
  BY <1>1, <1>2, BeginPrelude DEF ScanInv
<1>3. ASSUME clean, Prelude, [ScanNext]_allVars, ~(ScanBegin \/ Refuse) PROVE Kept
  <2>1. pc # "scan"
    BY <1>3 DEF Prelude, QueryInv, QueryTypes, Reading
  <2>2. ~ReaderSteps
    BY <2>1, ReaderFrame
  <2>3. CASE PlanFails
    BY <1>1, <1>3, <2>3, PlanFailsPrelude
  <2>4. CASE StartScan
    BY <1>1, <1>3, <2>4, StartReads
  <2>5. CASE Client \/ (Environment /\ UNCHANGED queryVars) \/ UNCHANGED vars
    BY <1>1, <1>3, <2>5, EnginePrelude
  <2> QED BY <1>3, <2>2, <2>3, <2>4, <2>5 DEF ScanNext, ReaderSteps, Stopped, allVars
<1>4. ASSUME Reads, [ScanNext]_allVars, ~(ScanBegin \/ Refuse) PROVE Kept
  <2>1. pc = "scan" /\ path \in ScanPaths
    BY <1>4 DEF Reads
  <2>2. ~(PlanFails \/ StartScan \/ Client)
    BY <1>1, <2>1, ClientOfScan DEF PlanFails, StartScan, Execute, Basic
  <2>3. CASE ReaderSteps
    <3>1. CASE ScanSkips \/ ScanError
      BY <1>1, <1>4, <3>1, SkipsReads
    <3>2. CASE ScanFails
      BY <1>1, <1>4, <3>2, FailsReads
    <3>3. CASE ScanRow \/ BatchRow
      BY <1>1, <1>4, <3>3, RowReads
    <3>4. CASE BatchFull
      BY <1>1, <1>4, <3>4, FullReads
    <3>5. CASE BatchRefused
      BY <1>1, <1>4, <3>5, RefusedReads
    <3>6. CASE ScanReadyError
      BY <1>1, <1>4, <3>6, ErrorReads
    <3>7. CASE ScanReadyOK \/ LastRefused
      BY <1>1, <1>4, <3>7, DoneReads
    <3> QED BY <2>3, <3>1, <3>2, <3>3, <3>4, <3>5, <3>6, <3>7 DEF ReaderSteps
  <2>4. CASE (Environment /\ UNCHANGED queryVars) /\ UNCHANGED scanVars
    <3>1. UNCHANGED <<pc, call, path, result, sends, pgError, out, sent, rowCount, slots, cbErr>>
      BY <2>4 DEF queryVars, callVars, outVars, scanVars
    <3> QED BY <1>1, <1>4, <2>4, <3>1, EnvironmentReads
  <2>5. CASE UNCHANGED allVars
    BY <1>4, <2>5, IdleStep
  <2> QED BY <1>4, <2>2, <2>3, <2>4, <2>5 DEF ScanNext, ReaderSteps, Stopped, allVars
<1>5. ASSUME Over, [ScanNext]_allVars, ~(ScanBegin \/ Refuse) PROVE Kept
  <2>1. pc \in {"detach", "idle"}
    BY <1>5 DEF Over
  <2>2. ~(PlanFails \/ StartScan \/ ReaderSteps)
    BY <2>1, ReaderFrame DEF PlanFails, StartScan, Execute
  <2>3. CASE Client
    BY <1>5, <2>3, DetachOver
  <2>4. CASE Environment /\ UNCHANGED queryVars
    <3>1. UNCHANGED <<pc, call, path, result, sends, sent>>
      BY <2>4 DEF queryVars, callVars, outVars
    <3> QED BY <1>1, <1>5, <2>4, <3>1, EnvironmentOver
  <2>5. CASE UNCHANGED allVars
    BY <1>5, <2>5, IdleStep
  <2> QED BY <1>5, <2>2, <2>3, <2>4, <2>5 DEF ScanNext, ReaderSteps, Stopped, allVars
<1>6. ASSUME ~(ScanBegin \/ Refuse) PROVE clean' = clean
  <2>1. CASE PlanFails \/ StartScan
    BY <2>1 DEF PlanFails, StartScan, Execute, Send
  <2>2. CASE ReaderSteps
    BY <2>2, ReaderFrame
  <2>3. CASE Client
    BY <1>1, <2>3, ClientTypes DEF Basic
  <2>4. CASE UNCHANGED queryVars \/ UNCHANGED vars
    BY <2>4 DEF queryVars, vars
  <2> QED BY <1>6, <2>1, <2>2, <2>3, <2>4 DEF ScanNext, ReaderSteps, Stopped, allVars
<1>7. CASE ~(ScanBegin \/ Refuse) /\ clean
  BY <1>1, <1>3, <1>4, <1>5, <1>7 DEF ScanInv
<1>8. CASE ~(ScanBegin \/ Refuse) /\ ~clean
  BY <1>1, <1>6, <1>8 DEF ScanInv
<1> QED BY <1>2, <1>7, <1>8

(* The invariant holds in every state of every behaviour.                  *)
LEMMA ScanInvariant ==
    ASSUME StaleStmt \notin CallbackErrors
    PROVE  ScanSpec => []ScanInv
<1>1. ScanInit => ScanInv
  BY BasicInit DEF ScanInv
<1>2. ScanInv /\ [ScanNext]_allVars => ScanInv'
  BY ScanInvNext
<1> QED BY <1>1, <1>2, PTL DEF ScanSpec

-----------------------------------------------------------------------------
(* Theorems *)

(* What the caller was given, and what the slice holds for it, are the     *)
(* first rows of the last execution.                                       *)
LEMMA GivenFacts ==
    ASSUME ScanInv, Scanning
    PROVE  Id \in Ids /\ made \in Nat /\ \E k \in 0..made : Given = Entries(Id, k)
<1>1. Id \in Ids /\ made \in Nat
  BY DEF ScanInv, Basic, Id, Ids, SessionTypes
<1>2. CASE Prelude
  <2>1. Given = <<>>
    BY <1>2 DEF Scanning, Prelude, QueryInv, QueryTypes, Reading, Given
  <2>2. Given = Entries(Id, 0) /\ 0 \in 0..made
    BY <1>1, <2>1, NoRows
  <2> QED BY <1>1, <2>2
<1>3. CASE Reads
  <2>1. Basic
    BY DEF ScanInv
  <2>2. Seen \in Nat /\ Len(sent) \in Nat
    BY <1>3, <2>1, SeenFacts
  <2>3. CASE Accepting
    <3>1. Given = Entries(Id, Seen)
      BY <1>3, <2>3 DEF Reads, Accepting, Given
    <3>2. Seen = 0 \/ Seen <= made
      BY <2>3 DEF Accepting, Waiting
    <3>3. Seen \in 0..made
      BY <1>1, <2>2, <3>2
    <3> QED BY <1>1, <3>1, <3>3
  <2>4. CASE Refusing
    <3>1. Given = Entries(Id, Len(sent)) /\ Len(sent) <= made
      BY <2>4 DEF Refusing, Given
    <3>2. Len(sent) \in 0..made
      BY <1>1, <2>2, <3>1
    <3> QED BY <1>1, <3>1, <3>2
  <2> QED BY <1>3, <2>3, <2>4 DEF Reads
<1>4. CASE Over
  <2>1. Given = Entries(Id, Len(sent)) /\ Len(sent) <= made /\ Len(sent) \in Nat
    BY <1>4 DEF Over, Given
  <2>2. Len(sent) \in 0..made
    BY <1>1, <2>1
  <2> QED BY <1>1, <2>1, <2>2
<1> QED BY <1>2, <1>3, <1>4 DEF ScanInv, Scanning

(* ScanInOrder: through growth of the slice, reuse of the batch and a      *)
(* re-prepare, the caller of ScanStruct or the callback of                 *)
(* ScanStructBatched gets the rows of one execution, each once, in order;  *)
(* provided the callback itself does not return SQLSTATE 26000, which the  *)
(* reader would take for a statement the backend forgot.                   *)
THEOREM ScanOrderTheorem ==
    ASSUME StaleStmt \notin CallbackErrors
    PROVE  ScanSpec => []ScanInOrder
<1>1. ASSUME ScanInv, Scanning PROVE IsPrefix(Keys(Given), Keys(Structs(made)))
  <2>1. PICK k \in 0..made : Given = Entries(Id, k)
    BY <1>1, GivenFacts
  <2>2. Id \in Ids /\ made \in Nat /\ k \in Nat /\ k <= made
    BY <1>1, <2>1, GivenFacts
  <2>3. Structs(made) = Entries(Id, made)
    BY DEF Structs, Entries, Entry, Id
  <2>4. ASSUME NEW n \in Nat
        PROVE  /\ Keys(Entries(Id, n)) \in Seq(Ids \X Nat) /\ Len(Keys(Entries(Id, n))) = n
               /\ \A i \in 1..n : Keys(Entries(Id, n))[i] = <<Id, i>>
    <3> DEFINE r == Keys(Entries(Id, n))
    <3>1. Entries(Id, n) \in Seq(Cells) /\ Len(Entries(Id, n)) = n
          /\ \A i \in 1..n : Entries(Id, n)[i] = Entry(Id, i)
      BY <2>2, EntriesFacts
    <3>2. DOMAIN Entries(Id, n) = 1..n
      BY <3>1
    <3>3. \A i \in 1..n : Entry(Id, i).row = <<Id, i>> /\ <<Id, i>> \in Ids \X Nat
      BY <2>2, CellFacts
    <3>4. r \in [1..n -> Ids \X Nat] /\ \A i \in 1..n : r[i] = <<Id, i>>
      BY <3>1, <3>2, <3>3 DEF Keys
    <3>5. r \in Seq(Ids \X Nat)
      BY <3>4, SeqDef
    <3>6. DOMAIN r = 1..n /\ DOMAIN r = 1..Len(r) /\ Len(r) \in Nat
      BY <3>4, <3>5
    <3>7. Len(r) = n
      BY <3>6
    <3> QED BY <3>4, <3>5, <3>7
  <2> DEFINE s == Keys(Entries(Id, k))
             t == Keys(Entries(Id, made))
  <2>5. /\ s \in Seq(Ids \X Nat) /\ Len(s) = k /\ \A i \in 1..k : s[i] = <<Id, i>>
        /\ t \in Seq(Ids \X Nat) /\ Len(t) = made /\ \A i \in 1..made : t[i] = <<Id, i>>
    BY <2>2, <2>4
  <2> HIDE DEF s, t
  <2>6. Len(s) <= Len(t) /\ \A i \in 1..Len(s) : s[i] = t[i]
    <3>1. \A i \in 1..k : i \in 1..made
      BY <2>2
    <3> QED BY <2>2, <2>5, <3>1
  <2>7. IsPrefix(s, t)
    BY <2>5, <2>6, PrefixIndex
  <2> QED BY <2>1, <2>3, <2>7 DEF s, t
<1>2. ScanInv => ScanInOrder
  BY <1>1 DEF ScanInOrder
<1> QED BY <1>2, ScanInvariant, PTL

(* NullIsZero: a NULL leaves a non-pointer field zero, although the slots  *)
(* of a batch are used again and the setter does not touch them.           *)
THEOREM NullTheorem ==
    ASSUME StaleStmt \notin CallbackErrors
    PROVE  ScanSpec => []NullIsZero
<1>1. ASSUME ScanInv, Scanning, NEW n \in DOMAIN Given, Given[n].row[2] \in NullRows
      PROVE  Given[n].val = 0
  <2>1. PICK k \in 0..made : Given = Entries(Id, k)
    BY <1>1, GivenFacts
  <2>2. Id \in Ids /\ k \in Nat
    BY <1>1, <2>1, GivenFacts
  <2>3. DOMAIN Given = 1..k /\ Given[n] = Entry(Id, n)
    BY <1>1, <2>1 DEF Entries
  <2>4. n \in Nat
    BY <1>1, <2>2, <2>3
  <2>5. Entry(Id, n).row = <<Id, n>> /\ <<Id, n>>[2] = n
    BY <2>2, <2>4, CellFacts
  <2>6. n \in NullRows
    BY <1>1, <2>3, <2>5
  <2> QED BY <2>3, <2>6 DEF Entry
<1>2. ScanInv => NullIsZero
  BY <1>1 DEF NullIsZero
<1> QED BY <1>2, ScanInvariant, PTL

(* ScanIsComplete: a scan that returns nil has given every row.            *)
THEOREM ScanCompleteTheorem ==
    ASSUME StaleStmt \notin CallbackErrors
    PROVE  ScanSpec => []ScanIsComplete
<1>1. ASSUME ScanInv, Scanning, result = "ok" PROVE sent = Structs(made)
  <2>1. Over
    BY <1>1 DEF ScanInv, Scanning, Prelude, Reads
  <2>2. sent = Entries(Id, made)
    BY <1>1, <2>1 DEF Over
  <2> QED BY <2>2 DEF Structs, Entries, Entry, Id
<1>2. ScanInv => ScanIsComplete
  BY <1>1 DEF ScanIsComplete
<1> QED BY <1>2, ScanInvariant, PTL

(* Half a Bind is in writeBuf only between the call that left it there and *)
(* the next Flush, under scans as under queries.                           *)
LEMMA ScanWriteBuf == ScanSpec => []WriteBuf
<1>1. ScanInit => WriteBuf
  BY DEF ScanInit, Init, WriteBuf
<1>2. ASSUME WriteBuf, [ScanNext]_allVars PROVE WriteBuf'
  <2>1. CASE ScanBegin \/ Refuse
    BY <1>2, <2>1 DEF ScanBegin, Begin, Refuse, Usable, WriteBuf
  <2>2. CASE PlanFails
    BY <2>2 DEF PlanFails, Return, WriteBuf
  <2>3. CASE StartScan
    BY <2>3 DEF StartScan, Execute, Send, WriteBuf
  <2>4. CASE ReaderSteps
    <3>1. pc = "scan" /\ UNCHANGED scanFrame
      BY <2>4 DEF ReaderSteps, ScanSkips, ScanFails, ScanError, ScanRow, BatchRow, BatchFull,
                  BatchRefused, ScanReadyError, ScanReadyOK, LastRefused
    <3>2. torn' = torn
      BY <3>1 DEF scanFrame
    <3> QED BY <1>2, <3>1, <3>2 DEF WriteBuf
  <2>5. CASE Client
    BY <1>2, <2>5, ClientWriteBuf
  <2>6. CASE UNCHANGED <<torn, pc, result>>
    BY <1>2, <2>6 DEF WriteBuf
  <2>7. UNCHANGED queryVars \/ UNCHANGED vars => UNCHANGED <<torn, pc, result>>
    BY DEF queryVars, vars
  <2> QED BY <1>2, <2>1, <2>2, <2>3, <2>4, <2>5, <2>6, <2>7
          DEF ScanNext, ReaderSteps, Stopped, allVars
<1> QED BY <1>1, <1>2, PTL DEF ScanSpec

(* ScanLeavesWireClean: every return of a scan but the "broken" ones, the  *)
(* refusal of a batch included, has read the answer to its end, and has    *)
(* left nothing in writeBuf unless an argument was refused.                *)
THEOREM ScanWireTheorem ==
    ASSUME StaleStmt \notin CallbackErrors
    PROVE  ScanSpec => []ScanLeavesWireClean
<1>1. ASSUME ScanInv, Scanning, result \notin {"none", "broken"} PROVE WireClean /\ pc # "send"
  <2>1. CASE Prelude
    BY <1>1, <2>1 DEF Scanning, Prelude, QueryInv, Control, Settled
  <2>2. CASE Over
    BY <1>1, <2>2 DEF Over
  <2>3. ~Reads
    BY <1>1 DEF Reads
  <2> QED BY <1>1, <2>1, <2>2, <2>3 DEF ScanInv, Scanning
<1>2. ScanInv /\ WriteBuf => ScanLeavesWireClean
  BY <1>1 DEF ScanLeavesWireClean, Scanning, WriteBuf
<1> QED BY <1>2, ScanInvariant, ScanWriteBuf, PTL

\* A call whose callback has refused a batch skims the rest of the answer and
\* then returns: it never starts again.
Final ==
    hasRefused /\ path \in ScanPaths =>
        \/ pc = "scan" /\ Refused /\ cbErr # StaleStmt
        \/ pc \in {"detach", "idle"}

(* Every step keeps it, if no callback returns an error that looks like a  *)
(* forgotten statement.                                                    *)
LEMMA FinalNext ==
    ASSUME Basic, Final, [ScanNext]_allVars, StaleStmt \notin CallbackErrors
    PROVE  Final'
<1>1. CASE ScanBegin \/ (Refuse /\ UNCHANGED scanVars)
  <2>1. CASE ScanBegin
    BY <2>1 DEF ScanBegin, Final
  <2>2. CASE Refuse
    BY <2>2 DEF Refuse, Usable, Final
  <2> QED BY <1>1, <2>1, <2>2
<1>2. CASE PlanFails
  BY <1>2 DEF PlanFails, Return, Final
<1>3. CASE StartScan
  BY <1>3 DEF StartScan, Execute, Send, callVars, Final
<1>4. CASE ReaderSteps
  <2>1. pc = "scan" /\ path' = path
    BY <1>4, ReaderFrame
  <2>2. CASE BatchRefused
    <3>1. pc' = pc /\ cbErr' \in CallbackErrors
      BY <2>2 DEF BatchRefused, StopReading
    <3>2. cbErr' # "none" /\ cbErr' # StaleStmt
      BY <3>1, ScanAssumption DEF ScanAssumption, Codes, StaleStmt, Serialization, Canceled
    <3> QED BY <2>1, <3>1, <3>2 DEF Final, Refused
  <2>3. CASE LastRefused
    <3>1. PICK code \in CallbackErrors : ScanReturns("callback", code)
      BY <2>3 DEF LastRefused
    <3>2. pc' = "detach"
      BY <3>1 DEF ScanReturns, Return
    <3> QED BY <3>2 DEF Final
  <2>4. CASE ScanFails \/ ScanReadyOK
    BY <2>4 DEF ScanFails, ScanReadyOK, Return, Final
  <2>5. CASE ScanSkips \/ ScanError
    BY <2>1, <2>5 DEF ScanSkips, ScanError, scanVars, Final, Refused
  <2>6. CASE ScanRow \/ BatchRow \/ BatchFull
    <3>1. ~Refused
      BY <2>1, <2>6 DEF ScanRow, BatchRow, BatchFull, Basic, Lanes, ScanPaths
    <3>2. pc' = pc /\ hasRefused' = hasRefused
      BY <2>6 DEF ScanRow, BatchRow, BatchFull
    <3> QED BY <2>1, <3>1, <3>2 DEF Final
  <2>7. CASE ScanReadyError
    <3>1. ScanReturns(Failure[1], Failure[2]) /\ hasRefused' = hasRefused
      BY <2>7 DEF ScanReadyError, scanVars
    <3>2. Refused /\ cbErr # StaleStmt => pc' = "detach"
      BY <3>1 DEF ScanReturns, Failure, Return
    <3> QED BY <2>1, <3>1, <3>2 DEF Final
  <2> QED BY <1>4, <2>2, <2>3, <2>4, <2>5, <2>6, <2>7 DEF ReaderSteps
<1>5. CASE Client /\ UNCHANGED scanVars
  <2>1. path' = path /\ hasRefused' = hasRefused
    BY <1>5, ClientTypes DEF Basic, scanVars
  <2>2. ASSUME hasRefused, path \in ScanPaths PROVE pc' \in {"detach", "idle"}
    <3>1. pc \in {"detach", "idle"}
      BY <1>5, <2>2, ClientOfScan DEF Basic, Final
    <3>2. Detach
      BY <1>5, <3>1, OnlyDetach
    <3> QED BY <3>2 DEF Detach
  <2> QED BY <2>1, <2>2 DEF Final
<1>6. CASE UNCHANGED <<pc, path, cbErr, hasRefused>>
  BY <1>6 DEF Final, Refused
<1>7. ASSUME \/ (Environment /\ UNCHANGED queryVars) /\ UNCHANGED scanVars
             \/ Stopped /\ UNCHANGED scanVars
             \/ UNCHANGED allVars
      PROVE  Final'
  <2>1. UNCHANGED <<pc, path, cbErr, hasRefused>>
    BY <1>7 DEF queryVars, vars, callVars, scanVars, Stopped, allVars
  <2> QED BY <1>6, <2>1
<1>8. CASE ScanNext
  <2>1. CASE ScanBegin \/ PlanFails \/ StartScan \/ ReaderSteps
    BY <1>1, <1>2, <1>3, <1>4, <2>1
  <2>2. CASE /\ Client \/ Refuse \/ Stopped \/ (Environment /\ UNCHANGED queryVars)
             /\ UNCHANGED scanVars
    BY <1>1, <1>5, <1>7, <2>2
  <2> QED BY <1>8, <2>1, <2>2 DEF ScanNext, ReaderSteps
<1> QED BY <1>7, <1>8

(* RefusalIsFinal: a callback that has refused a batch is given nothing    *)
(* more by that call, in this attempt or in another, on any wire; provided *)
(* that its error does not look like a forgotten statement.                *)
THEOREM RefusalTheorem ==
    ASSUME StaleStmt \notin CallbackErrors
    PROVE  ScanSpec => RefusalIsFinal
<1>1. ScanInit => Basic /\ Final
  BY BasicInit DEF ScanInit, Final
<1>2. Basic /\ Final /\ [ScanNext]_allVars => Basic' /\ Final'
  BY BasicNext, FinalNext
<1>3. ASSUME Basic, Final, [ScanNext]_allVars, hasRefused, path \in ScanPaths, call' = call
      PROVE  sent' = sent
  <2>1. call' # call + 1
    BY <1>3 DEF Basic
  <2>2. CASE ScanBegin \/ Refuse
    BY <2>1, <2>2 DEF ScanBegin, Begin, Refuse
  <2>3. CASE PlanFails \/ StartScan
    BY <1>3, <2>3 DEF PlanFails, StartScan, Execute, Final
  <2>4. CASE ReaderSteps
    <3>1. pc = "scan" /\ Refused
      BY <1>3, <2>4, ReaderFrame DEF Final
    <3>2. CASE ScanSkips \/ ScanFails \/ ScanError \/ ScanRow \/ ScanReadyError
      BY <3>2 DEF ScanSkips, ScanFails, ScanError, ScanRow, ScanReadyError
    <3>3. ~(BatchRow \/ BatchFull \/ BatchRefused)
      BY <3>1 DEF BatchRow, BatchFull, BatchRefused
    <3>4. ~(ScanReadyOK \/ LastRefused)
      BY <3>1 DEF ScanReadyOK, LastRefused, Failure, Refused
    <3> QED BY <2>4, <3>2, <3>3, <3>4 DEF ReaderSteps
  <2>5. CASE Client
    BY <1>3, <2>5, ClientOfScan DEF Basic
  <2>6. CASE UNCHANGED queryVars \/ UNCHANGED vars
    BY <2>6 DEF queryVars, vars, outVars
  <2> QED BY <1>3, <2>2, <2>3, <2>4, <2>5, <2>6 DEF ScanNext, ReaderSteps, Stopped, allVars
<1>4. Basic /\ Final /\ [ScanNext]_allVars =>
        [hasRefused /\ path \in ScanPaths /\ call' = call => sent' = sent]_allVars
  BY <1>3
<1> QED BY <1>1, <1>2, <1>4, PTL DEF ScanSpec, RefusalIsFinal

=============================================================================
