--------------------------- MODULE StdlibProofs ---------------------------
(***************************************************************************)
(* Proofs about Iterator.tla and Stdlib.tla, for results of any length and *)
(* any number of calls of RawQuery, of the queries of Query.tla and of     *)
(* database/sql on one Client, cancelled and closed at any point.          *)
(*                                                                         *)
(* RawQuery is the query engine's until Bind and Execute are sent, and     *)
(* again when it returns an error (Prelude).  In between it waits for      *)
(* BindComplete or drains to ReadyForQuery (Starting).  Then the rows      *)
(* given are those read, and what is unread is the rest of their answer    *)
(* until the iterator is done or has failed (Giving).                      *)
(***************************************************************************)
EXTENDS Stdlib, QueryProofs

Iterating == {"pump", "drain", "open", "reading", "closing"}

\* An iterator has readers of its own, and is done only when it is between
\* them, without a watcher.
Lanes ==
    /\ pc \in Iterating => path = "iterator"
    /\ path = "iterator" => pc \in {"send", "describe", "bind", "detach", "idle"} \cup Iterating
    /\ done => path = "iterator" /\ pc \in {"open", "detach", "idle"}
    /\ done /\ pc = "open" => watcher = "none"

\* Whatever an earlier call left on the wire.
Basic ==
    /\ SessionTypes /\ Watching /\ Lanes
    /\ call \in Nat /\ sends \in Nat /\ clean \in BOOLEAN

\* RawQuery has not sent its Bind, or returned an error.
Prelude ==
    /\ QueryInv
    /\ path = "iterator" => sent = <<>> /\ out = <<>> /\ result # "ok"
    /\ pc \notin {"detach", "idle"} => err = "none"
    /\ done /\ err # "broken" => WireClean

\* The iterator, once its Bind was sent: no row was given before BindComplete.
Started ==
    /\ path = "iterator" /\ out = <<>>
    /\ rowCount \in Nat /\ sent = Rows(Id, rowCount) /\ pgError \in Codes \cup {"none"}

Starting ==
    /\ Started /\ pc \in {"pump", "drain"} /\ result = "none" /\ err = "none" /\ rowCount = 0
    /\ \/ pc = "pump" /\ Waiting("execute", Id, 0, pgError)
       \/ Answered("execute", Id, 0, pgError, pc = "drain")

\* The rows given are the first of the result, until the answer is read to its
\* end, skimmed by Close, or lost.
Giving ==
    /\ Started /\ rowCount <= made /\ reqs = <<>>
    /\ \/ /\ pc \in {"open", "reading"} /\ ~done /\ err = "none"
          /\ Answered("execute", Id, rowCount, pgError, FALSE)
       \/ /\ pc = "closing" /\ ~done /\ err = "none"
          /\ Answered("execute", Id, rowCount, pgError, TRUE)
       \/ pc \in {"open", "closing"} /\ ~done /\ err = "broken"
       \/ /\ pc \in {"open", "idle"} /\ done
          /\ err # "broken" => WireClean
          /\ pc = "open" /\ err = "none" => rowCount = made

StdlibInv == Basic /\ (clean => Prelude \/ Starting \/ Giving)

-----------------------------------------------------------------------------
(* The steps *)

\* Pump, drain and NextRaw read; NextRaw and Close are called.
ReaderSteps ==
    \/ PumpBound \/ PumpError \/ PumpFails \/ PumpSkips
    \/ DrainSkips \/ DrainStale \/ DrainError \/ DrainFails \/ CloseDrained
    \/ NextRaw \/ NextRow \/ NextSkips \/ NextError \/ NextReady \/ NextFails \/ RowMismatch
    \/ CloseDone \/ CloseEarly

\* A step that neither begins nor refuses a call.
WithinCall ==
    \/ ConnClose \/ StartRawExecute \/ ReaderSteps
    \/ Client /\ UNCHANGED itVars
    \/ Environment /\ UNCHANGED queryVars /\ UNCHANGED itVars
    \/ UNCHANGED allVars

(* What the adapter adds to a step does not concern the iterator.          *)
LEMMA StepKinds ==
    ASSUME [StdlibNext]_stdVars
    PROVE  \/ Begin /\ done' = FALSE /\ err' = "none"
           \/ Refuse /\ UNCHANGED itVars
           \/ WithinCall
<1>1. CASE StdlibBegin \/ StdlibRefuse \/ ConnClose
  BY <1>1 DEF StdlibBegin, IteratorBegin, StdlibRefuse, WithinCall
<1>2. CASE RowsNext \/ RowsClose \/ StdlibStep
  BY <1>2 DEF RowsNext, RowsClose, StdlibStep, IteratorStep, WithinCall, ReaderSteps
<1>3. CASE ClientStep \/ UNCHANGED stdVars
  BY <1>3 DEF ClientStep, WithinCall, stdVars
<1>4. CASE (Stopped \/ (Environment /\ UNCHANGED queryVars)) /\ UNCHANGED <<itVars, sqlVars>>
  BY <1>4 DEF Stopped, WithinCall, allVars
<1> QED BY <1>1, <1>2, <1>3, <1>4 DEF StdlibNext

(* What the readers of an iterator leave alone.                            *)
LEMMA ReaderFrame ==
    ASSUME ReaderSteps
    PROVE  /\ pc \in Iterating
           /\ UNCHANGED <<reqs, reply, made, alive, call, path, sends, out, clean>>
           /\ inbox' \in {inbox, LostOnError} \/ (inbox # <<>> /\ inbox' = Tail(inbox))
<1>1. pc \in Iterating
  BY DEF ReaderSteps, PumpBound, PumpError, PumpFails, PumpSkips, DrainSkips, DrainStale, DrainError,
         DrainFails, CloseDrained, NextRaw, NextRow, NextSkips, NextError, NextReady, NextFails,
         RowMismatch, CloseDone, CloseEarly, Iterating, Draining
<1>2. UNCHANGED itFrame
  BY DEF ReaderSteps, PumpBound, PumpError, PumpFails, PumpSkips, DrainSkips, DrainStale, DrainError,
         DrainFails, CloseDrained, NextRaw, NextRow, NextSkips, NextError, NextReady, NextFails,
         RowMismatch, CloseDone, CloseEarly
<1>3. inbox' \in {inbox, LostOnError} \/ (inbox # <<>> /\ inbox' = Tail(inbox))
  BY DEF ReaderSteps, PumpBound, PumpError, PumpFails, PumpSkips, DrainSkips, DrainStale, DrainError,
         DrainFails, CloseDrained, NextRaw, NextRow, NextSkips, NextError, NextReady, NextFails,
         RowMismatch, CloseDone, CloseEarly, Read
<1> QED BY <1>1, <1>2, <1>3 DEF itFrame, callVars

(* The query engine does not get into the readers of an iterator.          *)
LEMMA ClientControl ==
    ASSUME Client
    PROVE  pc' \in {pc, "send", "bind", "backoff", "detach", "idle"} \cup Reading
<1>1. CASE SendPrepare \/ SendExecute \/ SendSimple \/ SendPing \/ SendFails \/ BadArgument
  BY <1>1 DEF SendPrepare, SendExecute, Execute, SendSimple, SendPing, Send, SendFails, BadArgument,
              Return, Reading
<1>2. CASE Skip \/ ReadFails \/ Unexpected \/ ReadDescription \/ BadDescription \/ ReadError
  BY <1>2 DEF Skip, ReadFails, Unexpected, ReadDescription, BadDescription, ReadError, RememberError,
              Return
<1>3. CASE PingError \/ PingOK \/ DescribeOK \/ DescribeFails \/ ReadRow \/ RowFails
  BY <1>3 DEF PingError, PingOK, DescribeOK, DescribeFails, ReadRow, RowFails, Fail, Return, Reading
<1>4. CASE FinishOK \/ FinishFails \/ FinishStale \/ FinishError
  BY <1>4 DEF FinishOK, FinishFails, FinishStale, FinishError, Fail, Return
<1>5. CASE AbortDone \/ Retry \/ BackoffExpires \/ Detach
  BY <1>5 DEF AbortDone, Retry, BackoffExpires, Detach, Return
<1> QED BY <1>1, <1>2, <1>3, <1>4, <1>5 DEF Client

-----------------------------------------------------------------------------
(* What holds on any wire *)

(* The readers keep to their lanes, and release the ctx when they are done.*)
LEMMA ReaderLanes ==
    ASSUME Watching, Lanes, ReaderSteps
    PROVE  Watching' /\ Lanes'
<1>1. pc \in Iterating /\ path = "iterator" /\ path' = path
  BY ReaderFrame DEF Lanes
<1>2. CASE \/ PumpBound \/ PumpError \/ PumpSkips \/ DrainSkips \/ NextRaw \/ NextRow \/ RowMismatch
           \/ NextSkips \/ NextError \/ NextFails \/ CloseEarly \/ PumpFails
  <2>1. UNCHANGED <<watcher, past, done>> /\ pc' \in (Iterating \ {"idle"}) \cup {"detach"}
    BY <1>1, <1>2 DEF PumpBound, PumpError, PumpSkips, DrainSkips, NextRaw, NextRow, RowMismatch,
         NextSkips, NextError, NextFails, CloseEarly, PumpFails, Return, Iterating, ctxVars, Draining
  <2>2. ~done
    BY <1>2 DEF Lanes, PumpBound, PumpError, PumpSkips, DrainSkips, NextRaw, NextRow, RowMismatch,
         NextSkips, NextError, NextFails, CloseEarly, PumpFails, Draining
  <2> QED BY <1>1, <2>1, <2>2 DEF Watching, Lanes, Iterating
<1>3. CASE DrainStale \/ DrainError \/ DrainFails \/ CloseDrained \/ NextReady
  <2>1. watcher' = "none" /\ past' = (IF watcher = "none" THEN past ELSE FALSE)
    BY <1>3 DEF DrainStale, DrainError, DrainFails, CloseDrained, NextReady, DetachContext
  <2>2. ~done
    BY <1>3 DEF Lanes, DrainStale, DrainError, DrainFails, CloseDrained, NextReady, Draining
  <2>3. \/ pc' \in {"send", "detach", "idle", "open"} /\ done' = done
        \/ pc' \in {"detach", "idle", "open"} /\ done' = TRUE
    BY <1>3 DEF DrainStale, DrainError, DrainFails, CloseDrained, NextReady, Return
  <2> QED BY <1>1, <2>1, <2>2, <2>3 DEF Watching, Lanes, Iterating
<1>4. CASE CloseDone
  <2>1. pc = "open" /\ done /\ pc' = "idle" /\ UNCHANGED <<watcher, past, done>>
    BY <1>4 DEF CloseDone, ctxVars
  <2> QED BY <1>1, <2>1 DEF Watching, Lanes, Iterating
<1> QED BY <1>2, <1>3, <1>4 DEF ReaderSteps

(* Every step keeps what holds on any wire.                                *)
LEMMA BasicNext ==
    ASSUME Basic, [StdlibNext]_stdVars
    PROVE  Basic'
<1>1. CASE (Begin /\ done' = FALSE) \/ (Refuse /\ UNCHANGED itVars)
  <2>1. QueryInv'
    BY <1>1, BeginStep DEF Basic
  <2>2. Lanes'
    <3>1. CASE Begin /\ done' = FALSE
      BY <3>1 DEF Begin, Lanes, Iterating
    <3>2. CASE Refuse /\ UNCHANGED itVars
      BY <3>2 DEF Refuse, Usable, Lanes, Iterating, itVars, Basic
    <3> QED BY <1>1, <3>1, <3>2
  <2> QED BY <2>1, <2>2 DEF Basic, QueryInv, QueryTypes
<1>2. CASE ConnClose
  <2>1. /\ reqs' = <<>> /\ reply' = <<>> /\ inbox' = <<>> /\ alive' = FALSE
        /\ UNCHANGED <<made, watcher, past, pc, call, path, sends, clean, done>>
    BY <1>2 DEF ConnClose, ctxVars, queryVars, callVars, itVars
  <2>2. SessionTypes'
    <3>1. <<>> \in Seq(Requests) /\ <<>> \in Seq(Messages)
      OBVIOUS
    <3> QED BY <2>1, <3>1 DEF Basic, SessionTypes
  <2> QED BY <2>1, <2>2 DEF Basic, Watching, Lanes
<1>3. CASE StartRawExecute
  <2>1. /\ Send("execute", "pump") /\ "execute" \in AskedKinds /\ pc' = "pump"
        /\ path = "iterator" /\ pc \in {"send", "bind"}
        /\ UNCHANGED <<watcher, past, call, path, clean, done>>
    BY <1>3 DEF StartRawExecute, Execute, Send, AskedKinds, ctxVars, callVars, itVars
  <2>2. SessionTypes' /\ sends' = sends + 1
    BY <2>1, SendTypes DEF Basic
  <2>3. sends' \in Nat
    BY <2>2 DEF Basic
  <2>4. ~done
    BY <2>1 DEF Basic, Lanes
  <2> QED BY <2>1, <2>2, <2>3, <2>4 DEF Basic, Watching, Lanes, Iterating
<1>4. CASE ReaderSteps
  <2>1. /\ UNCHANGED <<reqs, reply, made, alive, call, path, sends, clean>>
        /\ inbox' \in {inbox, LostOnError} \/ (inbox # <<>> /\ inbox' = Tail(inbox))
    BY <1>4, ReaderFrame
  <2>2. SessionTypes'
    BY <2>1, ReadTypes DEF Basic
  <2>3. Watching' /\ Lanes'
    BY <1>4, ReaderLanes DEF Basic
  <2> QED BY <2>1, <2>2, <2>3 DEF Basic
<1>5. CASE Client /\ UNCHANGED itVars
  <2>1. /\ SessionTypes' /\ Watching' /\ call' = call /\ path' = path /\ clean' = clean
        /\ sends' \in {sends, sends + 1}
    BY <1>5, ClientTypes DEF Basic
  <2>2. Lanes'
    <3>1. CASE path # "iterator"
      <4>1. pc' \notin Iterating /\ ~done
        BY <1>5, <3>1, ClientControl DEF Basic, Lanes, Iterating, Reading
      <4> QED BY <1>5, <2>1, <3>1, <4>1 DEF Lanes, itVars
    <3>2. CASE path = "iterator"
      <4>1. /\ path \notin {"cached", "simple", "ping"}
            /\ pc \notin {"execute", "text", "ping", "abort", "backoff"}
        BY <3>2 DEF Basic, Lanes, Iterating
      <4>2. pc \in {"send", "describe", "bind", "detach"}
            /\ pc' \in {"send", "describe", "bind", "detach", "idle"}
        BY <1>5, <4>1, PreparedClient
      <4>3. pc = "detach" => pc' = "idle"
        BY <1>5, OnlyDetach DEF Detach
      <4> QED BY <1>5, <2>1, <3>2, <4>2, <4>3 DEF Basic, Lanes, Iterating, itVars
    <3> QED BY <3>1, <3>2
  <2>3. sends' \in Nat
    BY <2>1 DEF Basic
  <2> QED BY <2>1, <2>2, <2>3 DEF Basic
<1>6. CASE Environment /\ UNCHANGED queryVars /\ UNCHANGED itVars
  <2>1. UNCHANGED <<pc, path, call, sends, clean, done>>
    BY <1>6 DEF queryVars, callVars, itVars
  <2>2. SessionTypes' /\ Watching' /\ (watcher = "none" => watcher' = "none")
    BY <1>6, <2>1, EnvironmentTypes, EnvironmentWatching DEF Basic
  <2> QED BY <2>1, <2>2 DEF Basic, Lanes
<1>7. CASE UNCHANGED allVars
  <2>1. UNCHANGED <<reqs, reply, made, inbox, alive, watcher, past, pc, path, call, sends, clean, done>>
    BY <1>7 DEF allVars, vars, itVars, sessionVars, serverVars, ctxVars, callVars
  <2>2. SessionTypes'
    BY <2>1, ReadTypes DEF Basic
  <2> QED BY <2>1, <2>2 DEF Basic, Watching, Lanes
<1> QED BY <1>1, <1>2, <1>3, <1>4, <1>5, <1>6, <1>7, StepKinds DEF WithinCall

-----------------------------------------------------------------------------
(* RawQuery, until its Bind is sent and when it returns an error *)

(* A call begins, or is refused.                                           *)
LEMMA BeginPrelude ==
    ASSUME Basic, (Begin /\ done' = FALSE /\ err' = "none") \/ Refuse
    PROVE  clean' => Prelude'
<1>1. QueryInv'
  BY BeginStep DEF Basic
<1>2. sent' = <<>> /\ out' = <<>> /\ result' \in {"none", "refused"}
  BY DEF Begin, Refuse
<1>3. CASE Begin /\ done' = FALSE /\ err' = "none"
  BY <1>1, <1>2, <1>3 DEF Prelude
<1>4. CASE Refuse
  <2>1. pc' = "idle" /\ clean' = WireClean /\ UNCHANGED <<reqs, reply, inbox>>
    BY <1>4 DEF Refuse, Usable, serverVars
  <2> QED BY <1>1, <1>2, <2>1 DEF Prelude, WireClean
<1> QED BY <1>3, <1>4

(* The steps of the query engine.                                          *)
LEMMA EnginePrelude ==
    ASSUME Basic, Prelude, UNCHANGED itVars,
           Client \/ (Environment /\ UNCHANGED queryVars) \/ UNCHANGED vars
    PROVE  Prelude'
<1>1. QueryInv'
  <2>1. QueryInv /\ [Next]_vars
    BY DEF Prelude, Next
  <2> QED BY <2>1, QueryNext
<1>2. UNCHANGED <<done, err>>
  BY DEF itVars
<1>3. CASE Client
  <2>1. path' = path
    BY <1>3, ClientTypes DEF Basic
  <2>2. pc \in {"detach", "idle"} => pc' = "idle" /\ UNCHANGED <<reqs, reply, inbox>>
    BY <1>3, OnlyDetach DEF Detach, serverVars
  <2>3. ASSUME path = "iterator"
        PROVE  /\ sent' = sent /\ out' = out
               /\ result' \in {result, "broken", "args", "pg", "noplan"}
               /\ pc \in {"send", "describe", "bind", "detach"}
    <3>1. /\ path \notin {"cached", "simple", "ping"}
          /\ pc \notin {"execute", "text", "ping", "abort", "backoff"}
      BY <2>3 DEF Basic, Lanes, Iterating
    <3> QED BY <1>3, <3>1, PreparedClient
  <2>4. done' /\ err' # "broken" => WireClean'
    <3>1. done => pc = "detach"
      BY <2>3 DEF Basic, Lanes
    <3> QED BY <1>2, <2>2, <3>1 DEF Prelude, WireClean
  <2>5. path' = "iterator" => sent' = <<>> /\ out' = <<>> /\ result' # "ok"
    BY <2>1, <2>3 DEF Prelude
  <2>6. pc' \notin {"detach", "idle"} => err' = "none"
    BY <1>2, <2>2 DEF Prelude
  <2> QED BY <1>1, <2>4, <2>5, <2>6 DEF Prelude
<1>4. CASE (Environment /\ UNCHANGED queryVars) \/ UNCHANGED vars
  <2>1. UNCHANGED <<pc, path, sent, out, result>>
    BY <1>4 DEF queryVars, vars, callVars, outVars
  <2>2. WireClean => WireClean'
    <3>1. CASE Environment
      BY <3>1, EnvironmentTypes DEF Basic
    <3>2. CASE UNCHANGED vars
      BY <3>2 DEF vars, sessionVars, serverVars, WireClean
    <3> QED BY <1>4, <3>1, <3>2
  <2> QED BY <1>1, <1>2, <2>1, <2>2 DEF Prelude
<1> QED BY <1>3, <1>4

(* sql.DB closes the connection between calls.                             *)
LEMMA ClosePrelude ==
    ASSUME Basic', Prelude, clean, ConnClose
    PROVE  Prelude'
<1>1. /\ pc = "idle" /\ reqs' = <<>> /\ reply' = <<>> /\ inbox' = <<>>
      /\ UNCHANGED <<made, pc, path, sent, out, rowCount, result, call, sends, pgError, clean, done,
                     err>>
  BY DEF ConnClose, queryVars, callVars, outVars, itVars
<1>2. WireClean' /\ Id' = Id /\ FullOutput' = FullOutput
  BY <1>1 DEF WireClean, Id, FullOutput
<1>3. SessionTypes' /\ Watching'
  BY DEF Basic
<1>4. QueryTypes' /\ Control'
  BY <1>1 DEF Prelude, QueryInv, QueryTypes, Control
<1>5. Settled' /\ InAnswer'
  BY <1>1, <1>2 DEF Settled, InAnswer, Reading
<1>6. Output'
  BY <1>1, <1>2 DEF Prelude, QueryInv, Output
<1> QED BY <1>1, <1>2, <1>3, <1>4, <1>5, <1>6 DEF Prelude, QueryInv

(* Bind, Execute and Sync are sent.                                        *)
LEMMA StartStarting ==
    ASSUME Basic, Prelude, clean, StartRawExecute
    PROVE  Starting'
<1>1. /\ pc \in {"send", "bind"} /\ path = "iterator" /\ Send("execute", "pump")
      /\ "execute" \in AskedKinds /\ pc' = "pump" /\ pgError' = "none" /\ rowCount' = 0
      /\ UNCHANGED <<reply, made, inbox, call, path, result, out, sent, err>>
  BY DEF StartRawExecute, Execute, Send, AskedKinds, callVars, itVars
<1>2. /\ reqs = <<>> /\ reply = <<>> /\ inbox = <<>> /\ sent = <<>> /\ out = <<>>
      /\ result = "none" /\ err = "none"
  BY <1>1 DEF Prelude, QueryInv, Settled, WireClean, Control
<1>3. /\ reqs' # <<>> /\ reqs' = <<reqs'[1]>> /\ reqs'[1].id = <<call, sends + 1>>
      /\ reqs'[1].kind \in {"execute", "garbage"} /\ sends' = sends + 1
  BY <1>1, <1>2, SendTypes DEF Basic
<1>4. Id' = <<call, sends + 1>> /\ Id' \in Ids
  BY <1>1, <1>3 DEF Id, Ids, Basic
<1>5. sent' = Rows(Id', rowCount')
  <2>1. Rows(Id', 0) = <<>>
    BY <1>4, RowsMore
  <2> QED BY <1>1, <1>2, <2>1
<1>6. Waiting("execute", Id, 0, pgError)'
  BY <1>1, <1>2, <1>3, <1>4 DEF Waiting
<1> QED BY <1>1, <1>2, <1>5, <1>6 DEF Starting, Started

(* RawQuery retries, or returns an error; no row was given.                *)
LEMMA BackToPrelude ==
    ASSUME Basic, Basic', Starting, UNCHANGED <<path, out, sent, rowCount, pgError, sends>>,
           \/ pc' = "send" /\ result' = "none" /\ err' = "none" /\ WireClean'
           \/ pc' = "detach" /\ result' = "pg" /\ ~done' /\ WireClean'
           \/ pc' = "detach" /\ result' = "broken" /\ (done' => err' = "broken")
    PROVE  Prelude'
<1>1. sent = <<>> /\ out = <<>> /\ rowCount = 0 /\ pgError \in Codes \cup {"none"}
  <2>1. Id \in Ids
    BY DEF Basic, Id, Ids
  <2>2. Rows(Id, 0) = <<>>
    BY <2>1, RowsMore
  <2> QED BY <2>2 DEF Starting, Started
<1>2. SessionTypes' /\ QueryTypes'
  BY <1>1, EndsFacts DEF Basic, QueryTypes, Results, Errors
<1>3. Control' /\ InAnswer' /\ Watching'
  BY DEF Control, InAnswer, Basic, Reading
<1>4. Settled'
  BY DEF Settled
<1>5. Output'
  <2>1. <<>> \o <<>> = <<>> /\ IsPrefix(<<>>, FullOutput')
    <3>1. Id' \in Ids /\ made' \in Nat
      BY DEF Basic, SessionTypes, Id, Ids
    <3>2. FullOutput' \in Seq(Messages)
      BY <3>1, RowsFacts, EndsFacts, ConcatProperties DEF FullOutput, Id
    <3> QED BY <3>2, PrefixFacts, EndsFacts
  <2> QED BY <1>1, <2>1 DEF Output
<1>6. done' /\ err' # "broken" => WireClean'
  BY DEF Basic, Lanes
<1> QED BY <1>1, <1>2, <1>3, <1>4, <1>5, <1>6 DEF Prelude, QueryInv

-----------------------------------------------------------------------------
(* startRawExecute *)

(* BindComplete, a RowDescription, or the error of a failed Bind.          *)
LEMMA PumpStarting ==
    ASSUME Basic, Starting, PumpBound \/ PumpSkips \/ PumpError
    PROVE  Starting' \/ Giving'
<1> DEFINE a == Head(inbox)
<1>1. /\ pc = "pump" /\ inbox # <<>> /\ inbox' = Tail(inbox)
      /\ UNCHANGED <<reqs, reply, made, path, result, out, sent, rowCount, call, sends, done, err>>
  BY DEF PumpBound, PumpSkips, PumpError, Read, itFrame, callVars
<1>2. PICK id, e : id = Id /\ e = pgError
  OBVIOUS
<1>3. Id' = id /\ SessionTypes /\ made \in Nat
  BY <1>1, <1>2 DEF Id, Basic, SessionTypes
<1>4. PICK k \in AskedKinds : k = "execute"
  BY DEF AskedKinds
<1>5. PICK n \in Nat, skims \in BOOLEAN : n = 0 /\ skims = FALSE
  OBVIOUS
<1>6. Waiting(k, id, n, e) \/ Answered(k, id, n, e, skims)
  BY <1>1, <1>2, <1>4, <1>5 DEF Starting, Answered
<1>7. LET m == Head(inbox) IN
      /\ m \in Messages /\ reqs = <<>>
      /\ Answered(k, id, n, e, TRUE)'
      /\ ~skims =>
           /\ m.t \notin {"DataRow", "Error"} => Answered(k, id, n, e, FALSE)'
           /\ m.t = "Error" => \A c : c # "none" => Answered(k, id, n, c, FALSE)'
  BY <1>1, <1>3, <1>6, TakeAnswered
<1>8. ~done /\ err = "none" /\ result = "none"
  BY <1>1 DEF Basic, Lanes, Starting
<1>9. CASE PumpBound \/ PumpSkips
  <2>1. /\ a.t \in {"BindComplete", "RowDescription"} /\ pgError' = pgError
        /\ pc' = (IF PumpBound THEN "open" ELSE "pump")
    BY <1>1, <1>9 DEF PumpBound, PumpSkips, Read
  <2>2. Answered("execute", id, 0, e, FALSE)'
    BY <1>4, <1>5, <1>7, <2>1
  <2>3. Started' /\ rowCount' = 0 /\ reqs' = <<>>
    BY <1>1, <1>2, <1>3, <1>7, <2>1 DEF Starting, Started
  <2>4. CASE pc' = "open"
    <3>1. Answered("execute", Id, rowCount, pgError, FALSE)'
      BY <1>2, <1>3, <2>1, <2>2, <2>3 DEF Answered
    <3>2. rowCount' <= made'
      BY <1>1, <1>3, <2>3
    <3> QED BY <1>1, <1>8, <2>3, <2>4, <3>1, <3>2 DEF Giving
  <2>5. CASE pc' = "pump"
    <3>1. Answered("execute", Id, 0, pgError, pc = "drain")'
      BY <1>2, <1>3, <2>1, <2>2, <2>5 DEF Answered
    <3> QED BY <1>1, <1>8, <2>3, <2>5, <3>1 DEF Starting
  <2> QED BY <2>1, <2>4, <2>5
<1>10. CASE PumpError
  <2>1. a.t = "Error" /\ pgError' = a.code /\ pc' = "drain"
    BY <1>10 DEF PumpError, Read
  <2>2. pgError' \in Codes \cup {"none"}
    BY <1>7, <2>1, MessageParts
  <2>3. Answered("execute", Id, 0, pgError, pc = "drain")'
    BY <1>3, <1>4, <1>5, <1>7, <2>1 DEF Answered
  <2>4. Started' /\ rowCount' = 0
    BY <1>1, <1>2, <1>3, <2>2 DEF Starting, Started
  <2> QED BY <1>1, <1>8, <2>1, <2>3, <2>4 DEF Starting
<1> QED BY <1>9, <1>10

(* The reply cannot be understood, or the socket fails.                    *)
LEMMA FailsStarting ==
    ASSUME Basic, Basic', Starting, PumpFails \/ DrainFails
    PROVE  Prelude'
<1>1. /\ pc' = "detach" /\ result' = "broken" /\ (done' => err' = "broken")
      /\ UNCHANGED <<path, out, sent, rowCount, pgError, sends>>
  <2>1. CASE PumpFails
    BY <2>1 DEF PumpFails, Return, itFrame, callVars, Basic, Lanes
  <2>2. CASE DrainFails
    BY <2>2 DEF DrainFails, itFrame, callVars, Starting
  <2> QED BY <2>1, <2>2
<1> QED BY <1>1, BackToPrelude

(* drainUntilReady of startRawExecute.                                     *)
LEMMA DrainStarting ==
    ASSUME Basic, Basic', Starting, DrainSkips \/ DrainStale \/ DrainError
    PROVE  Starting' \/ Prelude'
<1>1. /\ pc = "drain" /\ inbox # <<>> /\ inbox' = Tail(inbox)
      /\ UNCHANGED <<reqs, reply, made, path, out, sent, rowCount, call, sends, done, err>>
  BY DEF DrainSkips, DrainStale, DrainError, Read, itFrame, callVars, Starting, Draining
<1>2. PICK id, e : id = Id /\ e = pgError
  OBVIOUS
<1>3. Id' = id /\ SessionTypes /\ ~done /\ err = "none" /\ result = "none"
  BY <1>1, <1>2 DEF Id, Basic, Lanes, Starting
<1>4. PICK k \in AskedKinds : k = "execute"
  BY DEF AskedKinds
<1>5. PICK n \in Nat, skims \in BOOLEAN : n = 0 /\ skims = TRUE
  OBVIOUS
<1>6. Answered(k, id, n, e, skims)
  BY <1>1, <1>2, <1>4, <1>5 DEF Starting, Answered
<1>7. LET m == Head(inbox) IN
      /\ m \in Messages /\ reqs = <<>> /\ Answered(k, id, n, e, TRUE)'
      /\ m.t = "ReadyForQuery" => WireClean'
  BY <1>1, <1>3, <1>6, TakeAnswered
<1>8. CASE DrainSkips
  <2>1. pc' = "drain" /\ result' = result /\ pgError' \in {pgError, Head(inbox).code}
        /\ (pgError' # pgError => Head(inbox).t = "Error")
    BY <1>1, <1>8 DEF DrainSkips
  <2>2. pgError' \in Codes \cup {"none"}
    BY <1>7, <2>1, MessageParts DEF Starting, Started
  <2>3. Answered("execute", Id, 0, pgError, pc = "drain")'
    BY <1>3, <1>4, <1>5, <1>7, <2>1 DEF Answered
  <2>4. Started' /\ rowCount' = 0
    BY <1>1, <1>2, <1>3, <2>2 DEF Starting, Started
  <2> QED BY <1>1, <1>3, <2>1, <2>3, <2>4 DEF Starting
<1>9. CASE DrainStale \/ DrainError
  <2>1. /\ WireClean' /\ pgError' = pgError
        /\ \/ pc' = "send" /\ result' = result
           \/ pc' = "detach" /\ result' = "pg"
    BY <1>7, <1>9 DEF DrainStale, DrainError, Return, Read
  <2> QED BY <1>1, <1>3, <2>1, BackToPrelude
<1> QED BY <1>8, <1>9

-----------------------------------------------------------------------------
(* NextRaw and Close *)

(* No row is given or lost.                                                *)
LEMMA GivenKept ==
    ASSUME Giving, UNCHANGED <<reqs, made, path, out, sent, rowCount, call, sends>>,
           pgError' \in Codes \cup {"none"}
    PROVE  Started' /\ rowCount' <= made' /\ reqs' = <<>> /\ Id' = Id
<1>1. Id' = Id
  BY DEF Id
<1> QED BY <1>1 DEF Giving, Started

(* NextRaw reads a message.                                                *)
LEMMA TakeGiving ==
    ASSUME Basic, Giving, pc = "reading", inbox # <<>>, inbox' = Tail(inbox),
           UNCHANGED <<reqs, reply, made>>,
           NEW id, id = Id, NEW n, n = rowCount, NEW e, e = pgError
    PROVE  LET a == Head(inbox) IN
           /\ a \in Messages /\ id \in Ids /\ n \in Nat /\ made \in Nat
           /\ a.t = "ReadyForQuery" => WireClean'
           /\ ComesNext(made, "execute", id, n, e, a)
           /\ a.t = "DataRow" => Answered("execute", id, n + 1, e, FALSE)'
           /\ a.t \notin {"DataRow", "Error"} => Answered("execute", id, n, e, FALSE)'
           /\ a.t = "Error" => \A c : c # "none" => Answered("execute", id, n, c, FALSE)'
<1>1. n \in Nat /\ SessionTypes /\ id \in Ids /\ made \in Nat
  BY DEF Giving, Started, Basic, Id, Ids, SessionTypes
<1>2. Answered("execute", id, n, e, FALSE)
  BY DEF Giving
<1>3. PICK k \in AskedKinds : k = "execute"
  BY DEF AskedKinds
<1>4. PICK skims \in BOOLEAN : skims = FALSE
  OBVIOUS
<1>5. LET a == Head(inbox) IN
      /\ a \in Messages
      /\ a.t = "ReadyForQuery" => WireClean'
      /\ ~skims =>
           /\ ComesNext(made, k, id, n, e, a)
           /\ a.t = "DataRow" => Answered(k, id, n + 1, e, FALSE)'
           /\ a.t \notin {"DataRow", "Error"} => Answered(k, id, n, e, FALSE)'
           /\ a.t = "Error" => \A c : c # "none" => Answered(k, id, n, c, FALSE)'
  BY <1>1, <1>2, <1>3, <1>4, TakeAnswered
<1> QED BY <1>1, <1>3, <1>4, <1>5

(* The row read is the next of the result, and one of this query.          *)
LEMMA RowGiving ==
    ASSUME Basic, Giving, NextRow \/ RowMismatch
    PROVE  Giving'
<1> DEFINE a == Head(inbox)
<1>1. /\ pc = "reading" /\ pc' = "open" /\ inbox # <<>> /\ inbox' = Tail(inbox) /\ a.t = "DataRow"
      /\ rowCount' = rowCount + 1
      /\ UNCHANGED <<reqs, reply, made, path, out, call, sends, pgError, done, err>>
  BY DEF NextRow, RowMismatch, Read, itFrame, callVars
<1>2. PICK id, n, e : id = Id /\ n = rowCount /\ e = pgError
  OBVIOUS
<1>3. /\ id \in Ids /\ n \in Nat /\ made \in Nat
      /\ ComesNext(made, "execute", id, n, e, a) /\ Answered("execute", id, n + 1, e, FALSE)'
  BY <1>1, <1>2, TakeGiving
<1>4. a.id = id /\ a.i = n + 1 /\ n < made /\ id[1] = call
  BY <1>1, <1>2, <1>3 DEF ComesNext, Opening, Id
<1>5. sent' = Append(sent, Row(id, n + 1))
  BY <1>4 DEF NextRow, RowMismatch
<1>6. sent = Rows(id, n) /\ ~done /\ err = "none" /\ reqs = <<>>
      /\ path = "iterator" /\ out = <<>> /\ pgError \in Codes \cup {"none"}
  BY <1>1, <1>2 DEF Giving, Started
<1>7. sent' = Rows(id, n + 1)
  <2>1. Rows(id, n) \in Seq(Messages) /\ Row(id, n + 1) \in Messages
    BY <1>3, RowsFacts, MessageFacts
  <2>2. Append(Rows(id, n), Row(id, n + 1)) = Rows(id, n) \o <<Row(id, n + 1)>>
    BY <2>1, AppendIsConcat
  <2>3. Rows(id, n) \o <<Row(id, n + 1)>> = Rows(id, n + 1)
    BY <1>3, RowsMore
  <2> QED BY <1>5, <1>6, <2>2, <2>3
<1>8. Id' = id /\ rowCount' = n + 1 /\ n + 1 \in Nat /\ n + 1 <= made
  BY <1>1, <1>2, <1>3, <1>4 DEF Id
<1>9. Started'
  BY <1>1, <1>6, <1>7, <1>8 DEF Started
<1>10. Answered("execute", Id, rowCount, pgError, FALSE)'
  BY <1>1, <1>2, <1>3, <1>8 DEF Answered
<1> QED BY <1>1, <1>6, <1>8, <1>9, <1>10 DEF Giving

(* A message NextRaw passes over, and the error it remembers.              *)
LEMMA SkipGiving ==
    ASSUME Basic, Giving, NextSkips \/ NextError
    PROVE  Giving'
<1> DEFINE a == Head(inbox)
<1>1. /\ pc = "reading" /\ pc' = pc /\ inbox # <<>> /\ inbox' = Tail(inbox)
      /\ UNCHANGED <<reqs, reply, made, path, out, sent, rowCount, call, sends, done, err>>
      /\ \/ a.t \notin {"DataRow", "Error"} /\ pgError' = pgError
         \/ a.t = "Error" /\ pgError' = a.code
  BY DEF NextSkips, NextSkipped, NextError, Read, itFrame, callVars
<1>2. PICK id, n, e : id = Id /\ n = rowCount /\ e = pgError
  OBVIOUS
<1>3. /\ a \in Messages
      /\ a.t \notin {"DataRow", "Error"} => Answered("execute", id, n, e, FALSE)'
      /\ a.t = "Error" => \A c : c # "none" => Answered("execute", id, n, c, FALSE)'
  BY <1>1, <1>2, TakeGiving
<1> HIDE DEF a
<1>4. pgError' \in Codes \cup {"none"} /\ (a.t = "Error" => a.code # "none")
  BY <1>1, <1>3, MessageParts DEF Giving, Started, Codes, StaleStmt, Serialization, Canceled
<1>5. Started' /\ rowCount' <= made' /\ reqs' = <<>> /\ Id' = id
  BY <1>1, <1>2, <1>4, GivenKept
<1>6. Answered("execute", Id, rowCount, pgError, FALSE)'
  <2>1. PICK c : c = pgError'
    OBVIOUS
  <2>2. Answered("execute", id, n, c, FALSE)'
    BY <1>1, <1>2, <1>3, <1>4, <2>1
  <2> QED BY <1>1, <1>2, <1>5, <2>1, <2>2 DEF Answered
<1>7. ~done /\ err = "none"
  BY <1>1 DEF Giving
<1> QED BY <1>1, <1>5, <1>6, <1>7 DEF Giving

(* ReadyForQuery: all the rows were given, or there is an error.           *)
LEMMA ReadyGiving ==
    ASSUME Basic, Giving, NextReady
    PROVE  Giving'
<1>1. /\ pc = "reading" /\ pc' = "open" /\ inbox # <<>> /\ inbox' = Tail(inbox)
      /\ Head(inbox).t = "ReadyForQuery" /\ done' = TRUE /\ err' = NextOutcome
      /\ UNCHANGED <<reqs, reply, made, path, out, sent, rowCount, call, sends, pgError>>
  BY DEF NextReady, Read, itFrame, callVars
<1>2. PICK id, n, e : id = Id /\ n = rowCount /\ e = pgError
  OBVIOUS
<1>3. WireClean' /\ ComesNext(made, "execute", id, n, e, Head(inbox))
  BY <1>1, <1>2, TakeGiving
<1>4. pgError = "none" => rowCount = made
  BY <1>1, <1>2, <1>3 DEF ComesNext, Tabular, Opening
<1>5. err' = "none" => rowCount' = made'
  BY <1>1, <1>4 DEF NextOutcome
<1>6. pgError' \in Codes \cup {"none"}
  BY <1>1 DEF Giving, Started
<1>7. Started' /\ rowCount' <= made' /\ reqs' = <<>>
  BY <1>1, <1>6, GivenKept
<1> QED BY <1>1, <1>3, <1>5, <1>7 DEF Giving

(* NextRaw is called or fails, Close is called or over.                    *)
LEMMA CallGiving ==
    ASSUME Giving, NextRaw \/ NextFails \/ CloseEarly \/ CloseDone
    PROVE  Giving'
<1>1. UNCHANGED <<reqs, reply, made, path, out, sent, rowCount, call, sends, pgError, done>>
  BY DEF NextRaw, NextFails, CloseEarly, CloseDone, itFrame, callVars
<1>2. pgError' \in Codes \cup {"none"}
  BY <1>1 DEF Giving, Started
<1>3. Started' /\ rowCount' <= made' /\ reqs' = <<>> /\ Id' = Id
  BY <1>1, <1>2, GivenKept
<1>4. CASE NextRaw
  <2>1. pc = "open" /\ pc' = "reading" /\ ~done /\ err = "none" /\ UNCHANGED <<inbox, err>>
    BY <1>4 DEF NextRaw
  <2>2. Answered("execute", Id, rowCount, pgError, FALSE)'
    BY <1>1, <1>3, <2>1 DEF Giving, Answered, Unread
  <2> QED BY <1>1, <1>3, <2>1, <2>2 DEF Giving
<1>5. CASE NextFails
  <2>1. pc = "reading" /\ pc' = "open" /\ err' = "broken"
    BY <1>5 DEF NextFails
  <2>2. ~done
    BY <2>1 DEF Giving
  <2> QED BY <1>1, <1>3, <2>1, <2>2 DEF Giving
<1>6. CASE CloseEarly
  <2>1. pc = "open" /\ pc' = "closing" /\ ~done /\ UNCHANGED <<inbox, err>>
    BY <1>6 DEF CloseEarly
  <2>2. CASE err = "none"
    <3>1. Answered("execute", Id, rowCount, pgError, TRUE)'
      BY <1>1, <1>3, <2>1, <2>2 DEF Giving, Answered, Unread
    <3> QED BY <1>1, <1>3, <2>1, <2>2, <3>1 DEF Giving
  <2>3. CASE err = "broken"
    BY <1>1, <1>3, <2>1, <2>3 DEF Giving
  <2> QED BY <2>1, <2>2, <2>3 DEF Giving
<1>7. CASE CloseDone
  <2>1. pc = "open" /\ pc' = "idle" /\ done /\ UNCHANGED <<inbox, err>>
    BY <1>7 DEF CloseDone
  <2>2. err' # "broken" => WireClean'
    BY <1>1, <2>1 DEF Giving, WireClean
  <2> QED BY <1>1, <1>3, <2>1, <2>2 DEF Giving
<1> QED BY <1>4, <1>5, <1>6, <1>7

(* drainUntilReady of Close.                                               *)
LEMMA DrainGiving ==
    ASSUME Basic, Giving, DrainSkips \/ CloseDrained \/ DrainFails
    PROVE  Giving'
<1>1. /\ pc = "closing" /\ ~done
      /\ UNCHANGED <<reqs, reply, made, path, out, sent, rowCount, call, sends>>
  BY DEF Giving, DrainSkips, CloseDrained, DrainFails, itFrame, callVars, Draining
<1>2. pgError' \in Codes \cup {"none"}
  <2>1. CASE DrainSkips
    <3>1. Head(inbox) \in Messages
      BY <2>1, HeadTailProperties DEF DrainSkips, Basic, SessionTypes
    <3> QED BY <2>1, <3>1, MessageParts DEF DrainSkips, Giving, Started
  <2>2. CASE CloseDrained \/ DrainFails
    BY <2>2 DEF CloseDrained, DrainFails, Giving, Started
  <2> QED BY <2>1, <2>2
<1>3. Started' /\ rowCount' <= made' /\ reqs' = <<>> /\ Id' = Id
  BY <1>1, <1>2, GivenKept
<1>4. CASE DrainFails
  BY <1>1, <1>3, <1>4 DEF DrainFails, Giving
<1>5. ASSUME err = "none", inbox # <<>>, inbox' = Tail(inbox)
      PROVE  /\ Answered("execute", Id, rowCount, pgError, TRUE)'
             /\ Head(inbox).t = "ReadyForQuery" => WireClean'
  <2>1. PICK id, n, e : id = Id /\ n = rowCount /\ e = pgError /\ n \in Nat
    BY DEF Giving, Started
  <2>2. Answered("execute", id, n, e, TRUE) /\ "execute" \in AskedKinds /\ SessionTypes
    BY <1>1, <1>5, <2>1 DEF Giving, AskedKinds, Basic
  <2>3. Answered("execute", id, n, e, TRUE)' /\ (Head(inbox).t = "ReadyForQuery" => WireClean')
    BY <1>1, <1>5, <2>1, <2>2, TakeAnswered
  <2> QED BY <1>3, <2>1, <2>3 DEF Answered
<1>6. CASE DrainSkips
  <2>1. pc' = pc /\ UNCHANGED <<done, err>> /\ inbox # <<>> /\ inbox' = Tail(inbox)
    BY <1>6 DEF DrainSkips
  <2> QED BY <1>1, <1>3, <1>5, <2>1 DEF Giving
<1>7. CASE CloseDrained
  <2>1. /\ pc' = "idle" /\ done' = TRUE /\ err' = err /\ inbox # <<>> /\ inbox' = Tail(inbox)
        /\ Head(inbox).t = "ReadyForQuery"
    BY <1>7 DEF CloseDrained, Read
  <2>2. err # "broken" => WireClean'
    BY <1>1, <1>5, <2>1 DEF Giving
  <2> QED BY <1>3, <2>1, <2>2 DEF Giving
<1> QED BY <1>4, <1>6, <1>7

-----------------------------------------------------------------------------
(* Everything else *)

(* The backend, the network and the watcher, while the Bind is answered.   *)
LEMMA EnvironmentStarting ==
    ASSUME Basic, Starting, Environment,
           UNCHANGED <<pc, call, path, result, sends, pgError, out, sent, rowCount, err>>
    PROVE  Starting'
<1>1. PICK k, id, e : k \in AskedKinds /\ k = "execute" /\ id = Id /\ e = pgError
  BY DEF AskedKinds
<1>2. Id' = id /\ SessionTypes
  BY <1>1 DEF Id, Basic
<1>3. Started'
  BY <1>1, <1>2 DEF Starting, Started
<1>4. \/ pc' = "pump" /\ Waiting("execute", Id, 0, pgError)'
      \/ Answered("execute", Id, 0, pgError, pc = "drain")'
  <2>1. CASE pc = "pump" /\ Waiting(k, id, 0, e)
    <3>1. Waiting(k, id, 0, e)' \/ Answered(k, id, 0, e, FALSE)'
      BY <1>1, <1>2, <2>1, EnvironmentWaiting
    <3> QED BY <1>1, <1>2, <2>1, <3>1 DEF Waiting, Answered
  <2>2. CASE Answered(k, id, 0, e, pc = "drain")
    <3>1. PICK skims \in BOOLEAN : skims = (pc = "drain")
      OBVIOUS
    <3>2. Answered(k, id, 0, e, skims)
      BY <2>2, <3>1
    <3>3. Answered(k, id, 0, e, skims)'
      BY <1>1, <1>2, <3>2, EnvironmentAnswered
    <3> QED BY <1>1, <1>2, <3>1, <3>3 DEF Answered
  <2> QED BY <1>1, <2>1, <2>2 DEF Starting
<1> QED BY <1>3, <1>4 DEF Starting

(* The same while rows are given, and afterwards.                          *)
LEMMA EnvironmentGiving ==
    ASSUME Basic, Giving, Environment,
           UNCHANGED <<pc, call, path, sends, pgError, out, sent, rowCount, done, err>>
    PROVE  Giving'
<1>1. SessionTypes /\ (WireClean => WireClean') /\ reqs' = reqs /\ made' = made
  BY EnvironmentTypes DEF Basic, Giving
<1>2. pgError' \in Codes \cup {"none"}
  BY DEF Giving, Started
<1>3. Started' /\ rowCount' <= made' /\ reqs' = <<>> /\ Id' = Id
  BY <1>1, <1>2, GivenKept
<1>4. ASSUME NEW skims \in BOOLEAN, Answered("execute", Id, rowCount, pgError, skims)
      PROVE  Answered("execute", Id, rowCount, pgError, skims)'
  <2>1. PICK k, id, n, e : /\ k \in AskedKinds /\ k = "execute" /\ id = Id
                           /\ n = rowCount /\ e = pgError
    BY DEF AskedKinds
  <2>2. Answered(k, id, n, e, skims)
    BY <1>4, <2>1
  <2>3. Answered(k, id, n, e, skims)'
    BY <1>1, <2>1, <2>2, EnvironmentAnswered
  <2> QED BY <1>3, <2>1, <2>3 DEF Answered
<1>5. CASE pc \in {"open", "reading"} /\ ~done /\ err = "none"
  <2>1. Answered("execute", Id, rowCount, pgError, FALSE)'
    BY <1>4, <1>5 DEF Giving
  <2> QED BY <1>3, <1>5, <2>1 DEF Giving
<1>6. CASE pc = "closing" /\ ~done /\ err = "none"
  <2>1. Answered("execute", Id, rowCount, pgError, TRUE)'
    BY <1>4, <1>6 DEF Giving
  <2> QED BY <1>3, <1>6, <2>1 DEF Giving
<1>7. CASE pc \in {"open", "closing"} /\ ~done /\ err = "broken"
  BY <1>3, <1>7 DEF Giving
<1>8. CASE pc \in {"open", "idle"} /\ done
  BY <1>1, <1>3, <1>8 DEF Giving
<1> QED BY <1>5, <1>6, <1>7, <1>8 DEF Giving

(* sql.DB closes the connection after the rows.                            *)
LEMMA CloseGiving ==
    ASSUME Giving, ConnClose
    PROVE  Giving'
<1>1. /\ pc = "idle" /\ reqs' = <<>> /\ reply' = <<>> /\ inbox' = <<>>
      /\ UNCHANGED <<made, pc, path, sent, out, rowCount, call, sends, pgError, done, err>>
  BY DEF ConnClose, queryVars, callVars, outVars, itVars
<1>2. WireClean' /\ reqs' = reqs /\ pgError' \in Codes \cup {"none"}
  BY <1>1 DEF WireClean, Giving, Started
<1>3. Started' /\ rowCount' <= made'
  BY <1>1, <1>2, GivenKept
<1> QED BY <1>1, <1>2, <1>3 DEF Giving

(* Nothing happens.                                                        *)
LEMMA IdleStep ==
    ASSUME Starting \/ Giving, UNCHANGED allVars
    PROVE  Starting' \/ Giving'
<1>1. UNCHANGED <<reqs, reply, made, inbox, pc, call, path, result, sends, pgError, out, sent,
                  rowCount, done, err>>
  BY DEF allVars, vars, itVars, sessionVars, serverVars, callVars, outVars
<1>2. Id' = Id /\ Unread' = Unread /\ (WireClean => WireClean')
  BY <1>1 DEF Id, Unread, WireClean
<1>3. Started => Started'
  BY <1>1, <1>2 DEF Started
<1>4. CASE Starting
  <2>1. \/ pc' = "pump" /\ Waiting("execute", Id, 0, pgError)'
        \/ Answered("execute", Id, 0, pgError, pc = "drain")'
    BY <1>1, <1>2, <1>4 DEF Starting, Waiting, Answered
  <2> QED BY <1>1, <1>3, <1>4, <2>1 DEF Starting
<1>5. CASE Giving
  <2>1. \A skims \in BOOLEAN : Answered("execute", Id, rowCount, pgError, skims)
                                 => Answered("execute", Id, rowCount, pgError, skims)'
    BY <1>1, <1>2 DEF Answered
  <2> QED BY <1>1, <1>2, <1>3, <1>5, <2>1 DEF Giving
<1> QED BY <1>4, <1>5

-----------------------------------------------------------------------------
(* The invariant *)

(* Every step keeps it.                                                    *)
LEMMA StdlibInvNext ==
    ASSUME StdlibInv, [StdlibNext]_stdVars
    PROVE  StdlibInv'
<1> DEFINE Kept == Prelude' \/ Starting' \/ Giving'
<1>1. Basic /\ Basic'
  BY BasicNext DEF StdlibInv
<1>2. CASE (Begin /\ done' = FALSE /\ err' = "none") \/ Refuse
  BY <1>1, <1>2, BeginPrelude DEF StdlibInv
<1>3. ASSUME clean, Prelude, WithinCall PROVE Kept
  <2>1. pc \notin Iterating
    BY <1>3 DEF Prelude, QueryInv, QueryTypes, Reading, Iterating
  <2>2. ~ReaderSteps
    BY <2>1, ReaderFrame
  <2>3. CASE ConnClose
    BY <1>1, <1>3, <2>3, ClosePrelude
  <2>4. CASE StartRawExecute
    BY <1>1, <1>3, <2>4, StartStarting
  <2>5. CASE \/ Client /\ UNCHANGED itVars
             \/ Environment /\ UNCHANGED queryVars /\ UNCHANGED itVars
             \/ UNCHANGED allVars
    BY <1>1, <1>3, <2>5, EnginePrelude DEF allVars
  <2> QED BY <1>3, <2>2, <2>3, <2>4, <2>5 DEF WithinCall
<1>4. ASSUME Starting \/ Giving, Client PROVE FALSE
  <2>1. path = "iterator" /\ pc \in Iterating \cup {"idle"}
    BY <1>4 DEF Starting, Giving, Started, Iterating
  <2>2. /\ path \notin {"cached", "simple", "ping"}
        /\ pc \notin {"execute", "text", "ping", "abort", "backoff"}
    BY <2>1 DEF Iterating
  <2>3. pc \in {"send", "describe", "bind", "detach"}
    BY <1>4, <2>2, PreparedClient
  <2> QED BY <2>1, <2>3 DEF Iterating
<1>5. ASSUME Starting, WithinCall PROVE Kept
  <2>1. pc \in {"pump", "drain"}
    BY <1>5 DEF Starting
  <2>2. ~(ConnClose \/ StartRawExecute \/ CloseDrained)
    BY <2>1 DEF ConnClose, StartRawExecute, Execute, CloseDrained
  <2>3. CASE ReaderSteps
    <3>1. ~(\/ NextRaw \/ NextRow \/ NextSkips \/ NextError \/ NextReady \/ NextFails \/ RowMismatch
            \/ CloseDone \/ CloseEarly)
      BY <2>1 DEF NextRaw, NextRow, NextSkips, NextError, NextReady, NextFails, RowMismatch, CloseDone,
                  CloseEarly
    <3>2. CASE PumpBound \/ PumpSkips \/ PumpError
      BY <1>1, <1>5, <3>2, PumpStarting
    <3>3. CASE PumpFails \/ DrainFails
      BY <1>1, <1>5, <3>3, FailsStarting
    <3>4. CASE DrainSkips \/ DrainStale \/ DrainError
      BY <1>1, <1>5, <3>4, DrainStarting
    <3> QED BY <2>2, <2>3, <3>1, <3>2, <3>3, <3>4 DEF ReaderSteps
  <2>4. CASE Environment /\ UNCHANGED queryVars /\ UNCHANGED itVars
    <3>1. UNCHANGED <<pc, call, path, result, sends, pgError, out, sent, rowCount, err>>
      BY <2>4 DEF queryVars, callVars, outVars, itVars
    <3> QED BY <1>1, <1>5, <2>4, <3>1, EnvironmentStarting
  <2>5. CASE UNCHANGED allVars
    BY <1>5, <2>5, IdleStep
  <2> QED BY <1>4, <1>5, <2>2, <2>3, <2>4, <2>5 DEF WithinCall
<1>6. ASSUME Giving, WithinCall PROVE Kept
  <2>1. pc \in {"open", "reading", "closing", "idle"}
    BY <1>6 DEF Giving
  <2>2. ~StartRawExecute
    BY <2>1 DEF StartRawExecute, Execute
  <2>3. CASE ReaderSteps
    <3>1. ~(PumpBound \/ PumpError \/ PumpFails \/ PumpSkips \/ DrainStale \/ DrainError)
      BY <2>1 DEF PumpBound, PumpError, PumpFails, PumpSkips, DrainStale, DrainError
    <3>2. CASE NextRow \/ RowMismatch
      BY <1>1, <1>6, <3>2, RowGiving
    <3>3. CASE NextSkips \/ NextError
      BY <1>1, <1>6, <3>3, SkipGiving
    <3>4. CASE NextReady
      BY <1>1, <1>6, <3>4, ReadyGiving
    <3>5. CASE NextRaw \/ NextFails \/ CloseEarly \/ CloseDone
      BY <1>6, <3>5, CallGiving
    <3>6. CASE DrainSkips \/ CloseDrained \/ DrainFails
      BY <1>1, <1>6, <3>6, DrainGiving
    <3> QED BY <2>3, <3>1, <3>2, <3>3, <3>4, <3>5, <3>6 DEF ReaderSteps
  <2>4. CASE Environment /\ UNCHANGED queryVars /\ UNCHANGED itVars
    <3>1. UNCHANGED <<pc, call, path, sends, pgError, out, sent, rowCount, done, err>>
      BY <2>4 DEF queryVars, callVars, outVars, itVars
    <3> QED BY <1>1, <1>6, <2>4, <3>1, EnvironmentGiving
  <2>5. CASE ConnClose
    BY <1>6, <2>5, CloseGiving
  <2>6. CASE UNCHANGED allVars
    BY <1>6, <2>6, IdleStep
  <2> QED BY <1>4, <1>6, <2>2, <2>3, <2>4, <2>5, <2>6 DEF WithinCall
<1>7. ASSUME WithinCall PROVE clean' = clean
  <2>1. CASE ConnClose \/ StartRawExecute
    BY <2>1 DEF ConnClose, queryVars, StartRawExecute, Execute, Send
  <2>2. CASE ReaderSteps
    BY <2>2, ReaderFrame
  <2>3. CASE Client
    BY <1>1, <2>3, ClientTypes DEF Basic
  <2>4. CASE UNCHANGED queryVars \/ UNCHANGED allVars
    BY <2>4 DEF queryVars, allVars, vars
  <2> QED BY <1>7, <2>1, <2>2, <2>3, <2>4 DEF WithinCall
<1>8. CASE WithinCall /\ clean
  BY <1>1, <1>3, <1>5, <1>6, <1>8 DEF StdlibInv
<1>9. CASE WithinCall /\ ~clean
  BY <1>1, <1>7, <1>9 DEF StdlibInv
<1> QED BY <1>2, <1>8, <1>9, StepKinds

(* The invariant holds in every state of every behaviour.                  *)
LEMMA StdlibInvariant == StdlibSpec => []StdlibInv
<1>1. ASSUME StdlibInit PROVE StdlibInv
  <2>1. QueryInv /\ pc = "idle" /\ sent = <<>> /\ out = <<>> /\ result = "none" /\ ~done
    BY <1>1, QueryInit DEF StdlibInit, IteratorInit, Init
  <2> QED BY <2>1 DEF StdlibInv, Basic, Lanes, Iterating, Prelude, QueryInv, QueryTypes
<1>2. StdlibInv /\ [StdlibNext]_stdVars => StdlibInv'
  BY StdlibInvNext
<1> QED BY <1>1, <1>2, PTL DEF StdlibSpec

-----------------------------------------------------------------------------
(* Theorems *)

(* RowsInOrder: NextRaw has given the first rows of one execution, through *)
(* the retry of RawQuery, a CancelRequest at any row, and whatever         *)
(* database/sql or the program does between the rows.                      *)
THEOREM RowsOrderTheorem == StdlibSpec => []RowsInOrder
<1>1. ASSUME StdlibInv, clean, path = "iterator" PROVE IsPrefix(sent, Rows(Id, made))
  <2>1. Id \in Ids /\ made \in Nat
    BY <1>1 DEF StdlibInv, Basic, SessionTypes, Id, Ids
  <2>2. PICK n \in Nat : n <= made /\ sent = Rows(Id, n)
    <3>1. CASE Prelude
      <4>1. Rows(Id, 0) = <<>>
        BY <2>1, RowsMore
      <4>2. 0 \in Nat /\ 0 <= made
        BY <2>1
      <4> QED BY <1>1, <3>1, <4>1, <4>2 DEF Prelude
    <3>2. CASE Starting
      BY <2>1, <3>2 DEF Starting, Started
    <3>3. CASE Giving
      BY <3>3 DEF Giving, Started
    <3> QED BY <1>1, <3>1, <3>2, <3>3 DEF StdlibInv
  <2> DEFINE s == Rows(Id, n)
             t == Rows(Id, made)
  <2>3. /\ s \in Seq(Messages) /\ Len(s) = n /\ \A i \in 1..n : s[i] = Row(Id, i)
        /\ t \in Seq(Messages) /\ Len(t) = made /\ \A i \in 1..made : t[i] = Row(Id, i)
    BY <2>1, <2>2, RowsFacts
  <2> HIDE DEF s, t
  <2>4. Len(s) <= Len(t) /\ \A i \in 1..Len(s) : s[i] = t[i]
    <3>1. \A i \in 1..n : i \in 1..made
      BY <2>1, <2>2
    <3> QED BY <2>2, <2>3, <3>1
  <2>5. IsPrefix(s, t)
    BY <2>3, <2>4, PrefixIndex
  <2> QED BY <2>2, <2>5 DEF s, t
<1>2. StdlibInv => RowsInOrder
  BY <1>1 DEF RowsInOrder, Id
<1> QED BY <1>2, StdlibInvariant, PTL

(* EOFIsComplete: io.EOF comes after the last row, never in place of an    *)
(* error or a cancel.                                                      *)
THEOREM EOFTheorem == StdlibSpec => []EOFIsComplete
<1>1. ASSUME StdlibInv, clean, path = "iterator", done, err = "none", pc = "open"
      PROVE  sent = Rows(Id, made)
  <2>1. ~Prelude /\ ~Starting
    BY <1>1 DEF Prelude, QueryInv, QueryTypes, Reading, Starting
  <2> QED BY <1>1, <2>1 DEF StdlibInv, Giving, Started
<1>2. StdlibInv => EOFIsComplete
  BY <1>1 DEF EOFIsComplete, Id
<1> QED BY <1>2, StdlibInvariant, PTL

(* DoneFreesClient: a done iterator has released its ctx, whatever wire it *)
(* began on, and, on a clean wire, has read its answer to the end unless a *)
(* read failed.                                                            *)
THEOREM DoneTheorem == StdlibSpec => []DoneFreesClient
<1>1. ASSUME StdlibInv, path = "iterator", done, pc \in {"open", "idle"}
      PROVE  watcher = "none" /\ ~past
  BY <1>1 DEF StdlibInv, Basic, Lanes, Watching
<1>2. ASSUME StdlibInv, path = "iterator", done, pc \in {"open", "idle"}, clean, err # "broken"
      PROVE  WireClean
  <2>1. ~Starting
    BY <1>2 DEF Starting
  <2> QED BY <1>2, <2>1 DEF StdlibInv, Prelude, Giving
<1>3. StdlibInv => DoneFreesClient
  BY <1>1, <1>2 DEF DoneFreesClient
<1> QED BY <1>3, StdlibInvariant, PTL

=============================================================================
