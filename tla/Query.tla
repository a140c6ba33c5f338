------------------------------- MODULE Query -------------------------------
(***************************************************************************)
(* The query engine of pg2json/query.go with its writers (stream.go) and   *)
(* Client.Ping: the calls a program makes, one after the other, on one     *)
(* Client.  A call is runQuery around runCached (prepareAndDescribe,       *)
(* bindExecute) or runSimple (consumeText), with its two retries: once     *)
(* after SQLSTATE 26000 on a cached statement, and up to MaxAttempts times *)
(* after a serialization failure.                                          *)
(*                                                                         *)
(* One action is one message read or one buffer flushed to the socket,     *)
(* with everything the code does before its next read or write.  Output is *)
(* a sequence of items: the header, the rows, the footer.  When            *)
(* flushingWriter.MaybeFlush flushes is a matter of bytes and of time, so  *)
(* a streaming writer may flush after any row.  bufWriter never does; what *)
(* QueryJSON returns is what it holds at success.                          *)
(*                                                                         *)
(* The calls of one behaviour all run the same SQL, so the statement cache *)
(* is whether it holds that statement (StmtCache.tla has the names).       *)
(***************************************************************************)
EXTENDS Session

CONSTANTS
    MaxCalls,       \* bound of the model: calls on the Client
    Paths,          \* the paths the calls take
    Writers,        \* the writers they use
    MaxAttempts,    \* const maxRetries of runQuery (3 in the code)
    RetryOnSerialization, MaxResponseRows,     \* Config; 0: unlimited
    CapsBytes,      \* Config.MaxResponseBytes > 0
    Reuse           \* outcomes after which the program calls again

ASSUME QueryAssumption ==
    /\ MaxCalls \in Nat /\ MaxAttempts \in Nat \ {0} /\ MaxResponseRows \in Nat
    /\ Paths \subseteq {"cached", "simple", "ping", "iterator", "scan", "batched"}
    /\ Writers \subseteq {"buffer", "stream"}
    /\ RetryOnSerialization \in BOOLEAN /\ CapsBytes \in BOOLEAN

VARIABLES
    pc, call, path, writer,
    result,     \* of the current or the last call
    attempt,    \* of runQuery
    restale,    \* runCached is in its second attempt
    fromCache,
    cached,     \* stmts holds the statement
    torn,       \* writeBuf holds the start of a Bind
    sends,      \* requests sent by the call: with call, the id of a request
    plan,       \* a RowDescription was read
    pgError,    \* the ErrorResponse read, or "none"
    rowCount,
    out, sent,  \* items in the writer's buffer, items delivered
    clean       \* history: the wire was clean when the call began

callVars == <<call, path, writer>>
outVars == <<out, sent, rowCount>>
vars == <<sessionVars, pc, callVars, result, attempt, restale, fromCache, cached,
          torn, sends, plan, pgError, outVars, clean>>

Header == <<Msg("header")>>
Footer == <<Msg("footer")>>

\* How a call ends: a result, an error of the server, the cap error, a
\* statement without a RowDescription, a refused argument, a refused call;
\* "broken" is any other error (socket, decoding, downstream writer, protocol,
\* a failed Ping).  "lost" is the cap error again, which the caller cannot tell
\* from "cap", returned because the drain of abortOversize failed.  "shape" and
\* "callback" are errors of a scan: a struct that does not fit the result, and
\* the error of the callback.
Errors == {"pg", "cap", "lost", "noplan", "args", "broken", "refused", "shape", "callback"}
Results == {"none", "ok"} \cup Errors
Reading == {"describe", "execute", "text", "ping", "abort"}

Init ==
    /\ SessionInit
    /\ pc = "idle" /\ call = 0 /\ result = "none"
    /\ path \in Paths /\ writer \in Writers
    /\ attempt = 0 /\ restale = FALSE /\ fromCache = FALSE
    /\ cached = FALSE /\ torn = FALSE /\ sends = 0
    /\ plan = FALSE /\ pgError = "none"
    /\ out = <<>> /\ sent = <<>> /\ rowCount = 0
    /\ clean = TRUE

\* Committed: some Flush wrote something.
Committed == sent # <<>>

\* Variant for a mutation run: the buffer is kept.
ResetForgotten(o) == o

\* Reset of a writer that has not committed.
Reset(o) == IF Committed THEN o ELSE <<>>

\* The call is over but for its deferred detachContext.
Return(res) ==
    /\ pc' = "detach"
    /\ result' = res

\* Variant for a mutation run: delivered output is ignored.
RetryableCommitted(res, code) ==
    /\ RetryOnSerialization /\ path \in {"cached", "simple"}
    /\ attempt + 1 < MaxAttempts
    /\ res = "pg" /\ code = Serialization
    /\ ~ctxDone

\* The outer loop of runQuery: whether the error is retried.
Retryable(res, code) ==
    /\ RetryOnSerialization /\ path \in {"cached", "simple"}
    /\ attempt + 1 < MaxAttempts
    /\ res = "pg" /\ code = Serialization
    /\ ~Committed
    /\ ~ctxDone

\* An error reaches the outer loop.
Fail(res, code) ==
    \/ /\ ~Retryable(res, code)
       /\ Return(res)
       /\ UNCHANGED <<attempt, out, restale, rowCount>>
    \/ /\ Retryable(res, code)
       /\ pc' = "backoff"
       /\ attempt' = attempt + 1
       /\ out' = Reset(out)
       /\ restale' = FALSE /\ rowCount' = 0
       /\ UNCHANGED result

-----------------------------------------------------------------------------
(* A call begins *)

Usable == pc = "idle" /\ call < MaxCalls /\ result \in Reuse \cup {"none", "refused"}

\* rejectNonSelect, or a ctx that is already done.
Refuse ==
    /\ Usable
    /\ call' = call + 1 /\ result' = "refused"
    /\ sent' = <<>> /\ out' = <<>> /\ rowCount' = 0
    /\ pgError' = "none" /\ clean' = WireClean /\ ctxDone' = FALSE
    /\ UNCHANGED <<serverVars, cancels, watcher, past, pc, path, writer, attempt, restale,
                   fromCache, cached, torn, sends, plan>>

Begin ==
    /\ Usable
    /\ path' \in Paths /\ writer' \in Writers
    /\ AttachContext
    /\ call' = call + 1 /\ pc' = "send" /\ result' = "none"
    /\ attempt' = 0 /\ restale' = FALSE /\ fromCache' = FALSE
    /\ sends' = 0 /\ plan' = FALSE /\ pgError' = "none"
    /\ out' = <<>> /\ sent' = <<>> /\ rowCount' = 0
    /\ clean' = WireClean
    /\ UNCHANGED <<serverVars, cancels, cached, torn>>

\* A Flush that reaches the server, and the reader that waits for its answer.
Send(kind, reader) ==
    /\ ~past
    /\ FlushRequest(kind, <<call, sends + 1>>, torn)
    /\ torn' = FALSE
    /\ sends' = sends + 1
    /\ pc' = reader
    /\ plan' = FALSE /\ pgError' = "none" /\ rowCount' = 0
    /\ UNCHANGED <<reply, made, inbox, alive, parsed, cancels, ctxVars, callVars, result,
                   attempt, restale, cached, out, sent, clean>>

\* The paths that look in the statement cache.
Prepared == {"cached", "iterator", "scan", "batched"}

\* stmts.get found nothing: prepareAndDescribe.
SendPrepare ==
    /\ pc = "send" /\ path \in Prepared /\ ~cached
    /\ Send("prepare", "describe")
    /\ fromCache' = FALSE

\* Bind, Execute, Sync.
Execute(reader) ==
    /\ cached /\ pc \in {"send", "bind"}
    /\ fromCache' = (pc = "send")
    /\ Send("execute", reader)

SendExecute == path = "cached" /\ Execute("execute")

SendSimple ==
    /\ pc = "send" /\ path = "simple"
    /\ Send("simple", "text")
    /\ UNCHANGED fromCache

SendPing ==
    /\ pc = "send" /\ path = "ping"
    /\ Send("ping", "ping")
    /\ UNCHANGED fromCache

\* Flush fails, and empties writeBuf all the same.
SendFails ==
    /\ pc \in {"send", "bind"} /\ IOFails
    /\ torn' = FALSE
    /\ Return("broken")
    /\ UNCHANGED <<sessionVars, callVars, attempt, restale, fromCache, cached, sends,
                   plan, pgError, outVars, clean>>

\* encodeArg refuses an argument after the Bind was begun.
BadArgument ==
    /\ path \in Prepared /\ cached /\ pc \in {"send", "bind"}
    /\ torn' = TRUE
    /\ Return("args")
    /\ UNCHANGED <<sessionVars, callVars, attempt, restale, fromCache, cached, sends,
                   plan, pgError, outVars, clean>>

-----------------------------------------------------------------------------
(* Reading the answer *)

readFrame == <<reqs, reply, made, alive, parsed, ctxVars, callVars, fromCache, torn,
               sends, clean>>

\* Messages a reader passes over.
Skipped ==
    CASE pc = "describe" -> {"NoData"}
      [] pc = "execute"  -> {"BindComplete", "CommandComplete", "EmptyQuery",
                             "RowDescription"}
      [] pc = "text"     -> {"CommandComplete", "EmptyQuery"}
      [] pc = "ping"     -> {"CommandComplete", "EmptyQuery"}
      [] pc = "abort"    -> {"BindComplete", "CommandComplete", "EmptyQuery", "NoData",
                             "RowDescription", "DataRow", "Error"}
      [] OTHER           -> {}

\* Messages a reader has a case for.
Expected ==
    Skipped \cup {"ReadyForQuery"} \cup
    CASE pc = "describe" -> {"RowDescription", "Error"}
      [] pc = "execute"  -> {"DataRow", "Error"}
      [] pc = "text"     -> {"RowDescription", "DataRow", "Error"}
      [] pc = "ping"     -> {"Error"}
      [] OTHER           -> {}

Skip ==
    /\ \E t \in Skipped : Read(t)
    /\ UNCHANGED <<readFrame, cancels, pc, result, attempt, restale, cached, plan,
                   pgError, outVars>>

\* ReadMessage fails: every reader returns at once.
ReadFails ==
    /\ pc \in Reading /\ IOFails
    /\ inbox' = LostOnError
    /\ Return(IF pc = "abort" THEN "lost" ELSE "broken")
    /\ cached' = (cached /\ pc # "describe")
    /\ UNCHANGED <<readFrame, cancels, attempt, restale, plan, pgError, outVars>>

\* "unexpected msg", or "DataRow before RowDescription": the reader returns
\* and leaves the rest of the answer unread.
Unexpected ==
    /\ pc \in Reading /\ inbox # <<>>
    /\ \/ Head(inbox).t \notin Expected
       \/ pc = "text" /\ Head(inbox).t = "DataRow" /\ ~plan
    /\ inbox' = Tail(inbox)
    /\ Return("broken")
    /\ cached' = (cached /\ pc # "describe")
    /\ UNCHANGED <<readFrame, cancels, attempt, restale, plan, pgError, outVars>>

ReadDescription ==
    /\ pc \in {"describe", "text"}
    /\ Read("RowDescription")
    /\ plan' = TRUE
    /\ UNCHANGED <<readFrame, cancels, pc, result, attempt, restale, cached, pgError,
                   outVars>>

\* rows.ParseRowDescription refuses the message.
BadDescription ==
    /\ pc \in {"describe", "text", "execute"}
    /\ Read("RowDescription")
    /\ Return("broken")
    /\ cached' = (cached /\ pc # "describe")
    /\ UNCHANGED <<readFrame, cancels, attempt, restale, plan, pgError, outVars>>

\* Variant for a mutation run: the error is returned at once.
RememberErrorAndReturn(code) ==
    /\ pgError' = code
    /\ Return("pg")

\* The readers of a query remember the error and go on to ReadyForQuery.
RememberError(code) ==
    /\ pgError' = code
    /\ UNCHANGED <<pc, result>>

ReadError ==
    /\ pc \in {"describe", "execute", "text"}
    /\ Read("Error")
    /\ RememberError(Head(inbox).code)
    /\ UNCHANGED <<readFrame, cancels, attempt, restale, cached, plan, outVars>>

\* Ping returns the error at once.
PingError ==
    /\ pc = "ping"
    /\ Read("Error")
    /\ pgError' = Head(inbox).code
    /\ Return("broken")
    /\ UNCHANGED <<readFrame, cancels, attempt, restale, cached, plan, outVars>>

PingOK ==
    /\ pc = "ping"
    /\ Read("ReadyForQuery")
    /\ Return("ok")
    /\ UNCHANGED <<readFrame, cancels, attempt, restale, cached, plan, pgError, outVars>>

\* prepareAndDescribe is done: put the statement, or invalidate and return.
DescribeOK ==
    /\ pc = "describe" /\ pgError = "none" /\ plan
    /\ Read("ReadyForQuery")
    /\ cached' = TRUE
    /\ pc' = "bind"
    /\ UNCHANGED <<readFrame, cancels, result, attempt, restale, plan, pgError, outVars>>

DescribeFails ==
    /\ pc = "describe" /\ (pgError # "none" \/ ~plan)
    /\ Read("ReadyForQuery")
    /\ cached' = FALSE
    /\ Fail(IF pgError # "none" THEN "pg" ELSE "noplan", pgError)
    /\ UNCHANGED <<readFrame, cancels, plan, pgError, sent>>

-----------------------------------------------------------------------------
(* Rows *)

\* checkCaps, after row n was counted: the rows are over their cap, or the bytes
\* may be.  The model does not count bytes: with a cap on them, any row may be
\* the one that crosses it.
RowsOverCap(n) == MaxResponseRows > 0 /\ n >= MaxResponseRows
OverCap(n) == RowsOverCap(n) \/ CapsBytes

\* What writeHeader still has to write: nothing once headerWritten.
HeaderDue == IF rowCount = 0 THEN Header ELSE <<>>

\* writeHeader before the first row, then writeRow.
WithRow(m) ==
    HeaderDue \o <<Row(m.id, m.i)>>

\* MaybeFlush: the buffer stays, or goes downstream whole.
MaybeFlush(items) ==
    \/ out' = out \o items /\ sent' = sent
    \/ writer = "stream" /\ out' = <<>> /\ sent' = sent \o out \o items

ReadRow ==
    /\ pc = "execute" \/ (pc = "text" /\ plan)
    /\ Read("DataRow")
    /\ MaybeFlush(WithRow(Head(inbox)))
    /\ rowCount' = rowCount + 1
    /\ \/ OverCap(rowCount + 1) /\ pc' = "abort" /\ SendCancel
       \/ ~RowsOverCap(rowCount + 1) /\ UNCHANGED <<pc, cancels>>
    /\ UNCHANGED <<readFrame, result, attempt, restale, cached, plan, pgError>>

\* The row does not decode, or the downstream writer fails (what it took of a
\* last, partial write is not modelled): the reader returns and leaves the rest
\* of the answer unread.
RowFails ==
    /\ pc = "execute" \/ (pc = "text" /\ plan)
    /\ Read("DataRow")
    /\ out' \in {out \o HeaderDue, out \o WithRow(Head(inbox))}
    /\ Return("broken")
    /\ UNCHANGED <<readFrame, cancels, attempt, restale, cached, plan, pgError, sent,
                   rowCount>>

\* ReadyForQuery of a result: footer, Flush.
Completed == HeaderDue \o Footer

\* Variant for a mutation run: the error is ignored.
NoErrorUnchecked == TRUE

NoError == pgError = "none"

FinishOK ==
    /\ pc \in {"execute", "text"} /\ NoError
    /\ Read("ReadyForQuery")
    /\ sent' = sent \o out \o Completed
    /\ out' = <<>>
    /\ Return("ok")
    /\ UNCHANGED <<readFrame, cancels, attempt, restale, cached, plan, pgError, rowCount>>

\* The last Flush fails.
FinishFails ==
    /\ pc \in {"execute", "text"} /\ NoError /\ writer = "stream"
    /\ Read("ReadyForQuery")
    /\ out' = out \o Completed
    /\ Return("broken")
    /\ UNCHANGED <<readFrame, cancels, attempt, restale, cached, plan, pgError, sent,
                   rowCount>>

\* runCached retries from Parse when the backend forgot a cached statement.
StaleRetry == /\ pc = "execute" /\ pgError = StaleStmt
              /\ fromCache /\ ~restale /\ ~Committed

FinishStale ==
    /\ StaleRetry
    /\ Read("ReadyForQuery")
    /\ cached' = FALSE
    /\ out' = Reset(out)
    /\ restale' = TRUE /\ pc' = "send"
    /\ rowCount' = 0
    /\ UNCHANGED <<readFrame, cancels, result, attempt, plan, pgError, sent>>

FinishError ==
    /\ pc \in {"execute", "text"} /\ pgError # "none" /\ ~StaleRetry
    /\ Read("ReadyForQuery")
    /\ Fail("pg", pgError)
    /\ UNCHANGED <<readFrame, cancels, cached, plan, pgError, sent>>

\* abortOversize reads ReadyForQuery and reports the cap.
AbortDone ==
    /\ pc = "abort"
    /\ Read("ReadyForQuery")
    /\ Return("cap")
    /\ UNCHANGED <<readFrame, cancels, attempt, restale, cached, plan, pgError, outVars>>

\* time.After(backoff) of the outer loop, and ctx.Done.
Retry ==
    /\ pc = "backoff"
    /\ pc' = "send"
    /\ UNCHANGED <<sessionVars, callVars, result, attempt, restale, fromCache, cached,
                   torn, sends, plan, pgError, outVars, clean>>

BackoffExpires ==
    /\ pc = "backoff" /\ ctxDone
    /\ Return("pg")
    /\ UNCHANGED <<sessionVars, callVars, attempt, restale, fromCache, cached, torn,
                   sends, plan, pgError, outVars, clean>>

Detach ==
    /\ pc = "detach"
    /\ DetachContext
    /\ pc' = "idle"
    /\ UNCHANGED <<serverVars, cancels, callVars, result, attempt, restale, fromCache,
                   cached, torn, sends, plan, pgError, outVars, clean>>

-----------------------------------------------------------------------------
\* The program has made its calls, or discards the connection.
Stopped == pc = "idle" /\ ~Usable /\ UNCHANGED vars

Client ==
    \/ SendPrepare \/ SendExecute \/ SendSimple \/ SendPing \/ SendFails \/ BadArgument
    \/ Skip \/ ReadFails \/ Unexpected \/ ReadDescription \/ BadDescription
    \/ ReadError \/ PingError \/ PingOK \/ DescribeOK \/ DescribeFails
    \/ ReadRow \/ RowFails \/ FinishOK \/ FinishFails \/ FinishStale \/ FinishError
    \/ AbortDone \/ Retry \/ BackoffExpires \/ Detach

queryVars == <<pc, callVars, result, attempt, restale, fromCache, cached, torn, sends,
               plan, pgError, outVars, clean>>

Next == \/ Begin \/ Refuse \/ Client \/ Stopped
        \/ Environment /\ UNCHANGED queryVars

Spec == Init /\ [][Next]_vars

-----------------------------------------------------------------------------
(* Properties *)

\* Every variable has its type; runQuery makes at most MaxAttempts attempts, of
\* at most three requests each (a stale Execute, a Parse, an Execute).
TypeOK ==
    /\ SessionTypeOK
    /\ pc \in {"idle", "send", "bind", "backoff", "detach"} \cup Reading
    /\ call \in 0..MaxCalls /\ path \in Paths /\ writer \in Writers
    /\ result \in Results
    /\ attempt \in 0..(MaxAttempts - 1)
    /\ sends \in 0..(3 * MaxAttempts)
    /\ {restale, fromCache, cached, torn, plan, clean} \subseteq BOOLEAN
    /\ pgError \in Codes \cup {"none"}
    /\ rowCount \in Nat

\* The whole output of the request sent last.
FullOutput == Header \o Rows(<<call, sends>>, made) \o Footer

\* ARCHITECTURE.md: "no JSON corruption on error, safe retries".  In a call that
\* began on a clean wire, what was delivered and what is buffered behind it are
\* together a beginning of the output of ONE execution, the last one: no row
\* twice, none of an abandoned attempt, none missing in between, one header.
OutputIsOnePass == clean => IsPrefix(sent \o out, FullOutput)

\* A call that returns nil delivered the whole result: an error, a cancel, the
\* cap or a lost connection in the middle of the rows never looks like success.
SuccessIsComplete ==
    clean /\ result = "ok" /\ path # "ping" => sent = FullOutput /\ out = <<>>

\* A call that ends with a result, with the server's error, with a drained cap
\* error or without a RowDescription has read its own ReadyForQuery and nothing
\* else, and has left nothing in writeBuf: the next call on the connection starts
\* clean.  Three ways to end are out: "broken"; "lost", where abortOversize could
\* not drain and returns the same cap error, so that the caller cannot tell; and
\* "args", which leaves the start of a Bind in writeBuf for the next call to send.
ReturnLeavesWireClean ==
    clean /\ pc \in {"detach", "idle"} /\ result \in {"ok", "pg", "cap", "noplan"}
        => WireClean /\ ~torn

\* Between calls no watcher runs and no deadline is set: a cancelled call never
\* makes the reads or writes of the next one fail (detachContext waits for the
\* watcher before it clears the deadline).
IdleIsUnwatched == pc = "idle" => watcher = "none" /\ ~past

\* The calls implement Call.tla: what a program sees of a Client.  A call that
\* is under way keeps the connection it found (clean); an idle Client is usable
\* when the last call left it so: with a clean wire and nothing in writeBuf.
Good == {"ok", "pg", "cap", "noplan", "refused"}

C == INSTANCE Call WITH
    busy <- pc # "idle", query <- path # "ping", exec <- sends, rows <- made,
    usable <- IF pc = "idle" THEN clean /\ ~torn /\ result \in Good \cup {"none"} ELSE clean,
    Whole <- LAMBDA c, k, n : Header \o Rows(<<c, k>>, n) \o Footer

\* ARCHITECTURE.md, Design principles: whatever fails, a call delivers in order
\* the output of one execution, resends only while nothing was delivered, is
\* complete when it returns nil, and keeps a usable connection usable when it
\* ends with a result, with the server's error, without a RowDescription, with a
\* drained cap error or refused before it began.  It promises no connection after
\* any other error.  That includes two whose text does not say so: a refused
\* argument ("args": the next request is torn), and the cap error when the drain
\* failed ("lost": the same error as "cap").
ImplementsCall == C!Spec

\* ARCHITECTURE.md, Cancellation: a call whose ctx is done returns even if the
\* server never answers again (the past deadline set by the watcher).
CancelReturns == path # "iterator" /\ ctxDone /\ watcher # "none" ~> pc = "idle"
=============================================================================
