------------------------------ MODULE Iterator ------------------------------
(***************************************************************************)
(* The lazy iterator of pg2json/iter.go, on the same Client as the queries *)
(* of Query.tla: RawQuery (path "iterator"), which shares the statement    *)
(* cache and prepareAndDescribe with them, then NextRaw and Close at the   *)
(* caller's pace.  Stdlib.tla puts the next-state relation together.       *)
(*                                                                         *)
(* pgError and rowCount are it.pgErr and it.rowCount; sent is the rows     *)
(* NextRaw has returned.  releaseContext waits for a watcher that is       *)
(* already cancelling, so the step that releases waits too.                *)
(***************************************************************************)
EXTENDS Query

VARIABLES
    done,       \* it.done
    err         \* it.err: "none", "pg", or "broken"

itVars == <<done, err>>
allVars == <<vars, itVars>>

IteratorInit == Init /\ done = FALSE /\ err = "none"

\* What the steps of the iterator never touch.
itFrame == <<reqs, reply, made, alive, parsed, callVars, attempt, torn, sends, plan, out,
             clean>>

\* A query or a RawQuery begins.
IteratorBegin ==
    /\ Begin
    /\ done' = FALSE /\ err' = "none"

-----------------------------------------------------------------------------
(* startRawExecute *)

StartRawExecute ==
    /\ path = "iterator"
    /\ Execute("pump")
    /\ UNCHANGED itVars

PumpBound ==
    /\ pc = "pump"
    /\ Read("BindComplete")
    /\ pc' = "open"
    /\ UNCHANGED <<itFrame, cancels, ctxVars, result, restale, fromCache, cached, pgError,
                   rowCount, sent, done, err>>

\* The ErrorResponse of a failed Bind: drain to ReadyForQuery.
PumpError ==
    /\ pc = "pump"
    /\ Read("Error")
    /\ pgError' = Head(inbox).code
    /\ pc' = "drain"
    /\ UNCHANGED <<itFrame, cancels, ctxVars, result, restale, fromCache, cached, rowCount,
                   sent, done, err>>

\* ReadMessage fails, the message is none of the above, or a RowDescription does
\* not parse: RawQuery returns.
PumpFails ==
    /\ pc = "pump"
    /\ \/ IOFails /\ inbox' = LostOnError
       \/ /\ inbox # <<>> /\ Head(inbox).t \notin {"BindComplete", "Error"}
          /\ inbox' = Tail(inbox)
    /\ Return("broken")
    /\ UNCHANGED <<itFrame, cancels, ctxVars, restale, fromCache, cached, pgError, rowCount,
                   sent, done, err>>

PumpSkips ==
    /\ pc = "pump"
    /\ Read("RowDescription")
    /\ UNCHANGED <<itFrame, cancels, ctxVars, pc, result, restale, fromCache, cached,
                   pgError, rowCount, sent, done, err>>

-----------------------------------------------------------------------------
(* drainUntilReady, called by startRawExecute ("drain") and Close ("closing") *)

Draining == {"drain", "closing"}

DrainSkips ==
    /\ pc \in Draining
    /\ inbox # <<>> /\ Head(inbox).t # "ReadyForQuery"
    /\ inbox' = Tail(inbox)
    /\ pgError' = IF Head(inbox).t = "Error" THEN Head(inbox).code ELSE pgError
    /\ UNCHANGED <<itFrame, cancels, ctxVars, pc, result, restale, fromCache, cached,
                   rowCount, sent, done, err>>

\* RawQuery retries once after 26000 on a cached statement.
RawStale == fromCache /\ ~restale /\ pgError = StaleStmt

\* The drain of startRawExecute is over; releaseContext ran in it.
DrainStale ==
    /\ pc = "drain" /\ RawStale
    /\ Read("ReadyForQuery")
    /\ DetachContext
    /\ cached' = FALSE
    /\ restale' = TRUE /\ pc' = "send"
    /\ UNCHANGED <<itFrame, cancels, result, fromCache, pgError, rowCount, sent, done, err>>

DrainError ==
    /\ pc = "drain" /\ ~RawStale
    /\ Read("ReadyForQuery")
    /\ DetachContext
    /\ Return("pg")
    /\ UNCHANGED <<itFrame, cancels, restale, fromCache, cached, pgError, rowCount, sent,
                   done, err>>

\* Close: what the drain found.  57014 is what Close asked for.
CloseDrained ==
    /\ pc = "closing"
    /\ Read("ReadyForQuery")
    /\ DetachContext
    /\ done' = TRUE
    /\ pc' = "idle"
    /\ result' = IF pgError \in {"none", Canceled} THEN "ok" ELSE "pg"
    /\ UNCHANGED <<itFrame, cancels, restale, fromCache, cached, pgError, rowCount, sent, err>>

DrainFails ==
    /\ pc \in Draining /\ IOFails
    /\ inbox' = LostOnError
    /\ DetachContext
    /\ done' = TRUE /\ err' = "broken"
    /\ pc' = IF pc = "closing" THEN "idle" ELSE "detach"
    /\ result' = "broken"
    /\ UNCHANGED <<itFrame, cancels, restale, fromCache, cached, pgError, rowCount, sent>>

-----------------------------------------------------------------------------
(* NextRaw *)

\* The caller asks for a row of an iterator that is neither done nor failed;
\* otherwise NextRaw repeats what it returned and changes nothing.
NextRaw ==
    /\ pc = "open" /\ ~done /\ err = "none"
    /\ pc' = "reading"
    /\ UNCHANGED <<itFrame, inbox, cancels, ctxVars, result, restale, fromCache, cached,
                   pgError, rowCount, sent, done, err>>

NextRow ==
    /\ pc = "reading"
    /\ Read("DataRow")
    /\ sent' = Append(sent, Row(Head(inbox).id, Head(inbox).i))
    /\ rowCount' = rowCount + 1
    /\ pc' = "open"
    /\ UNCHANGED <<itFrame, cancels, ctxVars, result, restale, fromCache, cached, pgError,
                   done, err>>

\* Variant for a mutation run: a DataRow is read and dropped.
NextSkippedRow == {"CommandComplete", "EmptyQuery", "RowDescription", "DataRow"}

\* Messages NextRaw passes over.
NextSkipped == {"CommandComplete", "EmptyQuery", "RowDescription"}

NextSkips ==
    /\ pc = "reading"
    /\ \E t \in NextSkipped : Read(t)
    /\ UNCHANGED <<itFrame, cancels, ctxVars, pc, result, restale, fromCache, cached,
                   pgError, rowCount, sent, done, err>>

NextError ==
    /\ pc = "reading"
    /\ Read("Error")
    /\ pgError' = Head(inbox).code
    /\ UNCHANGED <<itFrame, cancels, ctxVars, pc, result, restale, fromCache, cached,
                   rowCount, sent, done, err>>

\* Variant for a mutation run: the error is ignored.
NextOutcomeEOF == "none"

\* What NextRaw keeps in it.err at ReadyForQuery.
NextOutcome == IF pgError = "none" THEN "none" ELSE "pg"

\* ReadyForQuery: io.EOF, or the error of the server.
NextReady ==
    /\ pc = "reading"
    /\ Read("ReadyForQuery")
    /\ DetachContext
    /\ done' = TRUE /\ err' = NextOutcome
    /\ pc' = "open"
    /\ UNCHANGED <<itFrame, cancels, result, restale, fromCache, cached, pgError, rowCount,
                   sent>>

\* A read error, an unexpected message or a RowDescription that does not parse is
\* sticky; the ctx stays attached.
NextFails ==
    /\ pc = "reading"
    /\ \/ IOFails /\ inbox' = LostOnError
       \/ /\ inbox # <<>> /\ Head(inbox).t \in {"BindComplete", "NoData", "RowDescription"}
          /\ inbox' = Tail(inbox)
    /\ err' = "broken"
    /\ pc' = "open"
    /\ UNCHANGED <<itFrame, cancels, ctxVars, result, restale, fromCache, cached, pgError,
                   rowCount, sent, done>>

-----------------------------------------------------------------------------
(* Close *)

CloseDone ==
    /\ pc = "open" /\ done
    /\ pc' = "idle"
    /\ result' = IF err = "none" THEN "ok" ELSE err
    /\ UNCHANGED <<itFrame, inbox, cancels, ctxVars, restale, fromCache, cached, pgError,
                   rowCount, sent, done, err>>

CloseEarly ==
    /\ pc = "open" /\ ~done
    /\ SendCancel
    /\ pc' = "closing"
    /\ UNCHANGED <<itFrame, inbox, ctxVars, result, restale, fromCache, cached, pgError,
                   rowCount, sent, done, err>>

-----------------------------------------------------------------------------
IteratorStep ==
    \/ StartRawExecute \/ PumpBound \/ PumpError \/ PumpFails \/ PumpSkips
    \/ DrainSkips \/ DrainStale \/ DrainError \/ DrainFails \/ CloseDrained
    \/ NextRow \/ NextSkips \/ NextError \/ NextReady \/ NextFails

-----------------------------------------------------------------------------
(* Properties *)

\* The rows NextRaw returned to a caller whose RawQuery found a clean wire are
\* the first rows of the one execution it is iterating over, in order.
RowsInOrder ==
    clean /\ path = "iterator" => IsPrefix(sent, Rows(<<call, sends>>, made))

\* io.EOF means that every row was returned: an error, or the cancel of an
\* earlier call, in the middle of the rows is never taken for the end.
EOFIsComplete ==
    clean /\ path = "iterator" /\ done /\ err = "none" /\ pc = "open"
        => sent = Rows(<<call, sends>>, made)

\* When the iterator is done, by NextRaw or by Close, the Client is free: no
\* watcher, no deadline, and, unless a read failed, a clean wire.
DoneFreesClient ==
    path = "iterator" /\ done /\ pc \in {"open", "idle"} =>
        /\ watcher = "none" /\ ~past
        /\ clean /\ err # "broken" => WireClean
=============================================================================
