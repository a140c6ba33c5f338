------------------------------ MODULE Session ------------------------------
(***************************************************************************)
(* What one pg2json.Client shares with the rest of the world while it runs *)
(* a call: the socket (internal/wire/conn.go), the PostgreSQL backend      *)
(* behind it, the CancelRequests of SendCancel, which travel on a          *)
(* connection of their own and arrive whenever they arrive, and the        *)
(* watcher goroutine of ctx.go.                                            *)
(*                                                                         *)
(* The backend is external.  It answers the requests in the order they     *)
(* were flushed; an answer is chosen when the request is served and sent a *)
(* message at a time, so a CancelRequest finds it at any point.  A message *)
(* is its type and what a caller could tell apart: a DataRow names the     *)
(* request that produced it and its place in the result, an ErrorResponse  *)
(* its SQLSTATE.  Messages every reader ignores (NoticeResponse,           *)
(* ParameterStatus, ParseComplete, ParameterDescription) are left out.     *)
(***************************************************************************)
EXTENDS Integers, FiniteSets, SequencesExt

CONSTANTS
    MaxRows,        \* bound of the model: rows in a result
    Window,         \* bound of the model: messages the socket buffers
    MaxInFlight     \* bound of the model: CancelRequests in flight

ASSUME SessionAssumption ==
    /\ MaxRows \in Nat /\ Window \in Nat \ {0} /\ MaxInFlight \in Nat \ {0}

VARIABLES
    reqs,       \* requests flushed and not yet served
    reply,      \* what is left of the answer to the request being served
    made,       \* history: rows in the answer served last
    inbox,      \* messages sent by the backend and not read
    alive,      \* the backend still serves this connection
    parsed,     \* it knows the statement name the cache holds
    cancels,    \* CancelRequests sent and not yet received
    ctxDone,    \* the ctx of the current call is done
    watcher,    \* the goroutine of attachContext
    past        \* SetDeadline(time.Unix(1, 0)) is in force

serverVars == <<reqs, reply, made, inbox, alive, parsed>>
ctxVars == <<ctxDone, watcher, past>>
sessionVars == <<serverVars, cancels, ctxVars>>

-----------------------------------------------------------------------------
(* Messages and requests *)

Kinds == {"prepare", "execute", "simple", "ping", "garbage"}
Request(kind, id) == [kind |-> kind, id |-> id]

Msg(t) == [t |-> t]
Ready == Msg("ReadyForQuery")
Err(code) == [t |-> "Error", code |-> code]
Row(id, i) == [t |-> "DataRow", id |-> id, i |-> i]
Rows(id, n) == [i \in 1..n |-> Row(id, i)]

\* SQLSTATEs the control of the client tells apart; "40001" stands for the
\* two codes of isRetryableSerialization, "other" for every code not named.
StaleStmt == "26000"
Serialization == "40001"
Canceled == "57014"
Codes == {StaleStmt, Serialization, Canceled, "other"}

SessionInit ==
    /\ reqs = <<>> /\ reply = <<>> /\ inbox = <<>> /\ made = 0
    /\ alive = TRUE /\ parsed = FALSE
    /\ cancels = 0
    /\ ctxDone = FALSE /\ watcher = "none" /\ past = FALSE

\* Nothing of an earlier request is left on its way to the client.
WireClean == reqs = <<>> /\ reply = <<>> /\ inbox = <<>>

-----------------------------------------------------------------------------
(* The backend (external) *)

Failures(prefix) == {prefix \o <<Err(c), Ready>> : c \in {Serialization, "other"}}

\* The answers to a request for a result of n rows.
Answers(req, n) ==
    CASE req.kind = "prepare" ->
           {<<Msg("RowDescription"), Ready>>, <<Msg("NoData"), Ready>>}
             \cup Failures(<<>>)
      [] req.kind = "execute" /\ parsed ->
           LET begun == <<Msg("BindComplete")>> \o Rows(req.id, n)
           IN {begun \o <<Msg("CommandComplete"), Ready>>} \cup Failures(begun)
      [] req.kind = "execute" /\ ~parsed -> {<<Err(StaleStmt), Ready>>}
      [] req.kind = "simple" ->
           LET begun == <<Msg("RowDescription")>> \o Rows(req.id, n)
           IN {begun \o <<Msg("CommandComplete"), Ready>>}
                \cup Failures(begun) \cup Failures(<<>>)
      [] req.kind = "ping" ->
           {<<Msg("EmptyQuery"), Ready>>} \cup Failures(<<>>)

Serve ==
    /\ alive /\ reply = <<>> /\ reqs # <<>> /\ Head(reqs).kind # "garbage"
    /\ \E n \in 0..MaxRows :
         /\ reply' \in Answers(Head(reqs), n)
         /\ made' = n
    /\ reqs' = Tail(reqs)
    /\ parsed' = (parsed \/ (Head(reqs).kind = "prepare" /\ reply'[1].t # "Error"))
    /\ UNCHANGED <<inbox, alive, cancels, ctxVars>>

Emit ==
    /\ alive /\ reply # <<>> /\ Len(inbox) < Window
    /\ inbox' = Append(inbox, Head(reply))
    /\ reply' = Tail(reply)
    /\ UNCHANGED <<reqs, made, alive, parsed, cancels, ctxVars>>

\* A malformed message is a protocol violation: FATAL, and the socket closes.
ServeGarbage ==
    /\ alive /\ reply = <<>> /\ reqs # <<>> /\ Head(reqs).kind = "garbage"
    /\ inbox' = Append(inbox, Err("other"))
    /\ alive' = FALSE /\ reqs' = <<>>
    /\ UNCHANGED <<reply, made, parsed, cancels, ctxVars>>

\* The server, a proxy or the network ends the connection.
ServerDies ==
    /\ alive
    /\ alive' = FALSE /\ reply' = <<>> /\ reqs' = <<>>
    /\ UNCHANGED <<made, inbox, parsed, cancels, ctxVars>>

\* PgBouncer in transaction mode gives the client another backend, which
\* does not know the statement.
Rotate ==
    /\ alive /\ reply = <<>> /\ parsed
    /\ parsed' = FALSE
    /\ UNCHANGED <<reqs, reply, made, inbox, alive, cancels, ctxVars>>

\* A CancelRequest names a backend, not a query: whatever runs is cancelled.
DeliverCancel ==
    /\ cancels > 0
    /\ cancels' = cancels - 1
    /\ reply' = IF reply # <<>>
                   /\ Head(reply).t \notin {"CommandComplete", "Error", "ReadyForQuery"}
                THEN <<Err(Canceled), Ready>>
                ELSE reply
    /\ UNCHANGED <<reqs, made, inbox, alive, parsed, ctxVars>>

-----------------------------------------------------------------------------
(* The socket, as the client uses it *)

\* Flush: WriteRaw of everything built since the last one.  torn: a Bind that
\* was begun and never finished is still at the front of writeBuf.
FlushRequest(kind, id, torn) ==
    IF torn THEN reqs' = Append(reqs, Request("garbage", id))
            ELSE reqs' = Append(reqs, Request(kind, id))

\* A deadline in the past, or a closed socket, fails writes and reads.  Bytes
\* bufio already holds are still served, so a read may also succeed.
IOFails == past \/ ~alive
\* A deadline leaves what was not read in the socket; a reset discards it.
LostOnError == IF alive THEN inbox ELSE <<>>

\* ReadMessage returned a message of type t.
Read(t) ==
    /\ inbox # <<>> /\ Head(inbox).t = t
    /\ inbox' = Tail(inbox)

\* SendCancel: the dial or the write may fail, and nobody looks.
SendCancel ==
    cancels' \in {cancels} \cup {n \in {cancels + 1} : n <= MaxInFlight}

-----------------------------------------------------------------------------
(* ctx.go *)

\* attachContext: a context that can be done gets a watcher.
AttachContext ==
    /\ ctxDone' = FALSE
    /\ watcher' \in {"none", "watching"}
    /\ past' = past

\* The caller cancels, or the deadline of the call passes.
CtxExpires ==
    /\ watcher = "watching" /\ ~ctxDone
    /\ ctxDone' = TRUE
    /\ UNCHANGED <<serverVars, cancels, watcher, past>>

WatcherCancels ==
    /\ watcher = "watching" /\ ctxDone
    /\ SendCancel
    /\ watcher' = "cancelling"
    /\ UNCHANGED <<serverVars, ctxDone, past>>

\* Variant for a mutation run: the deadline is not set.
WatcherDeadlineUnset ==
    /\ watcher = "cancelling"
    /\ watcher' = "exited"
    /\ UNCHANGED <<serverVars, cancels, ctxDone, past>>

WatcherDeadline ==
    /\ watcher = "cancelling"
    /\ past' = TRUE
    /\ watcher' = "exited"
    /\ UNCHANGED <<serverVars, cancels, ctxDone>>

\* Variant for a mutation run: the deadline is not cleared.
DetachContextKeepsDeadline ==
    /\ watcher # "cancelling"
    /\ watcher' = "none"
    /\ UNCHANGED <<ctxDone, past>>

\* detachContext: close(stop), wait for the watcher, clear the deadline.  A
\* watcher that has both channels ready may still choose ctx.Done, so this is
\* enabled, but not forced, while it is watching.
DetachContext ==
    /\ watcher # "cancelling"
    /\ watcher' = "none"
    /\ past' = IF watcher = "none" THEN past ELSE FALSE
    /\ UNCHANGED ctxDone

-----------------------------------------------------------------------------
Environment ==
    \/ Serve \/ Emit \/ ServeGarbage \/ ServerDies \/ Rotate \/ DeliverCancel
    \/ CtxExpires \/ WatcherCancels \/ WatcherDeadline

SessionTypeOK ==
    /\ \A n \in DOMAIN reqs : reqs[n].kind \in Kinds
    /\ \A n \in DOMAIN inbox : inbox[n].t = "Error" => inbox[n].code \in Codes
    /\ made \in 0..MaxRows
    /\ Len(inbox) \in 0..(Window + 1)
    /\ alive \in BOOLEAN /\ parsed \in BOOLEAN
    /\ cancels \in 0..MaxInFlight
    /\ ctxDone \in BOOLEAN /\ past \in BOOLEAN
    /\ watcher \in {"none", "watching", "cancelling", "exited"}
=============================================================================
