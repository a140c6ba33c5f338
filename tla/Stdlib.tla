------------------------------- MODULE Stdlib -------------------------------
(***************************************************************************)
(* The database/sql driver of pg2json/stdlib: Conn, Stmt and pgRows on top *)
(* of the Iterator, and the two things database/sql does by itself with    *)
(* them, which are external.  sql.Rows calls Close when Next returned an   *)
(* error or io.EOF, and a goroutine (awaitDone) calls it when the ctx of   *)
(* the query is done; Close and Next exclude each other.  sql.DB takes the *)
(* connection back after every call and asks IsValid whether to keep it.   *)
(*                                                                         *)
(* A behaviour uses one API: "native" is a program on the Client itself    *)
(* (Iterator.tla with the queries of Query.tla), "sql" goes through the    *)
(* adapter.                                                                *)
(***************************************************************************)
EXTENDS Iterator

VARIABLES
    api,        \* the API of this behaviour
    client,     \* Conn.client is not nil
    bad,        \* Conn.bad
    failed      \* pgRows.Next failed on a row it could not split

sqlVars == <<api, client, bad, failed>>
stdVars == <<allVars, sqlVars>>

\* Driver.Open, connector.Connect.
StdlibInit ==
    /\ IteratorInit
    /\ api \in {"native", "sql"}
    /\ client = TRUE /\ bad = FALSE /\ failed = FALSE

\* Conn.IsValid, asked by sql.DB when the connection comes back.
IsValid == client /\ ~bad

\* Conn.QueryContext and Stmt.QueryContext call RawQuery, Conn.Ping Ping.
MayCall(p) == api = "sql" => IsValid /\ p \in {"iterator", "ping"}

StdlibBegin ==
    /\ IteratorBegin
    /\ MayCall(path')
    /\ failed' = FALSE
    /\ UNCHANGED <<api, client, bad>>

\* namedToAny refuses named parameters, and every write method answers
\* errReadOnly; rejectNonSelect refuses as it does in the native API.
StdlibRefuse ==
    /\ Refuse /\ IsValid
    /\ UNCHANGED <<itVars, sqlVars>>

\* Conn.Close: Terminate, and the socket is closed.
ConnClose ==
    /\ api = "sql" /\ pc = "idle" /\ client
    /\ client' = FALSE
    /\ alive' = FALSE /\ reqs' = <<>> /\ reply' = <<>> /\ inbox' = <<>>
    /\ UNCHANGED <<made, parsed, cancels, ctxVars, queryVars, itVars, api, bad, failed>>

-----------------------------------------------------------------------------
(* pgRows *)

\* sql.Rows is over and closes: Next returned an error or io.EOF.
Over == done \/ err # "none" \/ failed

\* pgRows.Next asks for a row; sql.Rows never does after an error.
RowsNext ==
    /\ NextRaw
    /\ api = "sql" => ~Over
    /\ UNCHANGED sqlVars

\* A row of another query need not have the columns of this one's plan.
RowMismatch ==
    /\ api = "sql" /\ pc = "reading"
    /\ Read("DataRow") /\ Head(inbox).id[1] # call
    /\ failed' = TRUE
    /\ rowCount' = rowCount + 1
    /\ pc' = "open"
    /\ UNCHANGED <<itFrame, cancels, ctxVars, result, restale, fromCache, cached, pgError,
                   sent, done, err, api, client, bad>>

\* Variant for a mutation run: only rows that have ended are closed.
RowsCloseEnded ==
    /\ CloseDone
    /\ UNCHANGED sqlVars

\* pgRows.Close is Iterator.Close.
RowsClose ==
    /\ CloseDone \/ CloseEarly
    /\ UNCHANGED sqlVars

-----------------------------------------------------------------------------
StdlibStep == RowMismatch \/ (IteratorStep /\ UNCHANGED sqlVars)

ClientStep == Client /\ UNCHANGED <<itVars, sqlVars>>

StdlibNext ==
    \/ StdlibBegin \/ StdlibRefuse \/ ConnClose
    \/ RowsNext \/ RowsClose \/ StdlibStep \/ ClientStep
    \/ ~client /\ UNCHANGED stdVars
    \/ (Stopped \/ (Environment /\ UNCHANGED queryVars)) /\ UNCHANGED <<itVars, sqlVars>>

StdlibSpec == StdlibInit /\ [][StdlibNext]_stdVars

\* The goroutines of the client run, and so do sql.Rows and its awaitDone.
\* Nothing is assumed of the server, which may stop answering without closing
\* the socket, of the program, or of the arrival of a CancelRequest.
StdlibFairSpec ==
    /\ StdlibSpec
    /\ WF_stdVars(StdlibStep \/ ClientStep)
    /\ WF_stdVars((WatcherCancels \/ WatcherDeadline) /\ UNCHANGED <<queryVars, itVars, sqlVars>>)
    /\ WF_stdVars(api = "sql" /\ (Over \/ ctxDone) /\ RowsClose)

-----------------------------------------------------------------------------
(* Properties *)

\* A query of database/sql whose ctx is done gives its connection back, at
\* whatever point of RawQuery, Next or Close it stands and even if the server
\* never answers again and the program never closes its Rows: the watcher's
\* deadline ends the read, sql.Rows closes, Close cannot block in its drain.
\* The exception is the retry of RawQuery after 26000, which runs without the
\* watcher its first attempt released.
SqlCancelReturns ==
    api = "sql" /\ ctxDone /\ watcher # "none"
        ~> pc = "idle" \/ (restale /\ watcher = "none")

-----------------------------------------------------------------------------
(* What a comment says and the code does not do *)

\* iter.go: Close "drains any unread rows and returns the underlying connection
\* to a usable state".  When the Rows of a query are closed and IsValid accepts
\* the connection for the next query, its wire has nothing of the old one left.
CloseLeavesUsable ==
    api = "sql" /\ path = "iterator" /\ pc = "idle" /\ done /\ IsValid /\ alive => WireClean
=============================================================================
