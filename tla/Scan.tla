-------------------------------- MODULE Scan --------------------------------
(***************************************************************************)
(* ScanStruct and ScanStructBatched (pg2json/scan.go), on the same Client  *)
(* as the queries of Query.tla: paths "scan" and "batched".  They share    *)
(* the statement cache and prepareAndDescribe with runCached, and have     *)
(* readers of their own, bindExecuteScan and bindExecuteScanBatched.       *)
(*                                                                         *)
(* The rows are written into the slots of one slice.  A row has two        *)
(* columns: one that is never NULL, and an integer that is NULL in the     *)
(* rows of NullRows; the setter of a non-pointer field leaves it alone for *)
(* a NULL, so what it holds then is what the slot held before.  sent is    *)
(* what the caller or the callback was given, rowCount the rows in the     *)
(* slice.                                                                  *)
(***************************************************************************)
EXTENDS Query

CONSTANTS
    InitialCap,     \* RowsHint (16 if it is 0)
    BatchSize,
    NullRows,       \* rows of a result whose second column is NULL
    CallbackErrors  \* what the callback may return: a SQLSTATE, or "other"

ASSUME ScanAssumption ==
    /\ InitialCap \in Nat \ {0} /\ BatchSize \in Nat \ {0}
    /\ NullRows \subseteq 1..MaxRows /\ CallbackErrors \subseteq Codes

VARIABLES
    slots,      \* the slice: slots[n] is a struct T
    cbErr,      \* of bindExecuteScanBatched
    hasRefused  \* history: the callback has refused a batch of this call

scanVars == <<slots, cbErr, hasRefused>>
allVars == <<vars, scanVars>>

ScanPaths == {"scan", "batched"}

Blank == [row |-> <<>>, val |-> 0]

ScanInit == Init /\ slots = <<>> /\ cbErr = "none" /\ hasRefused = FALSE

\* What the reader of a scan never touches.
scanFrame == <<reqs, reply, made, alive, parsed, ctxVars, callVars, attempt, fromCache,
               torn, sends, plan, out, clean>>

-----------------------------------------------------------------------------
(* The slice *)

Blanks(n) == [i \in 1..n |-> Blank]

\* Variant for a mutation run: the old rows are not copied.
GrownEmpty(s) == Blanks(2 * Len(s))

\* Twice the slice, with the rows it had.
Grown(s) == s \o Blanks(Len(s))

\* fillStructRow of message m on slot n.
Fill(s, n, m) ==
    [s EXCEPT ![n] = [row |-> <<m.id, m.i>>,
                      val |-> IF m.i \in NullRows THEN @.val ELSE m.i]]

\* Variant for a mutation run: nothing is cleared.
ClearedNothing(s) == s

\* clearBatchSlots.
Cleared(s) == Blanks(Len(s))

\* The rows in the first n slots.
Taken(s, n) == SubSeq(s, 1, n)

-----------------------------------------------------------------------------
(* Until Bind *)

ScanBegin ==
    /\ Begin
    /\ hasRefused' = FALSE
    /\ UNCHANGED <<slots, cbErr>>

\* T is not a struct, or buildStructPlan finds a column no field can hold.
PlanFails ==
    /\ path \in ScanPaths
    /\ \/ pc = "send" /\ sends = 0
       \/ pc \in {"send", "bind"} /\ cached
    /\ Return("shape")
    /\ UNCHANGED <<sessionVars, callVars, attempt, restale, fromCache, cached, torn, sends,
                   plan, pgError, outVars, clean, scanVars>>

\* Bind, Execute, Sync; then the slice is made.
StartScan ==
    /\ path \in ScanPaths
    /\ Execute("scan")
    /\ slots' = Blanks(IF path = "scan" THEN InitialCap ELSE BatchSize)
    /\ cbErr' = "none"
    /\ UNCHANGED hasRefused

-----------------------------------------------------------------------------
(* Reading the answer *)

\* Variant for a mutation run: rows go on to the callback.
RefusedNever == FALSE

\* The callback has refused a batch: what is left is drained.
Refused == cbErr # "none"

ScanSkips ==
    /\ pc = "scan"
    /\ \/ \E t \in {"BindComplete", "CommandComplete", "EmptyQuery", "RowDescription"} :
            Read(t)
       \/ Refused /\ Read("DataRow")
    /\ UNCHANGED <<scanFrame, cancels, pc, result, restale, cached, pgError, rowCount, sent,
                   scanVars>>

\* ReadMessage fails; the message has no case; a RowDescription does not parse or
\* does not fit T; the row does not decode.  The rest stays unread.
ScanFails ==
    /\ pc = "scan"
    /\ \/ IOFails /\ inbox' = LostOnError
       \/ Read("NoData") \/ Read("RowDescription")
       \/ ~Refused /\ Read("DataRow")
    /\ Return("broken")
    /\ UNCHANGED <<scanFrame, cancels, restale, cached, pgError, rowCount, sent, scanVars>>

ScanError ==
    /\ pc = "scan"
    /\ Read("Error")
    /\ pgError' = Head(inbox).code
    /\ UNCHANGED <<scanFrame, cancels, pc, result, restale, cached, rowCount, sent, scanVars>>

\* A row of ScanStruct: grow the slice if it is full.
ScanRow ==
    /\ pc = "scan" /\ path = "scan"
    /\ Read("DataRow")
    /\ slots' = Fill(IF rowCount = Len(slots) THEN Grown(slots) ELSE slots,
                     rowCount + 1, Head(inbox))
    /\ rowCount' = rowCount + 1
    /\ UNCHANGED <<scanFrame, cancels, pc, result, restale, cached, pgError, sent, cbErr,
                   hasRefused>>

\* A row of ScanStructBatched that leaves room in the batch.
BatchRow ==
    /\ pc = "scan" /\ path = "batched" /\ ~Refused /\ rowCount + 1 < BatchSize
    /\ Read("DataRow")
    /\ slots' = Fill(slots, rowCount + 1, Head(inbox))
    /\ rowCount' = rowCount + 1
    /\ UNCHANGED <<scanFrame, cancels, pc, result, restale, cached, pgError, sent, cbErr,
                   hasRefused>>

\* The row fills the batch, and the callback takes it ...
BatchFull ==
    /\ pc = "scan" /\ path = "batched" /\ ~Refused /\ rowCount + 1 = BatchSize
    /\ Read("DataRow")
    /\ LET filled == Fill(slots, BatchSize, Head(inbox))
       IN  /\ sent' = sent \o Taken(filled, BatchSize)
           /\ slots' = Cleared(filled)
    /\ rowCount' = 0
    /\ UNCHANGED <<scanFrame, cancels, pc, result, restale, cached, pgError, cbErr,
                   hasRefused>>

\* Variant for a mutation run: the scan returns at once.
StopReadingReturns == Return("callback")

\* After a refused batch the reader goes on to ReadyForQuery.
StopReading == UNCHANGED <<pc, result>>

\* ... or refuses it: CancelRequest, then drain.
BatchRefused ==
    /\ pc = "scan" /\ path = "batched" /\ ~Refused /\ rowCount + 1 = BatchSize
    /\ Read("DataRow")
    /\ slots' = Fill(slots, BatchSize, Head(inbox))
    /\ sent' = sent \o Taken(slots', BatchSize)
    /\ rowCount' = BatchSize
    /\ cbErr' \in CallbackErrors /\ hasRefused' = TRUE
    /\ SendCancel
    /\ StopReading
    /\ UNCHANGED <<scanFrame, restale, cached, pgError>>

-----------------------------------------------------------------------------
(* ReadyForQuery *)

\* The reader returns err: 26000 on a cached statement is retried once.
ScanReturns(res, code) ==
    IF fromCache /\ ~restale /\ code = StaleStmt
    THEN pc' = "send" /\ restale' = TRUE /\ cached' = FALSE /\ UNCHANGED result
    ELSE Return(res) /\ UNCHANGED <<restale, cached>>

\* Variant for a mutation run: the error of the server is ignored.
FailureUnchecked == <<"callback", cbErr>>

\* The error the reader has at ReadyForQuery: of the callback, of the server.
Failure == IF Refused THEN <<"callback", cbErr>> ELSE <<"pg", pgError>>

ScanReadyError ==
    /\ pc = "scan" /\ Failure[2] # "none"
    /\ Read("ReadyForQuery")
    /\ ScanReturns(Failure[1], Failure[2])
    /\ UNCHANGED <<scanFrame, cancels, pgError, rowCount, sent, scanVars>>

\* The slice is returned, or the last batch is taken.
ScanReadyOK ==
    /\ pc = "scan" /\ Failure[2] = "none"
    /\ Read("ReadyForQuery")
    /\ sent' = sent \o Taken(slots, rowCount)
    /\ slots' = IF path = "batched" THEN Cleared(slots) ELSE slots
    /\ rowCount' = IF path = "batched" THEN 0 ELSE rowCount
    /\ Return("ok")
    /\ UNCHANGED <<scanFrame, cancels, restale, cached, pgError, cbErr, hasRefused>>

\* The callback refuses the last batch.
LastRefused ==
    /\ pc = "scan" /\ path = "batched" /\ Failure[2] = "none" /\ rowCount > 0
    /\ Read("ReadyForQuery")
    /\ sent' = sent \o Taken(slots, rowCount)
    /\ \E code \in CallbackErrors : ScanReturns("callback", code)
    /\ hasRefused' = TRUE
    /\ UNCHANGED <<scanFrame, cancels, pgError, rowCount, slots, cbErr>>

-----------------------------------------------------------------------------
ScanNext ==
    \/ ScanBegin \/ PlanFails \/ StartScan
    \/ ScanSkips \/ ScanFails \/ ScanError
    \/ ScanRow \/ BatchRow \/ BatchFull \/ BatchRefused
    \/ ScanReadyError \/ ScanReadyOK \/ LastRefused
    \/ (Client \/ Refuse \/ Stopped \/ (Environment /\ UNCHANGED queryVars))
       /\ UNCHANGED scanVars

ScanSpec == ScanInit /\ [][ScanNext]_allVars

-----------------------------------------------------------------------------
(* Properties *)

Scanning == clean /\ path \in ScanPaths /\ result # "refused"

\* The first n rows of the request sent last, as structs.
Structs(n) ==
    [i \in 1..n |-> [row |-> <<<<call, sends>>, i>>, val |-> IF i \in NullRows THEN 0 ELSE i]]

\* What the caller was given and what the slice still holds for it.
Given ==
    IF pc = "scan" /\ ~Refused THEN sent \o Taken(slots, rowCount) ELSE sent

Keys(s) == [n \in DOMAIN s |-> s[n].row]

\* scan.go, the two readers: through growth of the slice, reuse of the batch and
\* a re-prepare, the caller gets the rows of one execution, each once, in order.
ScanInOrder == Scanning => IsPrefix(Keys(Given), Keys(Structs(made)))

\* ScanStruct: "Non-pointer fields stay zero on a NULL cell": no value of an
\* earlier row shows through the reused slot.
NullIsZero ==
    Scanning => \A n \in DOMAIN Given : Given[n].row[2] \in NullRows => Given[n].val = 0

\* A scan that returns nil has given every row: neither an error of the server
\* nor the cancel of an earlier call in the middle of the rows looks like the end.
ScanIsComplete == Scanning /\ result = "ok" => sent = Structs(made)

\* ScanStructBatched: the refusal of a batch "drains to ReadyForQuery so the
\* connection is reusable"; so do all returns but the "broken" ones.  Nothing is
\* left in writeBuf either, but after a refused argument, and after a struct that
\* does not fit, which may come behind one.
ScanLeavesWireClean ==
    Scanning /\ result \notin {"none", "broken"} =>
        WireClean /\ (result \notin {"args", "shape"} => ~torn)

\* ScanStructBatched: a non-nil error of the callback "aborts the scan": from
\* then on the callback is given nothing more by that call, in whatever attempt.
\* The code keeps this only because an error of a callback is seldom one that
\* isStaleStmtError takes for SQLSTATE 26000 of this session: a callback that
\* returns such an error (it queried another Client) sends the call into its
\* second attempt, where it is given batches again, and this is false.
\* CallbackErrors is where an instance says that it does not.
RefusalIsFinal ==
    [][hasRefused /\ path \in ScanPaths /\ call' = call => sent' = sent]_allVars
=============================================================================
