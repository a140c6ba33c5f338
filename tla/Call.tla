-------------------------------- MODULE Call --------------------------------
(***************************************************************************)
(* What a call on a Client promises its program, whatever the server, the  *)
(* network and the contexts do: the output of ONE execution, delivered in  *)
(* order and never taken back; all of it when the call returns nil; and,   *)
(* when it ends with one of the results of Good, a connection as good as   *)
(* the call found it.  After any other result the connection may be of no  *)
(* use, whatever the error says.  Query.tla implements it.                 *)
(***************************************************************************)
EXTENDS Integers, SequencesExt

CONSTANTS
    Good,               \* results that keep a usable connection usable
    Whole(_, _, _)      \* the output of an execution: call, attempt, rows

VARIABLES
    busy,       \* a call is under way
    call,       \* calls so far
    query,      \* the call is a query, not a ping
    exec,       \* executions the call has started
    rows,       \* rows of the execution the server ran last
    sent,       \* items delivered
    result,     \* "none" until the call has one
    usable      \* a call that begins here finds nothing of an earlier one

callVars == <<busy, call, query, exec, rows, sent, result, usable>>

Init ==
    /\ busy = FALSE /\ call = 0 /\ query \in BOOLEAN /\ exec = 0 /\ rows = 0
    /\ sent = <<>> /\ result = "none" /\ usable = TRUE

\* A connection that a good call left is a connection a call finds.
Begin ==
    /\ ~busy
    /\ call' = call + 1 /\ sent' = <<>>
    /\ \/ busy' = TRUE /\ result' = "none" /\ query' \in BOOLEAN /\ exec' = 0
       \/ busy' = FALSE /\ result' = "refused" /\ UNCHANGED <<query, exec>>
    /\ usable' \in BOOLEAN /\ (usable => usable')
    /\ UNCHANGED rows

\* Executions are started, and rows produced, behind the caller's back; once
\* something was delivered the execution is settled.
Executes ==
    /\ busy /\ exec' = exec + 1 /\ sent = <<>>
    /\ UNCHANGED <<busy, call, query, rows, sent, result, usable>>

Produces ==
    /\ rows' # rows /\ (usable => sent = <<>>)
    /\ UNCHANGED <<busy, call, query, exec, sent, result, usable>>

\* More of the same execution's output, none of it of another.
Extended ==
    /\ IsPrefix(sent, sent')
    /\ usable => IsPrefix(sent', Whole(call, exec, rows))

Deliver ==
    /\ busy /\ result = "none" /\ Extended
    /\ UNCHANGED <<busy, call, query, exec, rows, result, usable>>

Return ==
    /\ busy /\ result = "none" /\ result' # "none" /\ Extended
    /\ usable /\ query /\ result' = "ok" => sent' = Whole(call, exec, rows)
    /\ UNCHANGED <<busy, call, query, exec, rows, usable>>

End ==
    /\ busy /\ result # "none"
    /\ busy' = FALSE
    /\ usable' = (usable /\ result \in Good)
    /\ UNCHANGED <<call, query, exec, rows, sent, result>>

Next == Begin \/ Executes \/ Produces \/ Deliver \/ Return \/ End

Spec == Init /\ [][Next]_callVars
=============================================================================
