----------------------------- MODULE StmtCache -----------------------------
(***************************************************************************)
(* The prepared-statement caches (pg2json/stmtcache.go) of the clients of  *)
(* one PgBouncer in transaction mode, with the calls that use them         *)
(* (runCached and prepareAndDescribe of query.go; RawQuery and the scans   *)
(* repeat the same loop).                                                  *)
(*                                                                         *)
(* PgBouncer and the backends are external: every request up to its Sync   *)
(* is one transaction, which PgBouncer gives to any backend.  A backend    *)
(* keeps the statements parsed on it, by name.  A name is s_<seq> with a   *)
(* counter per Client, so a name is modelled by that number: two clients   *)
(* use the same names.                                                     *)
(***************************************************************************)
EXTENDS Integers, FiniteSets, SequencesExt

CONSTANTS
    Clients, SQLs, Backends,
    Capacity,       \* stmtCache.max
    MaxSeq          \* bound of the model: names a client makes

ASSUME StmtCacheAssumption ==
    /\ Capacity \in Nat \ {0} /\ MaxSeq \in Nat

VARIABLES
    byKey,      \* per client: SQL -> statement name
    closed,     \* per client: names whose Close is pending
    seq,        \* per client
    server,     \* per backend: name -> SQL
    pc, sql, fromCache, second,     \* per client: its call of runCached
    ran,        \* per client: the SQL the last Execute ran, or "none"
    closeSent,  \* history, per client: names closed on some backend
    failed      \* history, per client: names whose prepare failed

cacheVars == <<byKey, closed, seq>>
callVars == <<pc, sql, fromCache, second>>
vars == <<cacheVars, server, callVars, ran, closeSent, failed>>

Names == 1..MaxSeq
Empty == [x \in {} |-> x]
Without(f, x) == [y \in DOMAIN f \ {x} |-> f[y]]
With(f, x, v) == [y \in DOMAIN f \cup {x} |-> IF y = x THEN v ELSE f[y]]

Init ==
    /\ byKey = [c \in Clients |-> Empty]
    /\ closed = [c \in Clients |-> <<>>]
    /\ seq = [c \in Clients |-> 0]
    /\ server = [b \in Backends |-> Empty]
    /\ pc = [c \in Clients |-> "idle"]
    /\ sql \in [Clients -> SQLs]
    /\ fromCache = [c \in Clients |-> FALSE]
    /\ second = [c \in Clients |-> FALSE]
    /\ ran = [c \in Clients |-> "none"]
    /\ closeSent = [c \in Clients |-> {}]
    /\ failed = [c \in Clients |-> {}]

-----------------------------------------------------------------------------
(* stmtcache.go *)

\* Variant for a mutation run: seq stays at 1.
NextNameReused(c) == IF seq[c] = 0 THEN 1 ELSE seq[c]

\* nextName.
NextName(c) == seq[c] + 1

\* invalidate: drop the entry, queue its Close.
Invalidate(c, q) ==
    /\ byKey' = [byKey EXCEPT ![c] = Without(@, q)]
    /\ closed' = IF q \in DOMAIN byKey[c]
                 THEN [closed EXCEPT ![c] = Append(@, byKey[c][q])]
                 ELSE closed

\* len(sc.byKey) >= sc.max
PutFull(c) == Cardinality(DOMAIN byKey[c]) >= Capacity

\* Variant for a mutation run: the victim's Close is not queued.
PutForgetsVictim(c, q, name) ==
    /\ \/ ~PutFull(c) /\ byKey' = [byKey EXCEPT ![c] = With(@, q, name)]
       \/ /\ PutFull(c)
          /\ \E victim \in DOMAIN byKey[c] :
               byKey' = [byKey EXCEPT ![c] = With(Without(@, victim), q, name)]
    /\ closed' = [closed EXCEPT ![c] = <<>>]

\* put, on a cache whose pending Closes were just taken: at capacity any one
\* entry makes room.
Put(c, q, name) ==
    \/ /\ ~PutFull(c)
       /\ byKey' = [byKey EXCEPT ![c] = With(@, q, name)]
       /\ closed' = [closed EXCEPT ![c] = <<>>]
    \/ /\ PutFull(c)
       /\ \E victim \in DOMAIN byKey[c] :
            /\ byKey' = [byKey EXCEPT ![c] = With(Without(@, victim), q, name)]
            /\ closed' = [closed EXCEPT ![c] = <<byKey[c][victim]>>]

-----------------------------------------------------------------------------
(* runCached *)

Call(c) ==
    /\ pc[c] = "idle"
    /\ \E q \in SQLs : sql' = [sql EXCEPT ![c] = q]
    /\ pc' = [pc EXCEPT ![c] = "get"]
    /\ second' = [second EXCEPT ![c] = FALSE]
    /\ ran' = [ran EXCEPT ![c] = "none"]
    /\ UNCHANGED <<cacheVars, server, fromCache, closeSent, failed>>

\* get finds the statement.
Hit(c) ==
    /\ pc[c] = "get" /\ sql[c] \in DOMAIN byKey[c]
    /\ fromCache' = [fromCache EXCEPT ![c] = TRUE]
    /\ pc' = [pc EXCEPT ![c] = "bind"]
    /\ UNCHANGED <<cacheVars, server, sql, second, ran, closeSent, failed>>

\* The statements of a backend after the Closes of prepareAndDescribe.
AfterCloses(c, b) ==
    [n \in DOMAIN server[b] \ ToSet(closed[c]) |-> server[b][n]]

Miss(c) ==
    /\ pc[c] = "get" /\ sql[c] \notin DOMAIN byKey[c] /\ seq[c] < MaxSeq
    /\ seq' = [seq EXCEPT ![c] = NextName(c)]
    /\ fromCache' = [fromCache EXCEPT ![c] = FALSE]
    /\ closeSent' = [closeSent EXCEPT ![c] = @ \cup ToSet(closed[c])]
    /\ UNCHANGED <<sql, second, ran>>

\* Close of what is pending, Parse, Describe, Sync; then put.
Prepare(c, b) ==
    /\ Miss(c)
    /\ NextName(c) \notin DOMAIN AfterCloses(c, b)
    /\ server' = [server EXCEPT ![b] = With(AfterCloses(c, b), NextName(c), sql[c])]
    /\ Put(c, sql[c], NextName(c))
    /\ pc' = [pc EXCEPT ![c] = "bind"]
    /\ UNCHANGED failed

\* Parse fails, on a name the backend has (42P05) or for any other reason, or
\* nothing is described: the statement then stays on the backend.
PrepareFails(c, b) ==
    /\ Miss(c)
    /\ server' \in
         {[server EXCEPT ![b] = AfterCloses(c, b)]} \cup
         {s \in {[server EXCEPT ![b] = With(AfterCloses(c, b), NextName(c), sql[c])]} :
             NextName(c) \notin DOMAIN AfterCloses(c, b)}
    /\ closed' = [closed EXCEPT ![c] = <<>>]
    /\ failed' = [failed EXCEPT ![c] = @ \cup {NextName(c)}]
    /\ UNCHANGED byKey
    /\ pc' = [pc EXCEPT ![c] = "idle"]

\* Bind, Execute, Sync on the backend of the moment.
Execute(c, b) ==
    /\ pc[c] = "bind"
    /\ byKey[c][sql[c]] \in DOMAIN server[b]
    /\ ran' = [ran EXCEPT ![c] = server[b][byKey[c][sql[c]]]]
    /\ pc' = [pc EXCEPT ![c] = "idle"]
    /\ UNCHANGED <<cacheVars, server, sql, fromCache, second, closeSent, failed>>

\* SQLSTATE 26000 on a cached statement: invalidate and retry, once.
StaleRetry(c, b) ==
    /\ pc[c] = "bind" /\ fromCache[c] /\ ~second[c]
    /\ byKey[c][sql[c]] \notin DOMAIN server[b]
    /\ Invalidate(c, sql[c])
    /\ second' = [second EXCEPT ![c] = TRUE]
    /\ pc' = [pc EXCEPT ![c] = "get"]
    /\ UNCHANGED <<seq, server, sql, fromCache, ran, closeSent, failed>>

StaleFails(c, b) ==
    /\ pc[c] = "bind" /\ (second[c] \/ ~fromCache[c])
    /\ byKey[c][sql[c]] \notin DOMAIN server[b]
    /\ pc' = [pc EXCEPT ![c] = "idle"]
    /\ UNCHANGED <<cacheVars, server, sql, fromCache, second, ran, closeSent, failed>>

\* The bound of the model is reached.
Exhausted(c) ==
    /\ pc[c] = "get" /\ sql[c] \notin DOMAIN byKey[c] /\ seq[c] = MaxSeq
    /\ UNCHANGED vars

Next ==
    \E c \in Clients :
        \/ Call(c) \/ Hit(c) \/ Exhausted(c)
        \/ \E b \in Backends : \/ Prepare(c, b) \/ PrepareFails(c, b) \/ Execute(c, b)
                               \/ StaleRetry(c, b) \/ StaleFails(c, b)

Spec == Init /\ [][Next]_vars

-----------------------------------------------------------------------------
(* Properties *)

Cached(c) == {byKey[c][q] : q \in DOMAIN byKey[c]}

\* Every variable has its type, and put keeps the cache within its capacity.
TypeOK ==
    /\ \A c \in Clients :
         /\ DOMAIN byKey[c] \subseteq SQLs /\ Cached(c) \subseteq Names
         /\ Cardinality(DOMAIN byKey[c]) <= Capacity
         /\ ToSet(closed[c]) \subseteq Names
    /\ seq \in [Clients -> 0..MaxSeq]
    /\ \A b \in Backends : DOMAIN server[b] \subseteq Names
    /\ pc \in [Clients -> {"idle", "get", "bind"}]
    /\ sql \in [Clients -> SQLs]
    /\ fromCache \in [Clients -> BOOLEAN] /\ second \in [Clients -> BOOLEAN]
    /\ ran \in [Clients -> SQLs \cup {"none"}]
    /\ \A c \in Clients : closeSent[c] \subseteq Names /\ failed[c] \subseteq Names

\* query.go, runCached: a call runs its own SQL or fails with 26000; the name in
\* the cache is never bound to another statement.
RunsOwnSQL == \A c \in Clients : ran[c] \in {"none", sql[c]}

\* Every name the counter has passed is in exactly one place: in the cache, in
\* the list of pending Closes, closed, or given up by a prepare that failed.  So
\* no statement in use is closed, none is closed twice, and put and invalidate
\* never drop a name without queueing its Close.  The last place is a gap of the
\* code: prepareAndDescribe may fail after the Parse (a statement that returns no
\* rows, query.go:342), the statement then stays on its backend and nothing ever
\* closes it.
NamesAccounted ==
    \A c \in Clients :
        /\ 1..seq[c] = Cached(c) \cup ToSet(closed[c]) \cup closeSent[c] \cup failed[c]
        /\ Cached(c) \cap (ToSet(closed[c]) \cup closeSent[c]) = {}
        /\ ToSet(closed[c]) \cap closeSent[c] = {}
        /\ failed[c] \cap (Cached(c) \cup ToSet(closed[c]) \cup closeSent[c]) = {}
        /\ \A q \in DOMAIN byKey[c], r \in DOMAIN byKey[c] :
             byKey[c][q] = byKey[c][r] => q = r
        /\ \A m \in DOMAIN closed[c], n \in DOMAIN closed[c] :
             closed[c][m] = closed[c][n] => m = n
=============================================================================
