----------------------------- MODULE BufferPool -----------------------------
(***************************************************************************)
(* internal/bufferpool and the calls that use it, from several goroutines: *)
(* QueryJSON, which encodes into a pooled buffer and returns a copy, and   *)
(* the streaming calls, whose flushingWriter encodes into one and writes   *)
(* it downstream.                                                          *)
(*                                                                         *)
(* A buffer is a backing array of Arrays; data is what has been written in *)
(* it, by whom.  An array that nobody refers to is garbage, and may be     *)
(* allocated again.  sync.Pool is external: it hands out any array it      *)
(* holds, or a new one, and forgets arrays when it likes.                  *)
(***************************************************************************)
EXTENDS Integers, FiniteSets, Sequences

CONSTANTS
    Callers,        \* goroutines
    Arrays,         \* backing arrays
    MaxWrites,      \* bound: writes of one call
    Cap             \* the value pool.New gives to SetMaxLive

VARIABLES
    bpc,        \* where each caller stands
    held,       \* the array of each caller's buffer
    writes,     \* writes of the call so far
    answer,     \* the array of the bytes QueryJSON returned to the caller
    data,       \* the contents of each array: who wrote it
    pooled,     \* how often sync.Pool holds each array
    live, maxLive

bufVars == <<bpc, held, writes, answer, data, pooled, live, maxLive>>

None == 0

ASSUME BufferAssumption == None \notin Arrays

\* A caller has a buffer and encodes rows into it.
Encoding == {"query", "stream"}

BufferInit ==
    /\ bpc = [c \in Callers |-> "idle"]
    /\ held = [c \in Callers |-> None] /\ answer = [c \in Callers |-> None]
    /\ writes = [c \in Callers |-> 0]
    /\ data = [a \in Arrays |-> <<>>]
    /\ pooled = [a \in Arrays |-> 0]
    /\ live = 0 /\ maxLive = 0

\* Nobody refers to the array.
Garbage(a) ==
    pooled[a] = 0 /\ \A c \in Callers : held[c] # a /\ answer[c] # a

\* pool.New: SetMaxLive.
SetMaxLive ==
    /\ maxLive = 0 /\ maxLive' = Cap
    /\ UNCHANGED <<bpc, held, writes, answer, data, pooled, live>>

-----------------------------------------------------------------------------
(* Get *)

\* Get looks at the cap, and decides whether to count the buffer.
GetLoad(c) ==
    /\ bpc[c] = "idle"
    /\ bpc' = [bpc EXCEPT ![c] =
                IF maxLive = 0 THEN "take" ELSE IF live >= maxLive THEN "make" ELSE "count"]
    /\ answer' = [answer EXCEPT ![c] = None]
    /\ UNCHANGED <<held, writes, data, pooled, live, maxLive>>

GetCount(c) ==
    /\ bpc[c] = "count"
    /\ live' = live + 1
    /\ bpc' = [bpc EXCEPT ![c] = "take"]
    /\ UNCHANGED <<held, writes, answer, data, pooled, maxLive>>

\* QueryJSON, or newFlushWriter for one of the streaming calls.
StartCall(c) ==
    /\ \E kind \in Encoding : bpc' = [bpc EXCEPT ![c] = kind]
    /\ writes' = [writes EXCEPT ![c] = 0]

\* A buffer of the pool keeps its bytes, and is cut to length 0.
GetTake(c) ==
    /\ bpc[c] = "take"
    /\ \E a \in Arrays :
        /\ pooled[a] > 0
        /\ pooled' = [pooled EXCEPT ![a] = @ - 1]
        /\ data' = [data EXCEPT ![a] = <<>>]
        /\ held' = [held EXCEPT ![c] = a]
    /\ StartCall(c)
    /\ UNCHANGED <<answer, live, maxLive>>

\* make, by Get past the cap or by the New of sync.Pool.
GetMake(c) ==
    /\ bpc[c] \in {"make", "take"}
    /\ \E a \in Arrays :
        /\ Garbage(a)
        /\ data' = [data EXCEPT ![a] = <<>>]
        /\ held' = [held EXCEPT ![c] = a]
    /\ StartCall(c)
    /\ UNCHANGED <<answer, pooled, live, maxLive>>

-----------------------------------------------------------------------------
(* The call *)

\* A row is appended, in place or in a larger array (append, GrowForRow).
Encode(c) ==
    /\ bpc[c] \in Encoding /\ writes[c] < MaxWrites
    /\ writes' = [writes EXCEPT ![c] = @ + 1]
    /\ \/ /\ data' = [data EXCEPT ![held[c]] = Append(@, c)]
          /\ UNCHANGED held
       \/ \E a \in Arrays :
            /\ Garbage(a)
            /\ data' = [data EXCEPT ![a] = Append(data[held[c]], c)]
            /\ held' = [held EXCEPT ![c] = a]
    /\ UNCHANGED <<bpc, answer, pooled, live, maxLive>>

\* Variant for a mutation run: QueryJSON returns the pooled buffer itself.
CopyOutAlias(c, a) == a = held[c] /\ UNCHANGED data

\* QueryJSON copies the bytes into an array of the caller's.
CopyOut(c, a) == Garbage(a) /\ data' = [data EXCEPT ![a] = data[held[c]]]

QueryReturns(c) ==
    /\ bpc[c] = "query"
    /\ \E a \in Arrays : CopyOut(c, a) /\ answer' = [answer EXCEPT ![c] = a]
    /\ bpc' = [bpc EXCEPT ![c] = "put"]
    /\ UNCHANGED <<held, writes, pooled, live, maxLive>>

\* runQuery fails: QueryJSON returns no bytes, and Put is deferred.
QueryFails(c) ==
    /\ bpc[c] = "query"
    /\ bpc' = [bpc EXCEPT ![c] = "put"]
    /\ UNCHANGED <<held, writes, answer, data, pooled, live, maxLive>>

\* Flush: the bytes went downstream, and the buffer is cut to length 0.
StreamFlushes(c) ==
    /\ bpc[c] = "stream" /\ data[held[c]] # <<>>
    /\ data' = [data EXCEPT ![held[c]] = <<>>]
    /\ UNCHANGED <<bpc, held, writes, answer, pooled, live, maxLive>>

\* The downstream write failed: releaseBuf puts the buffer back, once.
StreamFails(c) ==
    /\ bpc[c] = "stream" /\ data[held[c]] # <<>>
    /\ bpc' = [bpc EXCEPT ![c] = "put"]
    /\ UNCHANGED <<held, writes, answer, data, pooled, live, maxLive>>

\* A stream that succeeds never calls releaseBuf: its buffer is dropped, and
\* live keeps counting it.
StreamReturns(c) ==
    /\ bpc[c] = "stream"
    /\ bpc' = [bpc EXCEPT ![c] = "idle"]
    /\ held' = [held EXCEPT ![c] = None]
    /\ UNCHANGED <<writes, answer, data, pooled, live, maxLive>>

-----------------------------------------------------------------------------
(* Put *)

\* The count first, then the pool.
PutCount(c) ==
    /\ bpc[c] = "put"
    /\ live' = IF maxLive > 0 THEN live - 1 ELSE live
    /\ bpc' = [bpc EXCEPT ![c] = "give"]
    /\ UNCHANGED <<held, writes, answer, data, pooled, maxLive>>

\* A buffer of more than 1 MiB is dropped.
PutGive(c) ==
    /\ bpc[c] = "give"
    /\ \/ pooled' = [pooled EXCEPT ![held[c]] = @ + 1]
       \/ UNCHANGED pooled
    /\ bpc' = [bpc EXCEPT ![c] = "idle"]
    /\ held' = [held EXCEPT ![c] = None]
    /\ UNCHANGED <<writes, answer, data, live, maxLive>>

\* sync.Pool loses an array to the garbage collector.
PoolForgets ==
    /\ \E a \in Arrays : pooled[a] > 0 /\ pooled' = [pooled EXCEPT ![a] = @ - 1]
    /\ UNCHANGED <<bpc, held, writes, answer, data, live, maxLive>>

BufferNext ==
    \/ SetMaxLive \/ PoolForgets
    \/ \E c \in Callers :
        \/ GetLoad(c) \/ GetCount(c) \/ GetTake(c) \/ GetMake(c)
        \/ Encode(c) \/ QueryReturns(c) \/ QueryFails(c)
        \/ StreamFlushes(c) \/ StreamFails(c) \/ StreamReturns(c)
        \/ PutCount(c) \/ PutGive(c)

BufferSpec == BufferInit /\ [][BufferNext]_bufVars

-----------------------------------------------------------------------------
(* Properties *)

\* While a call encodes, its buffer holds its own bytes and nothing else, and the
\* bytes QueryJSON returned stay what they were, whatever other calls do with
\* the buffer that went back to the pool.
BytesArePrivate ==
    \A c \in Callers :
        /\ bpc[c] \in Encoding => \A i \in 1..Len(data[held[c]]) : data[held[c]][i] = c
        /\ answer[c] # None =>
            Len(data[answer[c]]) = writes[c] /\ \A i \in 1..writes[c] : data[answer[c]][i] = c
=============================================================================
