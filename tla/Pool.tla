-------------------------------- MODULE Pool --------------------------------
(***************************************************************************)
(* The connection pool of pg2json/pool/pool.go.                            *)
(*                                                                         *)
(* Everything the code does under p.mu is one action: the fields of Pool   *)
(* (idle, open, inUse, closed, draining, waiters) change only there.  What *)
(* happens between two critical sections of one goroutine is the gap       *)
(* between two actions:                                                    *)
(*                                                                         *)
(*   - pg2json.Open runs outside the lock (pc "opening", repl "opening");  *)
(*   - Conn.Discard gives up inUse in one critical section and open in the *)
(*     next (pc "discard", "rediscard");                                   *)
(*   - a released connection travels through a waiter's channel; the       *)
(*     releaser has already decremented inUse and the waiter increments it *)
(*     when it receives;                                                   *)
(*   - Drain and Close empty the pool under the lock and close the         *)
(*     connections and answer the waiters afterwards.                      *)
(*                                                                         *)
(* Steps that touch nothing another goroutine can see are joined to the    *)
(* critical section they follow: the send on a waiter's channel (capacity  *)
(* one, a single sender: see OneAnswer), Client.Close, and the receive     *)
(* before inUse++.  The select of acquireOnce may take ctx.Done whether or *)
(* not its channel is full, so joining the send hides no outcome.          *)
(*                                                                         *)
(* Time is abstract: an entry may be found too old, or fail its ping, at   *)
(* any check.  The one fact about time the control depends on is kept: an  *)
(* entry made by discard's goroutine has the zero bornAt (zeroBorn).       *)
(***************************************************************************)
EXTENDS Integers, FiniteSets, SequencesExt

CONSTANTS
    Callers,        \* goroutines that use the pool
    Conns,          \* *pg2json.Client values
    Chans,          \* the channels of acquireOnce
    MaxConns,       \* Config.MaxConns
    MinIdle,        \* Config.MinIdle
    LifetimeCheck,  \* Config.MaxConnLifetime > 0
    Calls,          \* which of Drain, WaitIdle and Close the program calls
    MaxRetries,     \* const maxRetries of Acquire (3 in the code)
    MaxCancels      \* bound of the model: decrements by failed replacements

ASSUME PoolAssumption ==
    /\ IsFiniteSet(Callers) /\ IsFiniteSet(Conns) /\ IsFiniteSet(Chans)
    /\ MaxConns \in Nat \ {0}
    /\ MinIdle \in Nat
    /\ LifetimeCheck \in BOOLEAN
    /\ Calls \subseteq {"Drain", "WaitIdle", "Close"}
    /\ MaxRetries \in Nat \ {0}
    /\ MaxCancels \in Nat
    /\ {"empty", "nil"} \cap (Conns \cup Chans) = {}

VARIABLES
    idle, open, inUse, closed, draining, waiters,   \* the fields of Pool
    live,       \* clients opened and not closed
    zeroBorn,   \* live clients whose entry has the zero bornAt
    buf,        \* content of each channel: "empty", "nil" or a client
    pc, conn, chan, tries,  \* per caller: control, client held, channel awaited
    repl,       \* per channel: the goroutine of discard that must answer it
    spc,        \* the calls of Drain, WaitIdle and Close
    gpc,        \* the goroutines of Drain and WaitIdle that wait on idleCond
    taken, owed,    \* clients and channels a Drain or Close has taken away
    reaper,     \* the reaper goroutine
    cancelled   \* history: open-- by failed replacements

poolVars == <<idle, open, inUse, closed, draining, waiters>>
clientVars == <<live, zeroBorn>>
callerVars == <<pc, conn, chan, tries>>
shutVars == <<spc, taken, owed>>
vars == <<poolVars, clientVars, buf, callerVars, repl, shutVars, gpc, reaper,
          cancelled>>

Shutters == {"Drain", "Close"}
Watchers == {"Drain", "WaitIdle"}

\* Acquire is running: the caller holds a slot counted in inUse.
Counted == {"opening", "checking", "using"}
\* The caller has a client in its hands.
Holding == {"checking", "using", "closing"}
PCs == {"out", "retry", "waiting", "discard", "rediscard"} \cup Counted \cup Holding

TypeOK ==
    /\ idle \in Seq(Conns) /\ waiters \in Seq(Chans)
    /\ open \in Int /\ inUse \in Int /\ cancelled \in Nat
    /\ closed \in BOOLEAN /\ draining \in BOOLEAN
    /\ live \subseteq Conns /\ zeroBorn \subseteq Conns
    /\ buf \in [Chans -> Conns \cup {"empty", "nil"}]
    /\ pc \in [Callers -> PCs]
    /\ conn \in [Callers -> Conns \cup {"nil"}]
    /\ chan \in [Callers -> Chans \cup {"nil"}]
    /\ tries \in [Callers -> 0..MaxRetries]
    /\ repl \in [Chans -> {"none", "opening", "cancel"}]
    /\ spc \in [Shutters \cup Watchers ->
                  {"ready", "taken", "waiting", "returned", "expired", "skipped"}]
    /\ gpc \in [Watchers -> {"none", "check", "wait", "done"}]
    /\ taken \in [Shutters -> SUBSET Conns] /\ owed \in [Shutters -> SUBSET Chans]
    /\ reaper \in {"running", "exited"}

Init ==
    /\ idle \in [1..MinIdle -> Conns] /\ IsInjective(idle)
    /\ live = ToSet(idle) /\ open = MinIdle /\ inUse = 0
    /\ closed = FALSE /\ draining = FALSE /\ waiters = <<>>
    /\ zeroBorn = {}
    /\ buf = [ch \in Chans |-> "empty"]
    /\ pc = [c \in Callers |-> "out"]
    /\ conn = [c \in Callers |-> "nil"]
    /\ chan = [c \in Callers |-> "nil"]
    /\ tries = [c \in Callers |-> 0]
    /\ repl = [ch \in Chans |-> "none"]
    /\ spc = [s \in Shutters \cup Watchers |->
                IF s \in Calls THEN "ready" ELSE "skipped"]
    /\ gpc = [g \in Watchers |-> "none"]
    /\ taken = [s \in Shutters |-> {}] /\ owed = [s \in Shutters |-> {}]
    /\ reaper = "running" /\ cancelled = 0

-----------------------------------------------------------------------------
(* Helpers *)

\* Variant of Shut for a mutation run: put and acquireOnce forget draining.
ShutIgnoresDrain == closed

\* if p.closed || p.draining
Shut == closed \/ draining

\* Variant of Popped for a mutation run: the stack is not truncated.
PoppedKeepsTop == idle

\* p.idle = p.idle[:n-1]
Popped == Front(idle)

\* Variant of NobodyWaits for a mutation run: put does not look at waiters.
NobodyWaitsUnchecked == TRUE

\* !(len(p.waiters) > 0), the condition under which put keeps the entry idle.
NobodyWaits == waiters = <<>>

\* Variant of Dequeued for a mutation run: the channel stays in the queue.
DequeuedKeepsHead == waiters

\* p.waiters = p.waiters[1:]
Dequeued == Tail(waiters)

\* Variant of Unanswered for a mutation run: the waiters are forgotten.
UnansweredForgotten == {}

\* waiters := p.waiters, the channels Drain and Close must answer.
Unanswered == ToSet(waiters)

\* Variant of CountReceived for a mutation run: inUse++ is left out.
CountReceivedMissing == inUse' = inUse

\* The critical section of a waiter that has received an entry.
CountReceived == inUse' = inUse + 1

\* Variant of Survivors for a mutation run: one dropped entry stays.
SurvivorsOffByOne(n) == SubSeq(idle, 1, MinIdle) \o SubSeq(idle, n, Len(idle))

\* keep: the entries evictIdle leaves when the first n are past the cutoff.
Survivors(n) == SubSeq(idle, 1, MinIdle) \o SubSeq(idle, n + 1, Len(idle))

\* Variant of DrainedSlots for a mutation run: Drain leaves open alone.
DrainedSlotsMissing == 0

\* len(idle), by which Drain lowers open.
DrainedSlots == Cardinality(taken["Drain"])

\* idleCond.Broadcast(): every goroutine waiting re-evaluates its condition.
Broadcast == [g \in Watchers |-> IF gpc[g] = "wait" THEN "check" ELSE gpc[g]]

\* if p.inUse == 0 { p.idleCond.Broadcast() }
SignalIdle == gpc' = IF inUse' = 0 THEN Broadcast ELSE gpc

Goto(c, label) == pc' = [pc EXCEPT ![c] = label]

\* Acquire, Release or Discard returns to its caller.
Return(c) == Goto(c, "out") /\ tries' = [tries EXCEPT ![c] = 0]

\* Client.Close, after which nothing in the process refers to the clients.
CloseClients(S) == live' = live \ S /\ zeroBorn' = zeroBorn \ S

\* w <- nil for each channel in S.
AnswerNil(S) == buf' = [ch \in Chans |-> IF ch \in S THEN "nil" ELSE buf[ch]]

\* make(chan *entry, 1): a channel no goroutine refers to.  A channel that
\* still holds a client is never reused, so that the client stays accounted.
FreshChans ==
    {ch \in Chans : /\ \A c \in Callers : chan[c] # ch
                    /\ ch \notin ToSet(waiters)
                    /\ repl[ch] = "none"
                    /\ \A s \in Shutters : ch \notin owed[s]
                    /\ buf[ch] \notin Conns}

-----------------------------------------------------------------------------
(* Acquire *)

\* The loop of Acquire has used its retries.
AcquireExhausted(c) ==
    /\ pc[c] = "retry" /\ tries[c] = MaxRetries
    /\ Return(c)
    /\ UNCHANGED <<poolVars, clientVars, buf, conn, chan, repl, shutVars, gpc,
                   reaper, cancelled>>

\* A caller outside enters Acquire, or the loop of Acquire goes round again.
MayAttempt(c) == pc[c] \in {"out", "retry"} /\ tries[c] < MaxRetries

\* acquireOnce is called and leaves the lock at label.
Attempt(c, label) ==
    /\ MayAttempt(c)
    /\ Goto(c, label)
    /\ tries' = [tries EXCEPT ![c] = @ + 1]

\* acquireOnce refuses: ErrClosed.
AcquireRefused(c) ==
    /\ MayAttempt(c) /\ Shut
    /\ Return(c)
    /\ UNCHANGED <<poolVars, clientVars, buf, conn, chan, repl, shutVars, gpc,
                   reaper, cancelled>>

\* acquireOnce pops the most recently used idle entry.
AcquireIdle(c) ==
    /\ Attempt(c, "checking") /\ ~Shut /\ idle # <<>>
    /\ conn' = [conn EXCEPT ![c] = Last(idle)]
    /\ idle' = Popped
    /\ inUse' = inUse + 1
    /\ UNCHANGED <<open, closed, draining, waiters, clientVars, buf, chan, repl,
                   shutVars, gpc, reaper, cancelled>>

\* acquireOnce reserves a slot and leaves the lock to open a connection.
AcquireSlot(c) ==
    /\ Attempt(c, "opening") /\ ~Shut /\ idle = <<>> /\ open < MaxConns
    /\ open' = open + 1 /\ inUse' = inUse + 1
    /\ UNCHANGED <<idle, closed, draining, waiters, clientVars, buf, conn, chan,
                   repl, shutVars, gpc, reaper, cancelled>>

\* acquireOnce joins the queue of waiters.
AcquireWait(c) ==
    /\ Attempt(c, "waiting") /\ ~Shut /\ idle = <<>> /\ open >= MaxConns
    /\ \E ch \in FreshChans :
          /\ waiters' = Append(waiters, ch)
          /\ chan' = [chan EXCEPT ![c] = ch]
          /\ buf' = [buf EXCEPT ![ch] = "empty"]
    /\ UNCHANGED <<idle, open, inUse, closed, draining, clientVars, conn, repl,
                   shutVars, gpc, reaper, cancelled>>

\* pg2json.Open succeeds.  Both ages are zero, so Acquire's checks pass.
OpenOK(c) ==
    /\ pc[c] = "opening"
    /\ \E k \in Conns \ live :
          /\ live' = live \cup {k}
          /\ conn' = [conn EXCEPT ![c] = k]
    /\ Goto(c, "using")
    /\ UNCHANGED <<poolVars, zeroBorn, buf, chan, tries, repl, shutVars, gpc,
                   reaper, cancelled>>

\* pg2json.Open fails: inUse-- without a Broadcast, then discard().
OpenFails(c) ==
    /\ pc[c] = "opening"
    /\ inUse' = inUse - 1
    /\ Goto(c, "discard")
    /\ UNCHANGED <<idle, open, closed, draining, waiters, clientVars, buf, conn,
                   chan, tries, repl, shutVars, gpc, reaper, cancelled>>

\* The waiter's channel yields nil: ErrClosed.
ReceiveNil(c) ==
    /\ pc[c] = "waiting" /\ buf[chan[c]] = "nil"
    /\ buf' = [buf EXCEPT ![chan[c]] = "empty"]
    /\ chan' = [chan EXCEPT ![c] = "nil"]
    /\ Return(c)
    /\ UNCHANGED <<poolVars, clientVars, conn, repl, shutVars, gpc, reaper,
                   cancelled>>

\* The waiter's channel yields an entry, which is counted in inUse only now.
ReceiveConn(c) ==
    /\ pc[c] = "waiting" /\ buf[chan[c]] \in Conns
    /\ conn' = [conn EXCEPT ![c] = buf[chan[c]]]
    /\ buf' = [buf EXCEPT ![chan[c]] = "empty"]
    /\ chan' = [chan EXCEPT ![c] = "nil"]
    /\ CountReceived
    /\ Goto(c, "checking")
    /\ UNCHANGED <<idle, open, closed, draining, waiters, clientVars, tries, repl,
                   shutVars, gpc, reaper, cancelled>>

\* p.waiters without the channel ch, if it is still there.
WithoutWaiter(ch) ==
    IF \E i \in DOMAIN waiters : waiters[i] = ch
    THEN RemoveAt(waiters, CHOOSE i \in DOMAIN waiters : waiters[i] = ch)
    ELSE waiters

\* The waiter's context ends.  Its channel may already have left p.waiters,
\* and may already hold an entry: that entry is not looked at.
WaitExpires(c) ==
    /\ pc[c] = "waiting"
    /\ waiters' = WithoutWaiter(chan[c])
    /\ chan' = [chan EXCEPT ![c] = "nil"]
    /\ Return(c)
    /\ UNCHANGED <<idle, open, inUse, closed, draining, clientVars, buf, conn, repl, shutVars, gpc, reaper, cancelled>>

\* The entry is young enough and its ping, if due, is answered.  An entry with
\* the zero bornAt is older than any lifetime.
CheckPasses(c) ==
    /\ pc[c] = "checking"
    /\ LifetimeCheck => conn[c] \notin zeroBorn
    /\ Goto(c, "using")
    /\ UNCHANGED <<poolVars, clientVars, buf, conn, chan, tries, repl, shutVars,
                   gpc, reaper, cancelled>>

-----------------------------------------------------------------------------
(* Release and Discard *)

\* The first half of Conn.Discard: Client.Close and the critical section that
\* gives up inUse.
GiveUp(c, label) ==
    /\ CloseClients({conn[c]})
    /\ conn' = [conn EXCEPT ![c] = "nil"]
    /\ inUse' = inUse - 1
    /\ SignalIdle
    /\ Goto(c, label)
    /\ UNCHANGED <<idle, open, closed, draining, waiters, buf, chan, tries, repl,
                   shutVars, reaper, cancelled>>

\* Acquire finds the entry too old, or its ping fails; it will retry.
CheckFails(c) == pc[c] = "checking" /\ GiveUp(c, "rediscard")

\* The caller discards its connection.
Discard(c) == pc[c] = "using" /\ GiveUp(c, "discard")

\* The second half of Conn.Discard, and the end of a failed Open: discard().
DiscardSlot(c) ==
    /\ pc[c] \in {"discard", "rediscard"}
    /\ open' = open - 1
    /\ \/ pc[c] = "discard" /\ Return(c)
       \/ pc[c] = "rediscard" /\ Goto(c, "retry") /\ tries' = tries
    /\ UNCHANGED <<idle, inUse, closed, draining, clientVars, buf, conn, chan,
                   shutVars, gpc, reaper, cancelled>>

\* discard() with nobody in the queue.
DiscardQuiet(c) == DiscardSlot(c) /\ waiters = <<>> /\ UNCHANGED <<waiters, repl>>

\* discard() starts a goroutine that serves the first waiter.
DiscardReplace(c) ==
    /\ DiscardSlot(c) /\ waiters # <<>>
    /\ waiters' = Dequeued
    /\ repl' = [repl EXCEPT ![Head(waiters)] = "opening"]

\* put, pool shutting down: inUse is given up, the client is closed later.
ReleaseShut(c) ==
    /\ pc[c] = "using" /\ Shut
    /\ inUse' = inUse - 1
    /\ SignalIdle
    /\ Goto(c, "closing")
    /\ UNCHANGED <<idle, open, closed, draining, waiters, clientVars, buf, conn,
                   chan, tries, repl, shutVars, reaper, cancelled>>

\* put, pool shutting down: Client.Close, then open--.
ReleaseClose(c) ==
    /\ pc[c] = "closing"
    /\ CloseClients({conn[c]})
    /\ conn' = [conn EXCEPT ![c] = "nil"]
    /\ open' = open - 1
    /\ Return(c)
    /\ UNCHANGED <<idle, inUse, closed, draining, waiters, buf, chan, repl,
                   shutVars, gpc, reaper, cancelled>>

\* put with a waiter in the queue: the entry is sent to the first one.
ReleaseHandoff(c) ==
    /\ pc[c] = "using" /\ ~Shut /\ waiters # <<>>
    /\ inUse' = inUse - 1
    /\ SignalIdle
    /\ waiters' = Dequeued
    /\ buf' = [buf EXCEPT ![Head(waiters)] = conn[c]]
    /\ conn' = [conn EXCEPT ![c] = "nil"]
    /\ Return(c)
    /\ UNCHANGED <<idle, open, closed, draining, clientVars, chan, repl,
                   shutVars, reaper, cancelled>>

\* put with nobody waiting: the entry goes on top of the idle stack.
ReleaseIdle(c) ==
    /\ pc[c] = "using" /\ ~Shut /\ NobodyWaits
    /\ inUse' = inUse - 1
    /\ SignalIdle
    /\ idle' = Append(idle, conn[c])
    /\ conn' = [conn EXCEPT ![c] = "nil"]
    /\ Return(c)
    /\ UNCHANGED <<open, closed, draining, waiters, clientVars, buf, chan,
                   repl, shutVars, reaper, cancelled>>

-----------------------------------------------------------------------------
(* The goroutine started by discard() for the waiter w *)

\* Open succeeds on an open pool: open++ and the entry, without bornAt, is sent.
ReplaceOK(w) ==
    /\ repl[w] = "opening" /\ ~closed
    /\ \E k \in Conns \ live :
          /\ live' = live \cup {k}
          /\ zeroBorn' = zeroBorn \cup {k}
          /\ buf' = [buf EXCEPT ![w] = k]
    /\ open' = open + 1
    /\ repl' = [repl EXCEPT ![w] = "none"]
    /\ UNCHANGED <<idle, inUse, closed, draining, waiters, callerVars, shutVars,
                   gpc, reaper, cancelled>>

\* Open succeeds on a closed pool: the client is closed again and nil is sent.
ReplaceClosed(w) ==
    /\ repl[w] = "opening" /\ closed
    /\ AnswerNil({w})
    /\ repl' = [repl EXCEPT ![w] = "none"]
    /\ UNCHANGED <<poolVars, clientVars, callerVars, shutVars, gpc, reaper,
                   cancelled>>

\* Open fails: nil is sent at once.
ReplaceFails(w) ==
    /\ repl[w] = "opening" /\ cancelled < MaxCancels
    /\ AnswerNil({w})
    /\ repl' = [repl EXCEPT ![w] = "cancel"]
    /\ UNCHANGED <<poolVars, clientVars, callerVars, shutVars, gpc, reaper,
                   cancelled>>

\* ... and then, unless the pool is closed, open-- once more.
ReplaceCancel(w) ==
    /\ repl[w] = "cancel"
    /\ IF closed THEN UNCHANGED <<open, cancelled>>
                 ELSE open' = open - 1 /\ cancelled' = cancelled + 1
    /\ repl' = [repl EXCEPT ![w] = "none"]
    /\ UNCHANGED <<idle, inUse, closed, draining, waiters, clientVars, buf,
                   callerVars, shutVars, gpc, reaper>>

-----------------------------------------------------------------------------
(* Drain, WaitIdle, Close and the reaper *)

\* The idle clients and the waiters are taken away under the lock.
TakeAll(s) ==
    /\ taken' = [taken EXCEPT ![s] = ToSet(idle)] /\ idle' = <<>>
    /\ owed' = [owed EXCEPT ![s] = Unanswered] /\ waiters' = <<>>
    /\ spc' = [spc EXCEPT ![s] = "taken"]

\* Drain, first critical section.
DrainBegin ==
    /\ spc["Drain"] = "ready" /\ ~closed
    /\ draining' = TRUE
    /\ TakeAll("Drain")
    /\ UNCHANGED <<open, inUse, closed, clientVars, buf, callerVars, repl, gpc,
                   reaper, cancelled>>

\* Drain of a closed pool returns nil.
DrainSkip ==
    /\ spc["Drain"] = "ready" /\ closed
    /\ spc' = [spc EXCEPT !["Drain"] = "skipped"]
    /\ UNCHANGED <<poolVars, clientVars, buf, callerVars, repl, taken, owed, gpc,
                   reaper, cancelled>>

\* Drain closes the idle clients, adjusts open, answers the waiters and starts
\* the goroutine that waits for inUse to reach 0.
DrainFinish ==
    /\ spc["Drain"] = "taken"
    /\ CloseClients(taken["Drain"])
    /\ open' = open - DrainedSlots
    /\ AnswerNil(owed["Drain"])
    /\ taken' = [taken EXCEPT !["Drain"] = {}]
    /\ owed' = [owed EXCEPT !["Drain"] = {}]
    /\ gpc' = [gpc EXCEPT !["Drain"] = "check"]
    /\ spc' = [spc EXCEPT !["Drain"] = "waiting"]
    /\ UNCHANGED <<idle, inUse, closed, draining, waiters, callerVars, repl,
                   reaper, cancelled>>

\* WaitIdle starts its goroutine.
WaitIdle ==
    /\ spc["WaitIdle"] = "ready"
    /\ gpc' = [gpc EXCEPT !["WaitIdle"] = "check"]
    /\ spc' = [spc EXCEPT !["WaitIdle"] = "waiting"]
    /\ UNCHANGED <<poolVars, clientVars, buf, callerVars, repl, taken, owed,
                   reaper, cancelled>>

\* Variant of MustWait for a mutation run: WaitIdle does not look at closed.
MustWaitIgnoresClose(g) == inUse > 0

\* The loop condition of the goroutine: Drain's does not look at closed.
MustWait(g) == inUse > 0 /\ (g = "WaitIdle" => ~closed)

\* The goroutine evaluates its condition under the lock.
Watch(g) ==
    /\ gpc[g] = "check"
    /\ gpc' = [gpc EXCEPT ![g] = IF MustWait(g) THEN "wait" ELSE "done"]
    /\ UNCHANGED <<poolVars, clientVars, buf, callerVars, repl, shutVars, reaper,
                   cancelled>>

\* Drain or WaitIdle sees its goroutine finish and returns nil.
WatchReturns(g) ==
    /\ spc[g] = "waiting" /\ gpc[g] = "done"
    /\ spc' = [spc EXCEPT ![g] = "returned"]
    /\ UNCHANGED <<poolVars, clientVars, buf, callerVars, repl, taken, owed, gpc,
                   reaper, cancelled>>

\* The context of Drain or WaitIdle ends first.
WatchExpires(g) ==
    /\ spc[g] = "waiting"
    /\ gpc' = Broadcast
    /\ spc' = [spc EXCEPT ![g] = "expired"]
    /\ UNCHANGED <<poolVars, clientVars, buf, callerVars, repl, taken, owed,
                   reaper, cancelled>>

\* Close, critical section.
CloseBegin ==
    /\ spc["Close"] = "ready" /\ ~closed
    /\ closed' = TRUE
    /\ TakeAll("Close")
    /\ gpc' = Broadcast
    /\ UNCHANGED <<open, inUse, draining, clientVars, buf, callerVars, repl,
                   reaper, cancelled>>

\* Close stops the reaper, answers the waiters and closes the idle clients.
\* open keeps counting them: taken["Close"] stays as the record of that.
CloseFinish ==
    /\ spc["Close"] = "taken"
    /\ AnswerNil(owed["Close"])
    /\ CloseClients(taken["Close"])
    /\ owed' = [owed EXCEPT !["Close"] = {}]
    /\ spc' = [spc EXCEPT !["Close"] = "returned"]
    /\ UNCHANGED <<poolVars, callerVars, repl, taken, gpc, reaper, cancelled>>

\* evictIdle: entries are stacked in the order of their last use, so the ones
\* older than the cutoff are the first n; the first MinIdle are kept anyway.
EvictIdle ==
    /\ reaper = "running"
    /\ \E n \in (MinIdle + 1)..Len(idle) :
          /\ idle' = Survivors(n)
          /\ CloseClients(ToSet(SubSeq(idle, MinIdle + 1, n)))
          /\ open' = open - (n - MinIdle)
    /\ UNCHANGED <<inUse, closed, draining, waiters, buf, callerVars, repl,
                   shutVars, gpc, reaper, cancelled>>

\* The reaper sees stopReaper closed.
ReaperExits ==
    /\ reaper = "running" /\ spc["Close"] = "returned"
    /\ reaper' = "exited"
    /\ UNCHANGED <<poolVars, clientVars, buf, callerVars, repl, shutVars, gpc,
                   cancelled>>

-----------------------------------------------------------------------------
CallerStep(c) ==
    \/ AcquireExhausted(c) \/ AcquireRefused(c) \/ AcquireIdle(c)
    \/ AcquireSlot(c) \/ AcquireWait(c) \/ OpenOK(c) \/ OpenFails(c)
    \/ ReceiveNil(c) \/ ReceiveConn(c) \/ WaitExpires(c)
    \/ CheckPasses(c) \/ CheckFails(c) \/ Discard(c) \/ DiscardQuiet(c)
    \/ DiscardReplace(c)
    \/ ReleaseShut(c) \/ ReleaseClose(c) \/ ReleaseHandoff(c) \/ ReleaseIdle(c)

ReplaceStep(w) ==
    ReplaceOK(w) \/ ReplaceClosed(w) \/ ReplaceFails(w) \/ ReplaceCancel(w)

WatchStep(g) == Watch(g) \/ WatchReturns(g) \/ WatchExpires(g)

ShutStep ==
    \/ DrainBegin \/ DrainSkip \/ DrainFinish \/ WaitIdle
    \/ CloseBegin \/ CloseFinish \/ EvictIdle \/ ReaperExits

Next ==
    \/ \E c \in Callers : CallerStep(c)
    \/ \E w \in Chans : ReplaceStep(w)
    \/ \E g \in Watchers : WatchStep(g)
    \/ ShutStep

Spec == Init /\ [][Next]_vars

-----------------------------------------------------------------------------
(* Fairness: goroutines that are not blocked run, and pg2json.Open and the    *)
(* ping return (they have dial and context timeouts).  Nothing is assumed of  *)
(* the user: a caller may keep a connection for ever, no context need end.    *)

CallerProgress(c) ==
    \/ AcquireExhausted(c)
    \/ pc[c] = "retry" /\ (AcquireRefused(c) \/ AcquireIdle(c) \/ AcquireSlot(c)
                              \/ AcquireWait(c))
    \/ OpenOK(c) \/ OpenFails(c) \/ ReceiveNil(c) \/ ReceiveConn(c)
    \/ CheckPasses(c) \/ CheckFails(c) \/ DiscardQuiet(c) \/ DiscardReplace(c)
    \/ ReleaseClose(c)

Fairness ==
    /\ \A c \in Callers : WF_vars(CallerProgress(c))
    /\ \A w \in Chans : WF_vars(ReplaceStep(w))
    /\ \A g \in Watchers : WF_vars(Watch(g) \/ WatchReturns(g))
    /\ WF_vars(DrainFinish) /\ WF_vars(CloseFinish \/ ReaperExits)

FairSpec == Spec /\ Fairness

-----------------------------------------------------------------------------
(* Where a client can be *)

Held == {conn[c] : c \in Callers} \cap Conns
InTransit == {buf[ch] : ch \in Chans} \cap Conns
\* Taken from the stack by Drain or Close and not closed yet.
BeingClosed(s) == IF spc[s] = "taken" THEN taken[s] ELSE {}

(* A caller has a client exactly while its control says so, and awaits a      *)
(* channel of its own exactly while it waits.                                 *)
Handles ==
    /\ \A c \in Callers : pc[c] \in Holding <=> conn[c] \in Conns
    /\ \A c \in Callers : pc[c] = "waiting" <=> chan[c] \in Chans
    /\ \A c, d \in Callers : chan[c] = chan[d] /\ chan[c] \in Chans => c = d

(* Every client in one of the places above is open.                           *)
PlacedIsLive ==
    ToSet(idle) \cup Held \cup InTransit \cup BeingClosed("Drain")
        \cup BeingClosed("Close") \subseteq live

-----------------------------------------------------------------------------
(* Safety properties *)

(* No client is in two places: never twice on the idle stack, with two        *)
(* callers, in two channels, or in two of these at once.  This is what makes  *)
(* it safe that pg2json.Client is not safe for concurrent use.                *)
ExclusiveUse ==
    /\ IsInjective(idle)
    /\ \A c, d \in Callers : conn[c] = conn[d] /\ conn[c] \in Conns => c = d
    /\ \A v, w \in Chans : buf[v] = buf[w] /\ buf[v] \in Conns => v = w
    /\ Held \cap InTransit = {}
    /\ ToSet(idle) \cap (Held \cup InTransit) = {}
    /\ \A s \in Shutters :
          BeingClosed(s) \cap (ToSet(idle) \cup Held \cup InTransit) = {}
    /\ BeingClosed("Drain") \cap BeingClosed("Close") = {}

(* A client that Acquire can still hand out, or a caller still holds, has not *)
(* been closed by the reaper, by Drain, by Close or by a Discard.             *)
OwnedIsLive == ToSet(idle) \cup Held \cup InTransit \subseteq live

(* An entry is never left idle while somebody waits for one: put serves the   *)
(* queue first and acquireOnce queues only when the stack is empty.           *)
NoIdleWhileWaiting == idle # <<>> => waiters = <<>>

(* inUse counts exactly the callers between acquireOnce and Release/Discard,  *)
(* whatever errors, retries and shutdowns happen: Drain and WaitIdle rely on  *)
(* it to stop.  A client in a channel is not counted.                         *)
InUseExact == inUse = Cardinality({c \in Callers : pc[c] \in Counted})

(* A caller blocked on its channel has been forgotten by nobody: the channel  *)
(* is queued, or holds its answer, or a discard goroutine, a Drain or a Close *)
(* still has to answer it.                                                    *)
NoLostWaiter ==
    \A c \in Callers : pc[c] = "waiting" =>
        \/ chan[c] \in ToSet(waiters)
        \/ buf[chan[c]] # "empty"
        \/ repl[chan[c]] = "opening"
        \/ \E s \in Shutters : chan[c] \in owed[s]

(* Exactly one party will send on a waiter's channel, and the channel is      *)
(* empty until it does: a send, which the code makes outside the lock into a  *)
(* buffer of one, never blocks a releaser, a Drain or a Close.                *)
OneAnswer ==
    /\ IsInjective(waiters)
    /\ \A ch \in ToSet(waiters) : buf[ch] = "empty" /\ repl[ch] = "none"
    /\ \A ch \in Chans : repl[ch] = "opening" => buf[ch] = "empty"
    /\ \A s \in Shutters : \A ch \in owed[s] :
          buf[ch] = "empty" /\ repl[ch] = "none" /\ ch \notin ToSet(waiters)
    /\ owed["Drain"] \cap owed["Close"] = {}

(* Once Drain or Close has begun nothing returns to the stack and nobody      *)
(* queues again: a late Release cannot park a connection that no one closes.  *)
ShutIsFinal == closed \/ draining => idle = <<>> /\ waiters = <<>>

(* open counts every slot that is in use, idle, in transit or on its way to   *)
(* being given up, the idle clients Close closed without lowering it, and is  *)
(* too low by exactly one for each failed replacement of discard().           *)
OpenAccounting ==
    open + cancelled =
          Len(idle)
        + Cardinality({c \in Callers :
              pc[c] \in Counted \cup {"closing", "discard", "rediscard"}})
        + Cardinality({ch \in Chans : buf[ch] \in Conns})
        + Cardinality(taken["Drain"]) + Cardinality(taken["Close"])

-----------------------------------------------------------------------------
(* Liveness properties, of FairSpec *)

(* Drain and Close unblock every caller that waits for a connection, the ones *)
(* whose channel a discard goroutine has taken over included.                 *)
ShutdownFreesWaiters ==
    \A c \in Callers : Shut /\ pc[c] = "waiting" ~> pc[c] # "waiting"

(* After Close the reaper, the goroutine of WaitIdle and the goroutines of    *)
(* discard all exit, even if a caller never gives its connection back.        *)
CloseStopsGoroutines ==
    closed ~> /\ reaper = "exited"
              /\ gpc["WaitIdle"] \in {"none", "done"}
              /\ \A w \in Chans : repl[w] = "none"

-----------------------------------------------------------------------------
(* What the comments of pool.go promise and the code does not keep *)

(* "Bounded by MaxConns": no more clients are open than MaxConns allows.      *)
BoundedByMaxConns == Cardinality(live) <= MaxConns

(* idleCond is "signalled when inUse reaches 0": no goroutine of Drain or     *)
(* WaitIdle sleeps on it while inUse is 0.                                    *)
IdleIsSignalled == \A g \in Watchers : gpc[g] = "wait" => inUse # 0
=============================================================================
