# A verification project for pg2json

pg2json is a Go driver that runs SELECT-shaped queries on PostgreSQL and streams
the result as JSON, scans it into structs, or serves it through database/sql.
This directory models its control, and the functions between the bytes of the
wire and the values of the program, in TLA+: TLC checks the models on small
instances, TLAPS proves almost all of their safety for every instance. `PROJECT.json`
maps every definition to the lines it translates and lists the runs, the
mutants, the findings and the hazards.

    tlc -workers 2 -config PoolSafety.cfg MCPool     # a run
    tlapm PoolProofs.tla                             # the proofs of a module

## Inventory

| Component | State | Operations | Interacts with | What is hard |
|---|---|---|---|---|
| Pool (`pool/pool.go`) | idle stack, `open`, `inUse`, `closed`, `draining`, waiters' channels, a condition variable | New, Acquire, Release, Discard, Drain, WaitIdle, Close, the reaper | opens, pings and closes Clients | dials, hand-overs and closes happen outside the lock; contexts expire; replacement goroutines |
| Query engine (`query.go`, `stream.go`, `args.go`) | output buffer, `committed`, row count, the ErrorResponse seen | QueryJSON, StreamJSON and relatives, Ping | the wire, the statement cache, the watcher, the writer downstream | two nested retry loops, caps, early returns with unread messages |
| Context watcher, cancel (`ctx.go`, `conn.go`) | a goroutine per call, the socket deadline | attachContext, detachContext, SendCancel | the socket, and the server over a second connection | a CancelRequest names no query and may arrive late |
| Wire (`internal/wire`) | read and write buffers | ReadMessage, Begin, Flush, SwapNet | everything above | a failed Bind stays in the write buffer |
| Statement cache (`stmtcache.go`) | SQL to name, names to Close, a counter | get, put, invalidate, nextName, takePendingClose | the backends behind PgBouncer | rotation of backends, eviction, names shared by Clients |
| Iterator (`iter.go`) | `done`, `err`, `pgErr` | RawQuery, NextRaw, Close | the same wire and watcher, for as long as the caller likes | abandoned at any row, cancelled at any row |
| database/sql adapter (`stdlib`) | `client`, `bad` | Conn, Stmt, pgRows | the iterator below; sql.DB and the goroutine of sql.Rows above | Close comes from another goroutine; IsValid decides on reuse |
| Struct scan (`scan.go`) | a slice that grows or a batch that is reused; the index of fields; opcodes and setters | ScanStruct, ScanStructBatched | the same wire, a callback | unsafe copies, slots reused, two code paths per type, embedded structs |
| Row plan and rows (`internal/rows`) | columns with formats and encoders | ParseRowDescription, ApplyFormats, AppendObject, AppendArray, TOON | Bind (formats asked for), the encoders | four loops over the same framing; formats and encoders chosen apart |
| Encoders (`internal/types`, `internal/jsonwriter`) | none | one function per OID and format; escaping, scalar and word-at-a-time | the row plan | sign, epochs, scales, borrow across bytes |
| Buffer pool (`internal/bufferpool`) | `live`, `maxLive`, a sync.Pool | Get, Put, SetMaxLive | QueryJSON, the streaming writers, pool.New | bytes that outlive their buffer, a soft cap read and raised in two steps |
| Startup (`conn.go`, `config.go`, `internal/auth`) | socket, deadline, TLS, SCRAM exchange | Open, maybeNegotiateTLS, startup, handleAuth | the server | every step may fail, stall or be refused |
| Observer, errors, constants | counters | | called from the query engine | |

What makes each part correct: a Client is in one place and the pool's counters
are right whatever fails; a call delivers one execution's output, all of it when
it says so, and leaves the connection as the next call needs it; a name means
one SQL; an iterator and a scan return the rows in order and free the Client,
and so does database/sql when its ctx ends; the value of a cell is the same
whichever API reads it, and is the value the server sent; Open returns a usable
Client or nothing.

## Modules

| Module | Models | Uses |
|---|---|---|
| `Pool` | `pool/pool.go`, one action per critical section | |
| `Session` | the socket, the backend behind it, CancelRequests, `ctx.go` | |
| `Call` | what a call promises its program (abstract) | |
| `Query` | `query.go`, `stream.go`, Ping: several calls in a row on one Client | `Session`; implements `Call` |
| `Iterator` | `iter.go` | `Query` |
| `Stdlib` | `stdlib/stdlib.go` and what database/sql does with it | `Iterator` |
| `Scan` | `scan.go`: ScanStruct and ScanStructBatched | `Query` |
| `StmtCache` | `stmtcache.go` and runCached, behind PgBouncer | |
| `Startup` | Open, TLS, startup, authentication | |
| `Temporal` | date, time, timestamp and interval encoders | |
| `Numeric` | binary numeric, validators of text numbers | |
| `Escape` | the two escapers, on bytes | |
| `Digits` | numbers in a base | |
| `Framing` | RowDescription, DataRow, TOON, arrays, composites, ranges | `Escape` |
| `Dispatch` | tables of OIDs, formats, encoders, setters, opcodes; the readers of a cell | |
| `FieldIndex` | walkStructFields, buildStructPlan | |
| `BufferPool` | `bufferpool/pool.go` and its callers | |
| `Codec` | the eight above, part by part | all of them |
| `PoolProofs`, `StmtCacheProofs`, `CodecProofs`, `TextProofs`, `StartupProofs`, `QueryProofs`, `ScanProofs`, `StdlibProofs` | theorems | the modules they are about; `TextProofs` builds on `CodecProofs`, `ScanProofs` and `StdlibProofs` on `QueryProofs` |
| `MC*` | instances for TLC | |

**Pool.** The fields of Go's `Pool` are variables of the same names; `buf` is what
each waiter's channel holds, `pc` where each goroutine stands, `repl` the
goroutine that `discard` starts, `taken` and `owed` what Drain or Close took
under the lock and deals with after it. The gaps between critical sections are
the gaps between actions. `evictIdle` scans the stack from its bottom, keeps the
first MinIdle entries and drops what is older than the cutoff above them; the
model lets the cutoff fall anywhere, which assumes a stack ordered by `lastUsed`
(`put` reads the clock before it takes the lock, so two releases may be stacked
the other way round by microseconds). New's failure path is left out: a pool
that failed to start is not used.

**Session, Query, Iterator, Scan.** The backend serves the flushed requests in
order and sends an answer a message at a time; a CancelRequest strikes whatever
it finds. A request's identity is its call and its number in the call, and a
DataRow names the request it answers, so that a row read by the wrong call can
be told apart. `out` and `sent` are the writer's buffer and what was delivered
behind it, as items: header, rows, footer. `past` is the socket deadline in the
past. `Iterator` and `Scan` extend `Query`, and their calls follow and precede
those of `Query` on one Client. Messages that every reader ignores are left out,
as are partial writes downstream, simple queries of several statements, and
servers that send no BackendKeyData. `torn` is a write buffer that holds the
start of a Bind whose argument did not encode; the next flush sends it. checkCaps
aborts at MaxResponseRows exactly, and, where `CapsBytes` says that
MaxResponseBytes is set, at any row, since sizes are not modelled.

**Call** is what a program may rely on: a call starts executions while it has
delivered nothing, then delivers one of them in order, all of it if it returns
nil, and keeps a usable connection usable if its result is one of `Good`. Outside
`Good` are a lost socket, an unexpected message or a failed writer ("broken",
"lost"), a cap error whose drain failed ("lost" too: to the program it is the
same error as "cap", so that error alone does not tell whether the Client may be
used again), and an argument that does not encode ("args", which leaves the
write buffer torn). `Query` implements it (`ImplementsCall`) under the mapping at
the end of `Query.tla`: `busy` is pc # "idle", `exec` the requests sent, `rows`
what the server made of the last, `usable` the clean wire and write buffer a
call found or left.

**Stdlib.** A behaviour uses the native API or database/sql. The latter is external
and modelled by the calls it makes: sql.Rows closes after io.EOF or an error, its
goroutine closes when the ctx is done, sql.DB asks IsValid before the next call.
A row of another query may fail to split, since it has other columns.

**StmtCache.** A name is its number, since names are `s_<n>` in every Client.
PgBouncer gives each request to any backend. `failed` is a history variable: the
names whose Prepare failed, which the code forgets (query.go:342).

**Startup.** The cryptography is symbolic. The server may refuse TLS, ask for any
method, sign with the wrong password, answer with the wrong nonce, stall or
die. It keeps no order in SASL: it may leave out its first or its final message,
or send a final one early, empty or from an earlier call (`Finals`), because
handleAuth and startup accept all of these. `finished` is a history variable:
the server has answered the client's proof with its signature. A caller's own `TLSConfig` is left out. A Config that leaves
`SSLMode` unset has the zero value SSLDisable, although comments at config.go:38
and 176 call prefer the default; `ParseDSN` does choose prefer.

**Codec and its parts.** The functions are operators of the names they have in Go.
Each is checked against what the text or the value denotes, computed another
way: a calendar date by counting days, a numeric by its base-10000 sum, a string
by reading it back, a row by what the server put in it. The scale of a unit is a
constant: a day has 24 hours of `MinPerHour` minutes and so on (the calendar is
the real one), a numeric's digit group `Width` decimal digits, a word
`WordBytes` bytes, a byte of an integer cell `ByteBase` values; the algorithms
do not depend on the values, and the small ones put every boundary within
reach. `Int64Max` and `Int32Max` keep the order in which the limits are met.
`encodeNumericBinary` is in the code for tests and is not chosen by the tables.
The loops of `Framing` are made of readers: a reader takes a cell, a column, an
element or a field off the head of a sequence and gives its value and the rest,
or refuses; `Items` applies one as many times as the header says, as the loops of
AppendObject, ParseRowDescription, the array and the composite encoders do.
`FieldIndex` names an embedded struct by its path from the outer one. `IsInput`
says what a part may be given (what the server can send, a list of columns, a
tree of structs); `InputsAssumption` requires it of `Inputs`, and TLC evaluates it.
A text that denotes is a record of the numbers it prints; digits and
punctuation are left out. In `Dispatch` a value is tagged with what it has become:
an integer, a float, an instant, bytes, the hexadecimal of bytes ("hex", "uuid"),
or a text that only the JSON has ("text": time, timetz, interval and arrays, whose
printing `Temporal` and `Framing` are about).

## Runs

Bounds are the smallest at which every action fires and the interesting cases
happen; each is named in the module or the cfg.

| Run | Shows | Bounds |
|---|---|---|
| `pool_safety` | ownership, hand-over, shutdown and counters under every interleaving | 3 callers, one slot, 2 connections and 2 channels (reused), 2 attempts, one failed replacement; Drain and Close |
| `pool_live` | shutdown answers waiters; Close ends the goroutines it promises to | 2 callers, MinIdle 1, WaitIdle and the reaper too |
| `pool_max_conns` | *violated*: more than MaxConns connections | as `pool_safety` |
| `pool_wakeup` | *violated*: `inUse` reaches 0 unsignalled | as `pool_safety` |
| `query_safety` | output, success, retries, the state left to the next call, and that `Query` implements `Call` | 2 calls, results of up to 2 rows, a cap of 2 rows and one on bytes, one CancelRequest in flight, 2 attempts, 2 messages in the socket |
| `stmt_cache` | own SQL, accounting of names | 1 client, 3 statements, room for 2, 2 backends, 5 names |
| `stmt_names` | *violated*: with 2 clients the wrong SQL runs | 2 clients, 2 statements |
| `sql_adapter` | rows in order, EOF, freeing the Client; a cancelled call returns, native or through database/sql | 2 calls, 2 rows |
| `sql_close` | *violated*: after Close a connection is kept with the old reply on it | 1 call, 1 row |
| `scan` | order, NULL, completeness, refusal | 2 calls, 3 rows, initial capacity 1, batches of 2 |
| `startup` | handover, TLS policy, mutual authentication, Open returns | 2 calls of Open, all modes |
| `codec` | every function between wire and value, on the inputs of `MCCodec`; the privacy of pooled bytes | every day of 20 years around leap days, centuries, both epochs and the year 0; strings of 5 bytes over words of 2; rows of 3 cells; structs 3 deep, of up to two embedded ones each (not two of two); 2 goroutines, 4 arrays |

Three callers are what it takes for one to hold a connection, one to wait and
one to slip in; two calls for what one leaves to the next; three rows for a
slice to grow twice and for a batch to be refilled; five bytes for two words and
a tail. Deadlock is checked in all runs but `startup`, where the program may
stop calling Open. The type invariants of `Pool`, `Query`, `StmtCache` and
`Startup` stand in the modules; all but `Query`'s are proved as they stand.

**Fairness.** `pool_live`: goroutines that can run do, and Open and Ping return
(both have deadlines). Callers need not give a connection back, and no context
need end. `sql_adapter`: the goroutines of the client run, sql.Rows closes when
Next has failed or ended, and its goroutine closes when the ctx is done, as
database/sql does; nothing is assumed of the server, of the program or of the
arrival of a CancelRequest. `startup`: Open's goroutine runs and a deadline that
is set passes; the server may stall for ever.

## Findings

The four violated runs, quoted with the comments they contradict in
`PROJECT.json`. Met on the way, and without a run of their own:

- A caller whose ctx expires after `put` has taken its channel off the queue never
  receives the entry sent to it (pool.go:233): the connection stays open and its
  slot counted. While an entry is handed over nobody counts it in `inUse`
  (pool.go:265 and 230), so Drain may find the pool idle in between.
- The goroutine of Drain outlives Close while connections are out (pool.go:349;
  pool.go:9 says all goroutines exit). A replacement's entry has a zero `bornAt`
  (pool.go:302), so a MaxConnLifetime discards it at once.
- The drain after a cap may fail and leave rows on the wire, though query.go:36
  calls the connection reusable; encodeArg may fail with half a Bind in the write
  buffer (query.go:375); a result of exactly MaxResponseRows rows is aborted
  (query.go:18), though config.go:56 speaks of crossing the value; the Observer
  is given the row count of an earlier query on error (query.go:148); a
  statement without a RowDescription stays on the server (query.go:342).
- RawQuery's retry after 26000 has no watcher (iter.go:289), though
  ARCHITECTURE.md:239 installs one for the duration of each query:
  `SqlCancelReturns` has it as its exception.
- A callback of ScanStructBatched that returns a 26000 error has it swallowed and
  its batches delivered again, though scan.go:115-120 says that an error aborts
  the scan (`Scan` with `CallbackErrors = {"26000"}` violates `RefusalIsFinal`).
- A server that asked for SCRAM is given a Client without its signature: handleAuth
  and startup take AuthenticationOk and ReadyForQuery in any state (conn.go:284,
  305), and a final message with an empty signature passes before the exchange has
  one to compare with (scram.go:118). `MutualAuth` is about the signatures that were
  verified, and about servers that answered the proof.
- An interval of -0.5 s prints `PT0.5S` (interval.go:68; the comment at 16-19
  promises the sign), and a date beyond 106751991 days from 2000 overflows
  (binary.go:291). Both are the exceptions in `Temporal`'s statements.
- validInt and validFloat let `+5`, `.5`, `5.` and `007` through unquoted, which are
  not JSON, though numeric.go:49-51 and 92-95 take them for it; the server sends
  none of them. `Lax` names these forms, and `NumbersDenote` says that they are all.
- An oid of 2^31 or more is negative in the JSON (binary.go:21), through the driver
  and in a signed field, and right in a `uint32` only. The driver hands out the
  bytes of time, timetz, interval, uuid and arrays as they came (scan.go:1767), where
  the JSON has their text. `ViewsAgree` makes these its exceptions (`HighOid`,
  `OwnText`). README.md:144-146 lists struct targets for time, timetz and interval;
  pickBinarySetter has no setter for them.
- A json value with newlines in it is passed through, which breaks the lines of
  NDJSON and TOON; a malformed array leaves its opening bracket in the output;
  binary ranges go into a JSON string as raw bytes.
- Of two embedded structs the first subtree wins, whatever its depth, where Go
  promotes the shallower field: `OuterFieldWins` is about the outer struct only.
- The fast path of a scan is chosen by kind and so bypasses a Scanner on a named
  basic type, against the comment at scan.go:1601; integer setters narrow without
  a check, against the one at 954.
- Where int has 32 bits (`IntSize = 4`), the fast path for a field of kind int
  stores the 8 bytes of an int8 column over its 4 (scan.go:652 and 1643); TLC
  then finds `ViewsAgree` violated. The run and the theorem are about 64 bits.
- A stream that succeeds never gives its buffer back (stream.go:159), so `live`
  only grows and Get ends up bypassing the pool, against bufferpool/pool.go:12.

## Proofs

Each theorem holds for every value of the constants that satisfies the
assumption named in the module (`PoolAssumption` and so on: finite sets of
callers, naturals where the code has counts): any number of callers, clients,
rows, retries, CancelRequests, batches and calls. TLC checked each inductive
invariant on an instance before it was proved.

**PoolProofs**, over `Spec` of `Pool`.

- `TypeCorrect`: the types, and `Handles` (a caller has a connection, or a channel
  nobody else waits on, exactly when its control says so).
- `ExclusiveUseTheorem`, `OwnedIsLiveTheorem`: no connection is in two places and
  every connection in one is open. ExclusiveUse is not inductive alone: a client
  that is not live may be opened again, so the invariant adds that every placed
  client is live, with the two stated place by place (`Placed`) so that each
  action disturbs few parts.
- `ShutdownTheorem`, `NoIdleWhileWaitingTheorem`: nothing is idle and nobody
  queued once a shutdown began, and nobody waits while a connection is idle.
- `InUseTheorem`: `inUse` is the number of callers that count, by the cardinality
  of the set each action adds to or removes from.
- `AnswersTheorem`, `NoLostWaiterTheorem`: a waiter has exactly one party that will
  answer it, and one that is blocked has not been forgotten, so no send blocks.
- `OpenTheorem`: `open` is the number of slots in use (idle entries, callers with
  a slot, loaded channels, what Drain or Close has taken), less one for each
  failed replacement. The slots are counted place by place and each step is
  shown to change both sides by the same amount (`Balance`); that no slot is
  counted twice rests on ExclusiveUse and OneAnswer.

**StmtCacheProofs**.

- `OwnSQLTheorem`: a single client runs its own SQL, for any number of backends
  and statements and any capacity. The invariant says that a name on any backend
  means the SQL it was made for (`NamesMean`), that names are not above the
  counter (`NamesOld`), and that the name about to be bound is the cached one
  (`BindsCached`). `stmt_names` shows why it needs one client.
- `NamesTheorem`: with any number of clients, every name below the counter is in one
  place: cached, waiting for its Close, in a Close that was sent, or `failed`. So an
  eviction that forgot its Close would violate it. `Ledger` is this with the shapes
  of the four places; a name that is new is above the counter, hence in none.
- `CacheTypes`: the types, with a cache never above its capacity.

**CodecProofs**, over `CodecSpec`: the functions between wire and value, for
inputs of every length and every value that `InputsAssumption` admits, where the
run has those of `MCCodec`. What a recursive function computes is proved by
stating "holds at k" as the set of the k at which it holds, and by a lemma about
sets of naturals closed under successor; the functions are defined over Nat or an
interval, and a lemma gives their equation.

- `TimeTheorem`: every timestamp, date, time, timetz and interval prints what it
  denotes. Go's truncated division with its corrections is floor division
  (`EraFloor`, `SplitFacts`), the day number of the date of splitTime is the day it was given
  (`CivilFacts`, with the years since March 1st of the year 0, so that a leap day
  is the last of its year), for any length of an hour, minute and second.
- `FormatsTheorem`: what Bind asks for, what the encoder of the plan expects and
  what the server sends is one format, for any columns and registered types.
- `ViewsTheorem`: the JSON encoder, the fast path, the setters and the driver make
  one value of a cell, but for the exceptions in the findings; the fast paths agree
  with the slow ones on every cell, and a `uint32` holds any oid. It assumes
  `IntSize = 8` (see the findings).
- `OuterFieldTheorem`: fields of an outer struct hide those below, and every column
  that some field matches gets one, for any tree of structs.
- `RowTheorem`, `ContainerTheorem`: rows, descriptions, arrays, composites and
  ranges arrive as sent, and no proper prefix of one is taken for a whole one.
  The items a reader takes are found one after the other (`ItemsExact`), because
  what it takes does not depend on what follows; and a reader that succeeds on a
  beginning would have taken the same from the whole (`CutCases`), which leaves
  too little for the count in the header.
- `BytesTheorem`, and `CodecBytesTheorem` of the composition: every array has one
  owner (`OneOwner`): a call that writes to it, the program that was given it, or
  sync.Pool, which has it once; and what a call finds in its array it wrote itself
  (`OwnBytes`).

**TextProofs**, over `CodecSpec` too: the text the encoders write, for inputs of every
length.

- `StringsTheorem`: both builds of the escaper write the same text, for any number of
  bytes in a word, and a JSON reader gets the bytes that went in; the names of the
  TOON header arrive. The lowest of the bytes that are below the threshold borrows,
  and nothing below it does, so its flag is set (`HasLessFacts`): a word without a
  flag has nothing to escape (`WordIsPlain`), and one flagged without need only ends
  the word loop early. Hence both loops write what a loop by bytes writes, and the
  reader is followed from the end of the text, each of its steps taking one escape.
- `NumbersTheorem`: a binary numeric prints its value, for any weight, scale, number of
  digits and width of a digit. Shifting the value by one decimal place more adds one
  digit (`ShiftStep`); each digit that is written is the one at its place (`DigitIs`:
  inside the digits sent, before or behind them), so a text that begins where
  nothing of the value is left and goes on digit by digit is the value (`Covers`,
  `RunValue`). For number texts it is shown where the loop of validFloat stops
  (`StopIs`, `StopAt`), hence that it passes exactly the numbers of the loose grammar
  (`ValidFloatIs`), none of which is a special number (`LooseIsFinite`); these without
  what `Lax` names are JSON's (`JSONIsLoose`, `LooseIsJSON`).

**StartupProofs**: `StartupTypes`, `HandoverTheorem`, `TLSTheorem`,
`MutualAuthTheorem`. Client and server take turns (`Turns`): while a message of
the client is unanswered nothing of the server is unread, and only the last
message of an answer makes the client send, fail or return. So Open returns on
an empty wire. `Policy` says what may have gone out in the clear, `Keys` that a
BackendKeyData is that of this call, `Exchange` that the nonce is this call's, that a
signature the server can send is its own over this exchange or one of another call
(`FromPeer`), and that, when it has answered the proof, no ReadyForQuery is read before
its signature is.

**QueryProofs**: `UnwatchedTheorem`, `WireCleanTheorem`, `OnePassTheorem`,
`CompleteTheorem`, `TypesTheorem`, and `CallTheorem`, the refinement of `Call`. What is unread
of an answer is a chain in which each message may follow the one before it
(`Follows`, `Chain`) and the first may follow what the reader has read
(`ComesNext`). The relation is local, so it survives a message read, a message
sent, a CancelRequest that replaces the rest by an error, and a connection that
breaks, and no induction over the answer is needed. `Settled` says where the
wire is empty, `Output` that what was delivered and what is buffered is the
beginning of the output of the rows read, `Watching` that a deadline in the past
is that of a watcher yet to be detached. All of this is claimed of calls that began on a clean wire
(`clean`), as `Call` does of a usable connection; `UnwatchedTheorem` holds on any
wire. For the refinement the initial state and every step are mapped: a Begin
starts an abstract call, a flushed request an execution, a write to the stream a
delivery, a return its outcome; everything else stutters. `TypesTheorem` (types,
and the bounds of `Session` and of `runQuery`) is about every wire: `Budget` says
where in a call how many requests can have been sent, so that with MaxAttempts
attempts, each of which may find its cached statement forgotten once, a call
sends at most three requests an attempt.

**ScanProofs**: `ScanOrderTheorem`, `NullTheorem`, `ScanCompleteTheorem`,
`ScanWireTheorem`, `RefusalTheorem`. Until the rows are read a scan is a call of
the query engine and `QueryInv` is about it (`Prelude`). Then what was given and
what the slots hold behind it are the rows read so far, and the slots behind
those are blank (`Slice`); that is what makes a NULL zero in a slot used again.
The first four assume `StaleStmt \notin CallbackErrors`: a callback that returns
an error with SQLSTATE 26000 is taken for a statement the backend forgot
(scan.go:175, listed as a hazard) and its rows are delivered twice, so without
the assumption they are false. So is `RefusalTheorem`, an action property, which
makes the same assumption: after a refusal the retry would deliver again. It holds
on any wire.

**StdlibProofs**: `RowsOrderTheorem`, `EOFTheorem`, `DoneTheorem`, over the
composition of `Query`, `Iterator` and `Stdlib`. RawQuery is the engine's until
Bind is sent (`Prelude`), then waits for BindComplete (`Starting`), then gives
the rows it reads while what is unread is the rest of their answer, until it is
done or has failed (`Giving`). That Close leaves a usable connection is not
among them: `sql_close` violates it.

Only model-checked:

- liveness (fairness and ENABLED are beyond the prover): the properties of
  `pool_live`, `CancelReturns` and `SqlCancelReturns`, and that Open returns.

## Not modelled

Observer and counters (no influence on control); parsing of error fields; DSN
parsing; fields that implement sql.Scanner and the cache of plans; the text of
binary floats (strconv), the hexadecimal of bytea and uuid and the passed-through
JSON (copies); the split of the byte stream into messages; the command-line
tools, benchmarks and tests.

## Plan

What is left: `Pool` over clients that `Call` describes instead of clients
without a state.
