# Verification of the Gold base library in TLA+

The repository is the base library of RemObjects Gold, a Go compiler for the
Elements platforms. Its own core is a run-time library in Oxygene
(`src/Source/Gold/*.pas`) that provides what a Go program takes for granted:
channels, `select`, `range`, goroutines, slices, maps, `sync`, `sync/atomic`,
timers, reflection, files and sockets. On top of it sit the Go standard packages
listed in `Gold.elements`, compiled nearly unchanged. These packages were written
for the guarantees of the Go run time and run here on those of the Pascal one.
The project models both sides: the primitives, from the Pascal code, and the
concurrent Go packages that rely on them.

All modules follow the Echoes (.NET) branch of the conditional code; the Island
branch differs in the names of its lock and condition variable and, where noted
under *Timers*, in one assignment.

## Inventory

| component | state | operations | interacts with | hard behaviour |
|---|---|---|---|---|
| Channels, `Gold.Channels.Echoes.pas` | `fData`, `fWaiting`, `fClosed`, monitor `fLock`; per call a `Message` or `ReceiveMessage` with a notifier, a private `lLock`, `lDone` | `Send`, `Receive`, `GetSequence` (range), `Close`, `TrySend`, `TryReceive` | every package with a channel; `select` | who is woken by whom, tests made without the lock, Close at any point |
| `Channel_Select`, same file | `lLock`, `lDone`, the started handles | blocking and non-blocking select | the `fLock` of all its channels | two kinds of lock in both orders; one case of several; undoing |
| `sync`, `Sync.pas` | monitors, reader-writer lock, dictionary, list, counter | `Mutex`, `RWMutex`, `Cond`, `Once`, `Pool`, `Map`, `WaitGroup` | everything | unlocked fast paths, lost wake-ups |
| timers, `Runtime.pas` (`TimerPool`), `time/sleep.go`, `time/tick.go` | platform timer, its handlers, `when`, the timer's channel | `NewTimer`, `AfterFunc`, `Reset`, `Stop`, `NewTicker` | platform timers, channels, `select` | expiry against Stop and Reset, units and truncation |
| `internal/singleflight` | map of calls in flight under a mutex | `Do`, `DoChan`, `doCall`, `ForgetUnshared` | `WaitGroup`, channels; used by `net` lookups | fields read after the lock is released, forgetting a running call |
| `io.Pipe`, `io/pipe.go` | `wrCh`, `rdCh`, `done`, two errors, `wrMu` | `Read`, `Write`, `CloseRead`, `CloseWrite` | channels, `select`, `Once` | Close against a rendezvous |
| `net/textproto` Pipeline | two sequencers: a number and a map of channels | `Next`, `Start*`, `End*` | unbuffered channels | unlock-then-wait, wrapping numbers |
| `context` | tree of `cancelCtx`, each with `mu`, `done`, `children`, `err`, and a timer | `WithCancel`, `WithDeadline`, `cancel`, `propagateCancel`, `removeChild` | channels, `select`, timers | nested locks, cancel against creation, deadline against cancel |
| `database/sql` pool | `freeConn`, `connRequests`, `numOpen`, the limits, two channels; per connection a lock, `inUse`, `lastErr` | `ExecContext`, `conn`, `putConn`, `Set*`, `Close`; goroutines that open, reset and clean | channels, `select`, `context`, the driver | hand-over against expiry, counting, failures, Close at any moment |
| `net/http` transport | idle list and LRU, `connsPerHost`, two queues of `wantConn`s, cancelers; per connection a `readLoop` | `RoundTrip`, dials, `CancelRequest`, `CloseIdleConnections`, idle timers | channels, `select`, timers, `context`, the network | dial against idle connection against cancellation, retries, late answers |
| `net/http` server, HTTP/2, `http2` pipe | connections, streams, buffers | handlers, frames, `Read`/`Write` | channels, `Cond` | a protocol of its own |
| `encoding/json` encoder cache | `sync.Map` of encoders | `typeEncoder` | `sync.Map`, `WaitGroup` | recursive types built concurrently |
| slices, maps, strings, `Gold.pas`, `string.pas` | arrays shared by slices | `append`, `copy`, indexing, conversion | everything | aliasing, encoding |
| reflection, files, sockets, math, crypto and the other packages | | | | platform wrappers or sequential code unchanged from Go |

What makes each correct, in a line: a channel delivers in order, once, and wakes
those it served; a select completes one case and leaves nothing behind; a
WaitGroup is a barrier; a timer calls its function once, not early, and Stop says
which; singleflight runs a function once per key and shares the result; a pipe
passes bytes in order and ends when closed; a pipeline keeps the order of its
numbers; cancelling a context cancels all below it and keeps nothing of them; a
pool counts its connections exactly, lends each to one at a time, loses none and
lets nobody wait who could be served. `PROJECT.json` lists the hazards line by line with the properties that
cover them.

## Modules

| module | models | composed with |
|---|---|---|
| `Channel` | what a Go channel promises: a queue with `Cap` places and a rendezvous | abstract |
| `GoldChannel` | one channel: `Send`, `Receive`, `GetSequence`, `Close` | implements `Channel` (`INSTANCE ... WITH`) |
| `GoldChannelProofs` | its theorems | extends `GoldChannel` |
| `GoldSelect` | `Channel_Select` over several channels, plain calls and `Close` as partners | repeats the queues of `GoldChannel` with the lock steps split |
| `WaitGroup`, `WaitGroupProofs` | `WaitGroup` with the `Mutex` and `Cond` in it | |
| `Singleflight` | `singleflight.Group` | takes `WaitGroup` and buffered channels by their contract |
| `Timers` | `TimerPool`, `Timer`, `Ticker` | the channel by what `sendTime` does to it |
| `IoPipe` | `io.Pipe` | the select of `GoldSelect`, its locks as guards |
| `Pipeline` | `textproto.Pipeline` | the sleeping steps of `GoldChannel` |
| `Context` | package `context` | channels, `select`, `AfterFunc` by their contract in Go |
| `SqlPool` | the pool of `database/sql` | likewise; the driver is external |
| `HttpTransport` | the connections of `http.Transport` to one host, HTTP/1 | likewise; network and server are external |
| `GoldSelectProofs`, `SingleflightProofs`, `TimersProofs`, `PipelineProofs`, `SqlPoolProofs`, `HttpTransportProofs` | their theorems | each extends its module |
| `MC*` | the instances for TLC | each extends its module |

Two kinds of question are kept apart. `GoldChannel`, `GoldSelect`, `Timers`,
`IoPipe`, `WaitGroup` and `Pipeline` ask what the Pascal run time does and what Go
code on top of it then gets. `Context`, `SqlPool`, `HttpTransport` and
`Singleflight` ask whether the Go code is right if channels, `select` and timers
keep Go's contract: what these properties say of a program compiled with Gold
holds as long as the deviations of the first group (below, *What the code does
not keep*) do not strike.

Each module ends with its properties. Where a run checks `Inv`, that is the
conjunction of the module's type invariant and the named parts below it, each with
its own comment: `NothingLeftBehind` of GoldSelect; `SameResult`, `SharedAccurate`
of Singleflight; `StopIsRight` of Timers; `Gated`, `WriteCounts`, `RightError` of
IoPipe; `InTurn`, `NotForgotten` of Pipeline; `CancelReachesChildren` of Context;
`NumOpenExact` of SqlPool; `CountExact` of HttpTransport. Likewise `EndsInTime` of
Context is `FollowsParent` and `DeadlineKept`, and `NobodyWaitsInVain` of
HttpTransport `IdleIsOffered` and `PlaceIsOffered`.
An operator marked *Mutant* is a plausible
mistake in the definition below it, used to show that a property can fail.

### How the models correspond to the code

**GoldChannel.** A process is one call; its message carries its name. A section
under `fLock` is one action (`SendAdd`, `ReceiveAdd`, `CloseNotify`, ...) because
the notifiers that run inside it take only private locks whose sections never
wait for `fLock`; the range alone keeps `fLock` between steps. `fLock` is a
Monitor: the goroutine that holds it enters it again, so a call made in the loop
body of a range (`host`) gets past it while all others wait (`CanLock`), and the
range goes on when that call is over (`GoesOn`). `RangeRaises` is `fData[0]` on an
empty list. Calls in a loop body are Sends, Receives and Closes on the same
channel, one at a time; a range inside a range over the same channel is left out.
What happens
outside the lock is split as finely as the code: the test of `fClosed` before
`AddItem`, the tests of `lDone` and of `fClosed` in the loops, `Monitor.Wait`
(which does not look again), the two fields of `Data`. `EmptyLambda` is the value
of `-> begin end` as a `Func<Boolean>`: the default, false. Hence `RemoveItem`
silences the messages in front without completing their `Send`s.

**Channel** knows nothing of locks: a message is put, passed to a waiting Receive
or taken; a Send returns with a place or when its message has left; a Receive
returns what it took. After Close it allows empty-handed returns, since that is
all the run time gives. The mapping (`GoChannel` in `GoldChannel`) reads `came`
and `sent` off the labels of the Sends, `got` off `fReceivedValue` and the result
off the tuple a returned Receive has. Each action of `GoldChannel` is one action
of `Channel` or a stutter: `SendAdd` is `Put` or `Pass`, `ReceiveAdd` `Take` or
nothing, the unlocked tests are nothing.

**GoldSelect.** `lLock` and `fLock` are explicit. A select holds `lLock` from
`Begin` to `AllStarted` or through the undo loop (`cancel`); `AddItem` and
`Cancel` hold `fLock` and ask for the `lLock` of the handles they meet
(`CanLock`). A handle is `<<process, case>>`. A plain call has one case and
waits for `lDone`.

**WaitGroup.** The sections under `fMutex` are single steps; `WaitTest` is the
unlocked first test. `Broadcast` moves the wait set of the monitor to `woken`;
a woken thread takes the mutex and tests again.

**Singleflight.** Each section under `g.mu` and each unlocked step (`RunFn`,
`WgDone`, the reads after `wg.Wait`, the leader's read of `dups`) is an action.

**Timers.** `now` counts nanoseconds, `Milli` of them a millisecond; what the
program sees of it is an `Int64` (`runtimeNano`, `Wrap`), as are the sum in `when`
and the difference in `AddTimer`. `asked` is the time `when` stands for, before it
is made to fit. `when(d)` and `AddTimer` are separate steps with the clock running
between them; so are `stopTimer`'s read of `Enabled` (`Stop`, `ResetReads`) and its
`Stop` (`StopTimer`), between which the timer may elapse (`raced`). The platform
timer is external: it elapses at or after its interval, calls every handler that
was added, refuses an interval of 0 and one above `MaxInt32`. The clock is taken
to be monotone, although `DateTime.Now` may be set back. On Island the handler is
assigned, not added, so `tm_reset` is about Echoes only.

**IoPipe.** A process makes one `Write`, or up to `Calls` `Read`s one after the
other (`Again`); the polling select, the making of the handles, the two `Start`s and the test of `fClosed` inside the second are
separate steps. `rdCh` is one step of both sides.

**Pipeline.** The two sections under `s.mu` are steps, and so are the steps of
`Send` and `Receive` on the client's channel. Numbers are modulo `Modulus`, and a
client that is through comes back, so behaviours are unbounded with no counter
to cap.

**Context.** A thread is a call of `WithCancel`/`WithDeadline`, of a `CancelFunc`,
an expired timer, or the goroutine of `propagateCancel`; `code` is what it still
has to do, one operation per mutex section. `cancel` pushes the calls for the
children before its own end and keeps `mu` of its context in between, which is how
the recursion under nested locks is expressed without a stack. The children come
in any order, as from a Go map.

**SqlPool.** A step is one hold of `db.mu`, or one wait for a connection's lock, a
channel or the driver. `ConnCached`, `ConnRequest` and `ConnOpen` are the three ways
through `conn`; `PutBad`, `PutTaken` and `PutRefused` those through `putConn`,
with `SendReset` after `db.mu` was given up; `CloseConn` and `FinalClose` are
`driverConn.Close` on whichever goroutine calls it; `CloseLocks`, `CloseDB` and
`CloseStops` are `DB.Close`, which holds `db.mu` while it waits for the idle
connections. Ages stand for `createdAt`. `maxIdle` is the value
`maxIdleConnsLocked` computes. Whether the driver's connections are
`SessionResetter`s is chosen at the start (`Resetters`); a `ResetSession` succeeds,
returns `ErrBadConn`, or returns an error that is stored and never looked at
(`unreset`). An error of `Connect` may be `ErrBadConn`, after which the call tries
again, or any other, which ends it (`Fails`).

**HttpTransport.** A step is one hold of `idleMu`, `connsPerHostMu`, `pc.mu` or `w.mu`
with what is nested in it, or one choice of a `select`. `want` is the state of each
`wantConn`, `home` a `putOrCloseIdleConn` that is under way, `loop` where a
`readLoop` is. `tryPutIdleConn` is two steps, since it tests `isBroken` before it
takes `idleMu`. A write error and the header time-out are `Breaks`. Whether a
failed request may be sent again depends on the kind of error, which is left open;
it may happen also after its response was read, as long as `readLoop` did not find
that the request had been written. Transport's `cancelRequest` takes the canceler
out under `reqMu` (`TakesCanceler`) and calls it later (`CancelsOwn` for the context
of the request itself, `canceling`; `CancelsOutside` for `CancelRequest`, `aborts`),
when the connection may serve another request. Likewise `readLoop` reads a
response (`ReadResponse`, loop `read`) before it drops the canceler
(`DropCanceler`, `rcReq`), be it by then that of a later attempt of the same
request. The wait of `mapRoundTripError` for `writeLoopDone` is left out: it comes
after `closech` is closed, `writeLoop` then ends, and it shares nothing else with
the pool.

## Runs

| run | shows | bounds |
|---|---|---|
| `ch_calls` | order, at most once, places, exclusion of the queues, results, bounds of the range; implements `Channel`; Sends with a place return; a range ends after Close | 2 Sends, 2 Receives, 1 range, 1 Close, each of the calls on its own or in the loop body; capacity 1 |
| `sel_mixed` | a select takes only what it returns and leaves no handle | 2 channels, one with a place and closed at some time; 3 selects, 2 plain calls |
| `sel_live` | a select that was told returns | 1 select, 3 senders, both channels closed at some time |
| `wg_wait` | barrier; every Wait returns | 3 tasks, 3 waiters |
| `sf_share` | shared results and flag, everybody served | 3 callers of one key, at most one `ForgetUnshared` |
| `tm_timers` | Stop is right but for the race that is named, less than a millisecond early; an armed timer fires | one timer of any kind, 3 ns to the ms, two starts, 15 ns across the largest `Int64` |
| `io_pipe` | bytes in order and counted; Close wakes sleepers with the right error | 2 Writes, 3 Reads by 2 readers, both Closes |
| `pl_order` | turns are kept for ever, nobody is forgotten, events begin unless a wake-up is lost | 3 clients, numbers modulo 3 |
| `ctx_tree` | cancellation reaches all below with the right error, keeps nothing, never deadlocks; deadlines are kept | 4 contexts on 3 levels, one below a foreign parent; 3 deadlines; 3 calls of CancelFuncs; 3 instants |
| `sql_pool` | exact count within its limit, one holder, reset before reuse, no waiting beside an idle connection, calls return | 2 clients, 2 connections, limit 2 lowered to 1, 2 faults, `resetterCh` of 1, drivers with and without `SessionResetter` |
| `http_pool` | exact count, one holder, no waiting beside an idle connection or a free place, requests end | 2 requests of 2 attempts, 3 connections, 2 per host, LRU of 1, 2 faults or calls of `CancelRequest` |

The bounds are chosen for the cases to happen. With one place, the second of two
Sends is beyond the buffer, is moved up when the first is taken and silenced; two
Receives and a range compete for a message. In `ctx_tree` the child asks for a
later deadline than its parent's, the parent for an earlier one than the root's,
and the time reaches both. Two clients and a limit of 2 that drops to 1 make
clients queue, connections exceed the limit and be refused; two faults are enough
to bring a client to its last attempt, one place in `resetterCh` to have it full.
In `http_pool` two requests on two connections with an LRU of one evict each
other, a third connection can be dialled while a closed one is still being
removed, and two faults exhaust the attempts. Two selects and a poll that share
two channels give every order of the two kinds of lock, `sel_live` has one select
because two of them can meet in the deadlock of `sel_cancel_deadlock`. The clock
of `tm_timers` starts 9 ns before the largest `Int64` of 50 and runs past it, and its
duration of 40 ns makes `when` overflow; timers share nothing but the clock, so one
is enough. Reads of one byte and of two make a Write of two bytes take one round or
two, and the third Read makes room for a byte of another Write between them. Three waiters distinguish waking one, some
and all. A modulus equal to the number of clients is the limit the comment of
`sequencer` allows. Three nanoseconds to the millisecond are enough for a rest
below, at and above half. Symmetry is used only in runs without temporal
properties. Deadlock is not checked: calls that end leave the system with nothing
to do, and goroutines may wait for partners that never come.

### What the code does not keep

The run `sel_cancel_deadlock` is expected to end in a violation: the undo loop of
a select takes `fLock` with `lLock` held, `AddItem` takes them in the other order,
and both wait for ever, where a comment says that the earlier cases are cancelled
and the completed one is returned.

Further configurations end in a violation too. They are kept for whoever changes
the code they are about and are run by hand (`tlc -config X.cfg <MC module>`).
TLC stops at the first violation: where a configuration has two rows, the property of the
other is taken out to see this one.

| configuration | what happens |
|---|---|
| `pl_lost_wakeup` | `Receive` tests `lDone`, is handed its value, and then waits: the `Pulse` is lost, and a `Start` whose turn has come never returns |
| `ch_range_reenter` | the loop body of a range receives from the channel, past the `fLock` it holds; the range has counted that message, `fData[0]` is out of range and the loop ends in an exception |
| `ch_close_race`, `OkWithValue` | a Receive that Close told reads the value, is handed one, and reads `fHaveValue`: it returns `ok` with no value |
| `ch_close_race`, `HandedIsReported` | a Receive tests `lDone`, is handed a value, and finds `fClosed` set: it returns `(nil, false)` and the value is lost |
| `io_read_closed` | a select skips a closed channel when another case is open: `Read` of a closed pipe sleeps for ever, where its doc promises EOF |
| `sql_send_closed` | `putConn` tests `db.closed`, gives `db.mu` up and sends on `resetterCh`, which `Close` of a DB with no idle connection has had closed: the send panics |
| `sql_stranded` | the last attempt of a call insists on a new connection; at `maxOpen` it queues beside idle connections and waits for ever |
| `sql_reset_discarded` | `ResetSession` fails with an error other than `ErrBadConn`, which `conn` does not look at: the next client gets a connection with the session of the last, although the lock was taken "to prevent it from being taken out before it is reset" |
| `http_interrupted` | `readLoop` puts a connection back before it passes the response on; as an idle one it is closed, and the request fails although it was answered |
| `sel_default_drop` | a non-blocking select leaves its send queued, and it is received later |
| `io_close_race`, `NoPanic` | a handle made before `Close` raises after it |
| `io_close_race`, `BlocksUntilClosed` | `fClosed` is tested before the lock: a handle is queued after `Close` told everybody |
| `tm_early`, `tm_overdue`, `tm_reset`, `tm_ticker` | truncation to milliseconds; an overdue timer armed for 24 days; one call of `f` per earlier start; a ticker that ticks once |
| `tm_stop_race` | a timer elapses between `stopTimer`'s read of `Enabled` and its `Stop`: Stop returns true and `f` is called |
| `tm_negative_clock` | ticks since the year 1 times 100 are a non-negative `Int64` only until 9 December 2046; after that `when` takes every sum for an overflow, and any timer is armed for 24 days or refused |
| `sf_forget_bug` | a forgotten call deletes its successor's entry, and two executions run for a key |
| `sf_share` with the property `DupsFixedOnceDone` | `dups` is written after the WaitGroup is done |

The models also have these behaviours, which no text of the repository rules out,
and the properties are stated around them:

- a `Send` that waits when its message moves up into the buffer is silenced
  (`RemoveItem`, line 164) and never told; `BufferedSendReturns` is about Sends
  that find a place when they come;
- a range sleeps on `fLock`, which neither a new message nor `Close` pulses (line
  296); `RangeEndsAfterClose` is about a range that is not asleep when Close comes;
- a send handle of a select that was silenced is received without telling the
  select, which may complete another case; `TakesWhatItReturns` is about selects
  of receives;
- after a Write failed with the exception of `io_close_race`, its slice is still
  queued and can be counted by another Write; `Gated` and `WriteCounts` are about
  pipes without that exception;
- one `Done` too many makes the counter of a WaitGroup negative, and `Wait`, which
  looks for 0, never returns; a Wait that was woken finds a task added meanwhile
  and sleeps again. The tasks of `WaitGroup` call `Done` once and are finitely many.

## Fairness

Weak fairness on each goroutine's steps: goroutines are threads of the platform's
pool (`Start` in `Gold.pas`), and a thread that can run does. Monitors are taken
to be fair enough that a thread which can enter again and again does so; in the
models a lock section is one step or is guarded by a lock that its holder gives
up, so weak fairness expresses this. Nobody is forced to begin a call, to close a
channel, to leave a range early or to forget a key. In `Context` a due timer fires, and time may stand still; in `SqlPool` queries,
`Connect` and `ResetSession` return, contexts need not expire and nobody has to
call `Close`; in `HttpTransport` dials end and servers answer or hang up, with no
time-out, cancellation or fault forced. In `Timers` the clock goes on
and pool threads run raised handlers; in `WaitGroup` a task that was added ends. A loop
body in `GoldChannel` ends unless it sleeps in a call on its own channel
(`BodySleeps`). `IoPipe` needs only that some step of the calls under way is taken
while there is one, since each call has finitely many.
No property relies on strong fairness.

## Proofs

`GoldChannelProofs` proves, for every capacity and any sets of calls, that

- every variable keeps its type, and a range leaves `fData` only because of its own
  loop body (`TypeCorrect`),
- a message and a receiver are never both queued (`QueuesExclude`),
- messages leave in the order they came (`FifoOrder`) and at most once (`AtMostOnce`),
- until Close a Send that returned was received or has a place (`Rendezvous`),
- until Close a Receive returns the value it was handed and `ok`, and at any time a
  value it returns is the one it was handed, with `ok` (`ReceiveReturns`),
- the detailed channel implements `Channel` (`Refinement`).

They rest on `ChannelAssumption` only (a natural capacity, disjoint sets of
calls). `NeverBothQueued`, `HandedOnce` and `ReturnedValue` are not inductive:
whether a returned Send or Receive was really served depends on who may set
`lDone`. The inductive invariant `IInv` is the conjunction of

- `TypeOK` and `RangeInBounds`, whose range holds `fLock` while it loops: hence a
  call that gets past it is in that range's body,
- `HostInv`: a Receive that has not begun is in no loop body,
- `CloseInv`: a Close past its write has set `fClosed`,
- `QueueInv`: what is queued, once, belongs to calls that have entered `AddItem`,
- `HeldInv`: what a Receive holds was handed over and is no longer queued,
- `DoneInv`: until Close, `lDone` of a call means that it was served,
- `ResultInv`: the fields a Receive has read are those of its message,

and each action has a lemma that it keeps it. `Fifo` is then inductive by itself
from `IInv`. `Refinement` takes each action to one of `Channel` or to a stutter
under the mapping described above; `IInv` gives what the steps of `Channel` ask for:
that a Send which returns has a place or was received, and that a returned Receive
has the fields of the message it took. TLC checked `IInv` for capacities 0 and 1
before it was proved.

`WaitGroupProofs` proves that `Wait` is a barrier (`Barrier`) and that the counter
never goes below zero (`TypeCorrect`), for any finite set of tasks. The invariant
adds that the counter is the number of outstanding tasks (`CounterInv`) and that a
task some Wait waits for is not announced again (`BeforeInv`).

`GoldSelectProofs` proves, for any channels and capacities, selects with any cases,
plain calls and closings, that a blocking select that returned has no handle queued
but that of the case it returns (`CancelledAll`), and that a select of receives takes
one value at most, that of the case it returns (`OneValueOnly`). Neither is inductive:
the first depends on what `Cancel` finds, the second on who may set `lDone`. `IInv` adds

- `QueueInv`: a handle is queued once, on its own channel, after its case was started,
  and never if it is nil, so that removing one occurrence removes the handle;
- `LeftInv`: what a select has queued while it cancels is still to be cancelled or is
  the case it returns;
- `LockInv`: a select that starts its cases holds its `lLock` and has no case recorded;
  one with nil handles only never has;
- `FireInv`: what a select of receives exchanged is the case in `lDone`, and that is
  the case it returns.

The assumption is that `Cases` gives each process a sequence of cases, one for a plain
call, and that the names of channels and processes differ. The deadlock of
`sel_cancel_deadlock` contradicts none of this: a select that never returns leaves
nothing behind.

`SingleflightProofs` proves that every caller gets the value of the call it joined and
the leader reports truly whether it was shared (`CallersServedRight`), for any callers,
keys and calls of `ForgetUnshared`. `IInv` says where a record is in its life
(`RecordInv`), that `g.m` holds unfinished records under their own key (`MapInv`), that
nobody joins after the leader's result (`LeadInv`) and that `dups` and `chans` describe
those who joined (`CountInv`). Its second theorem (`OneInFlightUnlessForgotten`) has the
hypothesis `NoForgets`, that `ForgetUnshared` is never called; without it the claim is
false, as `sf_forget_bug` shows.

`TimersProofs` proves that Stop tells the truth about a timer that was not Reset, unless
it elapsed between the two steps of `stopTimer` (`StopTellsTheTruth`), and that no timer
elapses a millisecond or more before the time it was asked for, unless `when` could not
express that time (`NotAMilliEarly`), for any timers, durations and length of a
millisecond. `IInv` adds one handler per start (`StartInv`), no call before the first
elapse (`FirstInv`) and the time the platform timer is armed for (`DueInv`), which rests
on facts about rounding and about differences that wrap. The clock may stand anywhere in
the range of `Int64` when the program starts and may wrap once; the assumption is that
the program runs for at most `MaxInt64` nanoseconds, 292 years.

`PipelineProofs` proves that events happen in the order of their numbers and the `End`
before a waiting client finds it (`EventsInOrder`), and that the panic of
`sequencer.End` is not reached (`NeverOutOfSync`), for any finite set of clients not
larger than `Modulus`. The heart of `IInv` is `NumInv`: the clients that have not ended
their response hold consecutive numbers from the response sequencer's up to
`Pipeline.id`, so numbers differ also when they wrap. `TurnInv`, `SendInv`, `WaitInv` and
`FoundInv` say who has the turn, who is being notified and whose channel is in the map.

`SqlPoolProofs` proves the five safety properties of the pool (`OpenCountExact`,
`NeverSharedNorLost`, `UsedOnlyWhenReset`, `IdleOnlyWhenServed`, `WithinLimit`) for any
finite sets of clients and connections, any limits, any size of `resetterCh` and drivers
with and without `SessionResetter`. `IInv`
consists of `HoldInv` (a connection is idle, in one hand or gone), `RequestInv` (a queued
request has nothing sent to it), `LockInv` and `DirtyInv` (the lock taken for a reset has
one owner, and a used connection stays locked or bad until it is reset or its reset
failed with an error that is discarded), `CountInv`
(`numOpen` against what exists, is being opened or was asked for) and the two properties
that are inductive beside them.

`HttpTransportProofs` proves the three safety properties of the transport (`CountIsExact`,
`OneHolderAlways`, `NobodyWaitsInVainAlways`) for any finite sets of requests and
connections and any limits. None is inductive: the count depends on nobody closing a
connection that was never dialled, the one holder on where a `readLoop` may still find a
request, the queues on which `wantConn`s are in them. `IInv` adds

- `HandInv`: what may have a connection is a request, a `wantConn`, the LRU, a
  `putOrCloseIdleConn` or the `readLoop` about to put it back. Two never have the same
  one, closed or not (`Unique`), and while it is not closed somebody has it unless its
  `readLoop` is on its way out (`Kept`). Each step passes a connection from one to the
  next, closes it, or leaves it alone (`Calm`); the lemmas `ToReq` to `ToPutting`,
  `CalmReq` and `CalmSame` are these cases;
- `ReqInv` and `AliveInv`: a request that was answered and has not returned keeps the
  `readLoop` where it will reply, and a `readLoop` that replies on an open connection
  finds its request: that is why it goes on to the next `Peek` and the connection it has
  put back is served;
- `AskInv`: a request whose own cancellation is under way is on its connection, and a
  connection that `CancelRequest` is about to cancel was dialled, so that closing it late
  lowers the count once at most;
- `NewInv`: a `wantConn` of a later attempt is untouched, and in neither queue nor dial
  before `queueForDial`;
- `QueueInv`: a `wantConn` that waits is in `idleConnWait`; `connsPerHostWait` has each
  once, and only while it is not dialled for.

The assumptions are positive limits, finite sets and that a connection differs from
`None` and from the other values of a `wantConn`. `cleanFront`, the search of
`queueForIdleConn` from the end of the list and the eviction from the LRU come in through
lemmas about the elements of sequences without repetitions.

Every `IInv` was checked by TLC on the module's run before it was proved. The bounds of
the models (attempts, faults, starts, the last instant) are parameters of the theorems.

Only model-checked: everything about `IoPipe` and `Context`, and every liveness
property: fairness and ENABLED are outside what TLAPS proves. `IoPipe` compares the bytes
read with the bytes written by filtering sequences (`SelectSeq`), and `Context` turns the
loop over the children into one program (`FlattenSeq`); what these compute for every
sequence needs an induction over data that the installed provers do not make.

## Not modelled

Listed in `PROJECT.json` with reasons: platform wrappers (files, sockets,
reflection, atomics), sequential packages unchanged from Go (crypto, compress,
image, encoding, text), and the parts the plan below takes up. The nil channel
`fZero` is not modelled: `Send` and `Receive` on it do not occur in the packages.
Of `database/sql`, prepared statements, transactions and `Rows` are left out, with
changes of the maximal lifetime while the pool runs; a connection is used by one
`ExecContext` at a time. `DB.Close` does not wait for the queries that have
started, as its doc says it does; no property states either. Of the transport,
HTTP/2, TLS, proxies and the processing of headers and bodies are left out: they
do not touch the state of the pool. The packages that remain are sequential and
unchanged from Go; most of the lines of the repository are tables and such code.
Reentrance of `lLock` (a select with both directions of one channel) is not used
by any run.

## Plan

Done: the channel with its proofs and the abstract channel it implements, select,
WaitGroup, singleflight, timers, Pipeline, the pool of `database/sql` and the
connections of the HTTP transport with their proofs, `io.Pipe` and `context`. Next:

1. Theorems about `Context`, with the loop over the children as a set of calls still to
   be made in place of the flattened program.
2. The rest of `sync`: `Once` (two tests of `fDone`, an exception in between),
   `Cond.Signal`, `Pool`, `Map`; on them the `http2` pipe and the encoder cache of
   `encoding/json`.
3. Statements and transactions of `database/sql` on the pool.
4. `append` and `copy` on shared arrays, UTF-8 conversion, heap and list, as
   operators against reference definitions.
