# Verification of go-concurrency-patterns

TLA+ models of the concurrent components of this repository, the TLC
configurations that check them, and proofs for TLAPS.  Paths below are relative
to the repository (`src/` here).

## 1. The system

The repository is a collection of small packages.  `registry` holds the example
functions by name and `cmd/gopatterns` runs one of them; apart from that the
packages do not call each other.  Within a package, goroutines interact through
channels, a mutex, atomics and contexts.

| component (source) | state | operations | what is hard | what makes it correct |
|---|---|---|---|---|
| fixed worker pool (`pools/workerpool`) | queue channel, `closedCh`, pool context, `closeOnce`, `mu`, `wg` | `NewPool`, `TrySubmit`, `Submit`, `SubmitWithContext`, `Close`, `Wait`, worker loop | send against close, Close under contention for `mu`, select between context and queue, retries that sleep | no send on a closed channel, jobs conserved in FIFO order, Close and Wait return, submissions return |
| dynamic worker pool (`pools/workerpooldyn`) | the same, and the atomic worker count | the same, `maybeScaleUp`, idle reaping with compare-and-swap | increments that are taken back, stale counts, scale-up after `mu` is released | exact count, hard cap, minimum alive, no worker after Wait |
| semaphore (`pools/semaphore/semaphore.go`) | token channel, `closed`, `mu` | `Acquire`, `TryAcquire`, `Release`, `With`, `Close` | waiters that give up, Close while users hold or wait | capacity respected, no token lost, waiters served |
| graceful shutdown (`orchestration/shutdown`) | job channel, `closed` channel, context, `wg` | `Submit`, `Shutdown` in three phases, worker loop | Submit against Shutdown, Shutdown against itself, timeouts against a late end | reports are true, everything drained or cancelled, Shutdown returns |
| stream functions (`flows/*`) | unbuffered channels, contexts | `Source`, `Map`, `OrDone`, `Tee`, `FanOut`, `ChunkedSource`, `Bridge`, `numbers`, `Or`, `OrContext`, `After` | cancellation at every point of a select, who closes a channel, slow consumers | order, no loss, closed once, everybody ends |
| healing (`scale/healing`) | ward context, heartbeats, stream of streams | `newSteward`, `doWorkFn`, `irresponsibleWard`, `bridge`, `orForward`, `take` | spurious timeouts, a replaced ward that is still emitting or still waiting to publish | streams not mixed, nothing lost, replaced wards end |
| rate limiter (`scale/ratelimit`) | tokens, last refill, `mu` | `Wait`, `WaitN`, `advance` | waiters sleep without the lock and compete when they wake; refill, cap and deficit at their boundaries | exactly burst + rate * time is admitted, waits are predicted to the nearest nanosecond, callers return |
| heartbeats (`scale/heartbeat`) | pulse and result channels, tickers, the monitor's timer | `doWork`, `worker`, monitors | pulses are dropped when nobody listens, ticks when one is waiting | a healthy worker is not taken for dead, everybody returns |
| context-aware connection I/O (`orchestration/contextio/contextio_net.go`) | two deadlines of the connection, goroutines that wait for contexts | `readContext`, `writeContext`, `serveEcho` | the goroutine of an old context sets the deadline of a new call | a call fails only for contexts of its direction, and returns with its own |
| condition variables (`primitives/cond`) | queue, list of the condition | `push`, `pop`, `subscribe`, `Broadcast` | a woken popper finds the queue empty; a listener announces itself before it waits | every item is popped, once and in order; a listener hears the broadcast (which is not so, see section 5) |
| command line and registry (`cmd/gopatterns`, `registry`) | a map | register, look up, run | sequential | the chosen example runs, and main comes back |
| error group (`orchestration/errgroupx`) | places, first error, context of the group | `Go`, `pretendWork`, `Wait` | failures, deadline and cancellation race | Wait returns, with an error that is a cause and not a cancellation that followed from one |
| weighted semaphore, context-aware writer, other `primitives/*` | library objects | one example each | an unsynchronized counter in the pool example | as documented by the libraries |

## 2. Modules

| module | models | correspondence |
|---|---|---|
| `Executor` | what a pool promises, abstractly | accept while open, start in order, at most `Parallelism` at a time, nothing runs after stop |
| `WorkerPool` | `pools/workerpool/workerpool.go` | `pc` is the next step of a caller or closer, `worker` of a worker; `accepted` and `started` are histories; `mu` is the caller that holds the lock between two steps |
| `WorkerPoolProofs`, `DynPoolProofs`, `SemaphoreProofs`, `ShutdownProofs`, `HealingProofs`, `FlowsProofs` | theorems about the modules of these names | see section 6 |
| `MainProofs` | theorems about `RateLimit`, `Heartbeat` and `ConnDeadline` | see section 6 |
| `Histories` | lemmas about sequences that grow at their end | used by the proofs of the pools, the service, healing and the streams |
| `DynPool` | `pools/workerpooldyn/workerpooldyn.go` | as `WorkerPool`; every atomic access to `p.workers` is a step (`ScaleLoad`, `ScaleAdd`, `ScaleUndo`, `ReapLoad`, `ReapSwap`, `DecWorker`) |
| `Semaphore` | `pools/semaphore/semaphore.go` | users follow the protocol of `With`; `waiting` is the runtime's queue of parked senders |
| `Shutdown` | `orchestration/shutdown/shutdown.go` | phases as `pc` of a stopper; a panic of a channel operation sets `crashed` and ends everything |
| `Flows` | all of `flows/` | a network says what each goroutine listens and sends to; `Source`, `Relay`, `Tee`, ... build the goroutines of the functions with the same names (`Relay` is `OrDone` and `Map`), the actions are the loops around their selects.  `net` is the network of the chosen example (`Start`); the names of the channels that Bridge and Or make are constants, and their number is the number of chunks and timers |
| `Healing` | `scale/healing/healing.go` | one variable per goroutine of the supervisor and of the stream behind it |
| `RateLimit` | `scale/ratelimit/ratelimit.go` | from taking the lock to the return or the sleep is one action (`Grant`, `Refuse`, `Sleep`); a tick is a nanosecond, and brings `Rate` of the `Cost` units of an event; `elapsed` is what the time since `l.last` has brought.  Tokens are exact, waits are whole ticks, rounded as line 99 rounds them (`Predicted`) |
| `Heartbeat` | `scale/heartbeat/*.go` | both workers and both monitors; time in half intervals for the one with tickers |
| `ConnDeadline` | `orchestration/contextio/contextio_net.go` | `deadline` of each direction names the context it belongs to; `watchers` counts the goroutines that wait for a context; the client makes any calls |
| `ErrGroup` | `orchestration/errgroupx/errgroupx.go` | the tasks given to the group and the library's bookkeeping: places, first error, context |
| `Cond` | `primitives/cond/*.go` | `asleep` is the list of the condition; `Wait` gives up the lock and joins it in one step; `popped` is the history of all poppers, `got` counts what each has |
| `Main` | `cmd/gopatterns/main.go` | composes `Flows`, `RateLimit`, `Heartbeat`, `ConnDeadline`, `Cond` and `ErrGroup`: `example` is the name that main looks up, and only the goroutines of this example move |
| `MCWorkerPool`, `MCDynPool` | instances for TLC | symmetry sets |
| `MCMain`, `MCFlows` | instances for TLC | names of the channels of Bridge and Or |

An action is the code between two points at which other goroutines can observe
the goroutine: a channel operation, a select, a lock, an atomic access.  Code
under a mutex that nobody can observe in between is one action together with
taking the lock.  A select with several ready cases is a choice.  Two details of
the Go runtime matter and are modelled: a receiver (or sender) that is parked in
its select is served directly, past the buffer, and waiters are served in the
order in which they parked.

Operators marked `\* mutant:` are deliberate mistakes.  They are not used by the
models; each is swapped in for the definition it is derived from to confirm that
a property fails when the code is wrong in that way.

## 3. Runs

| run | configuration | what it shows |
|---|---|---|
| `pool` | `WorkerPool_all` | no channel panic, FIFO conservation, `Executor` implemented; Close and Wait return, submissions return, no worker sleeps on a backlog |
| `pool_drain` | `WorkerPool_drain` | finding: jobs may stay in the queue |
| `dyn_try` | `DynPool_try` | with TrySubmit only: minimum kept, quiet after Wait, `Executor` implemented, Close and Wait return, no stranded backlog |
| `dyn_mixed` | `DynPool_mixed` | with both kinds of submission: no channel panic, exact count, hard cap |
| `dyn_min` | `DynPool_min` | finding: fewer than `minWorkers` |
| `sem` | `Semaphore_all` | capacity, tokens accounted for, waiters exact, no starvation before Close |
| `sem_close` | `Semaphore_close` | finding: Close does not end a blocked Acquire |
| `shutdown` | `Shutdown_all` | "drained" means processed, `Executor` implemented, draining without timers, return without workers |
| `shutdown_race` | `Shutdown_race` | finding: Submit can panic |
| `examples` | `Main_all` | fifteen examples, one of which main runs: the eight of `flows/` (channels safe, delivery in order and complete, Tee in step, cancellation ends everybody, Or collapses), the rate limiter, two heartbeats, connection I/O, Signal (all items, in order) and Broadcast, and the error group; main returns |
| `flows_leak` | `Flows_leak` | finding: the producer behind OrDone is not released |
| `healing` | `Healing_all` | streams in turn, nothing lost, replaced wards end, the stream resumes, everybody ends |

Runs with temporal properties use no symmetry.

### Bounds

* Pools: two or three worker goroutines, one caller of each kind, one or two
  closers, three or four jobs, a queue of one.  With four jobs in `pool` both
  workers can be stuck in a job and the queue full while a caller still tries to
  submit; two closers race, and jobs overtake each other if they can.  Jobs differ
  only in their names, so they are submitted in a fixed order (`NextJob`); a job
  that was refused is the next one to be submitted again.  `DynPool` has one
  goroutine identity (`Slots`) more than `MaxWorkers`, so that a worker that has
  left the count may still be on its way out while another is started.
* Semaphore: four users on two tokens, hence two parked users whose order counts.
* Shutdown: two workers, one submitter, two concurrent Shutdown calls, three jobs.
* Rate limiter: two callers with two calls each, for none to three events, a burst of two,
  deadlines up to two ticks or none.  An event costs four units and a tick brings three, so
  waits of one and of two events are rounded down and up, also to nothing at all: a waiter
  can wake before its tokens are there, find them overdue, be overtaken by the other one,
  refused, cancelled, and sleep twice.
* Heartbeats: three units of work; the clock of the other worker runs round, so that
  example is complete.
* Connection I/O: two contexts, each with or without a deadline, two calls, room for
  one line: a call can follow one whose context is still being waited for.
* Cond: two poppers of two items each (the example has one of five; two of them make
  a woken popper find the queue empty), three listeners.
* Error group: four tasks at a limit of two, of which the second and the third fail (the
  example has three, of which one fails), so that failures race each other.
* Flows: three items, two chunks, three fan-out workers, and six channels for Or,
  which make a tree of depth three with both shapes of its last level.  The
  generator, which has no end, is cut off after `Items` values.
* Healing: two wards of which the first may be replaced, failing after two
  values, and three values wanted, so that one ward is never enough.  The safety
  invariants also hold with three wards (5.1 million states; not a listed run).

### Fairness

A goroutine that can move does so (weak fairness of its steps).  The condition
of `WorkerPool` is one per goroutine, over all steps it must take.  Strong fairness
is used in two places: for taking a `sync.Mutex`, whose starvation mode hands
the lock to a goroutine that has waited long enough, and for a select that
has other ready cases again and again, because select chooses at random.  Nothing is
assumed about contexts, about timers whose firing is not needed, or about jobs
before the pool context is cancelled: jobs may run for ever.  After the
cancellation jobs are assumed to return, for which they get the context.
In `RateLimit`, `Heartbeat` and `ConnDeadline` time goes on, which is all that a timer
needs; in `Heartbeat` it waits for the worker, and for a monitor that is listening, as
long as they have something to do, which is to say that they take much less than half
an interval.  `NoFalseAlarm` rests on this; the monitor may print for as long as it likes.
In `Shutdown` the two assumptions are kept apart and are antecedents of the
properties: the backlog drains if the goroutines run (`GoroutinesRun`),
whatever the timers do, and Shutdown returns if the timers fire (`TimersFire`),
whatever the workers do.

## 4. Properties worth knowing

* `FifoConservation`: `accepted = started \o queue`.  Jobs start in the order of acceptance
  although a submitter may hand a job straight to a parked worker, and none is lost or
  started twice.  In the dynamic pool no run names it: there it is proved, and part of what
  `ImplementsExecutor` checks.  That no job is submitted twice is also part of the latter.
* `ImplementsExecutor`: the refinement mapping sends "open" to "the queue is not
  closed" and "stopped" to "some Wait has returned".  For the dynamic pool it
  holds as long as only TrySubmit is used, since TrySubmit scales up under `mu`.
* `CounterExact`: `p.workers` equals the goroutines that have not left the count,
  plus increments on their way to a goroutine or to being taken back.
* `TokensExact`, `WaitersExact` (semaphore): after Close, tokens are stranded
  (Release returns `ErrClosed` first); the invariant counts them.
* `DrainedMeansProcessed`: needs "nothing was cancelled".  A second Shutdown after a
  hard cancel reports "drained gracefully" about jobs that were cut short.
* `Delivery` (flows): for Bridge the order without gaps holds until a context is
  cancelled.  After that, inner streams may be cut short and Bridge may still pick
  the next one, as both cases of its select are ready.
* `RateExact`: what has been granted ahead of the rate (`owed`, which falls by one unit
  with every tick) and what is to be had now add up to the burst.  This is the whole
  promise of a token bucket: in no stretch of time more than burst plus refill, and
  nothing withheld.
* `WaitPredicted`: when the timer of a sleeper that nobody overtakes fires, less than half a
  nanosecond's refill is missing, and its tokens have been there for half a nanosecond at
  most.  More is not true: the wait is rounded, and a waiter that wakes early goes round its
  loop once more, for a wait that is rounded again, to one tick or to none.  Sleepers are not
  ordered, so one that wants much may be overtaken by others; with finitely many calls all
  return (`WaitReturns`), although each of them may turn more than once.
* `TimeoutCulprit`: a call times out only because of a context of its own direction, its own
  or an earlier one that had no deadline.  This bounds what a goroutine of an earlier call
  can do; that a call fails only for its own context (`TimeoutsOwn`) is not so, see section 5.
* `MainReturns`: for the error group it also says that the error is the cause, a failure
  or the deadline, and never the cancellation of a task that followed from it.
* `ItemsPopped`: in the end every item has been popped, once and in the order of the pushes,
  by poppers that take each other's items and go back to sleep.  One Signal too few would
  leave items in the queue, and a pop at the wrong end would show in the order.
* `WardsInTurn` (healing): wards need not publish in the order in which they were
  started: a replaced ward that is still waiting may publish after its
  successor.  What holds is that streams are never mixed.

## 5. Findings

1. `pools/workerpool`: Close cancels the context before the workers see the end of the
   queue, so accepted jobs can remain although Close is documented "to signal
   workers to drain" (run `pool_drain`).
2. `pools/workerpooldyn`: the transient increment of `maybeScaleUp` lets reapers fall
   below `minWorkers`, down to none, with a job in the queue (run `dyn_min`).
3. `pools/semaphore`: an Acquire that is blocked when Close runs stays blocked unless its
   context ends (run `sem_close`).
4. `orchestration/shutdown`: Submit that has passed its check sends on a closed
   channel (run `shutdown_race`).
5. `flows/ordone`: cancelling the wrapper does not release the source, which
   stays blocked in its send (run `flows_leak`).

### Further counterexamples

Four more properties do not hold of the code.  They are not among the runs of section 3,
which state one violation for each component; each has a configuration of its own, under
which TLC shows the trace (`tlc -config <configuration> <module>`):

| configuration | module, property | what happens |
|---|---|---|
| `DynPool_late` | `MCDynPool`, `StoppedAfterWait` | SubmitWithContext scales up after it has released the lock (`workerpooldyn.go:205-207`).  If Close and Wait come in between, a worker is started after Wait has returned, which is documented to block "until all workers exit" (line 258).  It may even start a job that was left in the closed queue, though with a cancelled context. |
| `Shutdown_twice` | `Shutdown`, `NoPanic` | two Shutdown calls both find `s.closed` open (`shutdown.go:95-100`) and both close it; the comment speaks of "idempotent intake close" |
| `ConnDeadline_stale` | `ConnDeadline`, `TimeoutsOwn` | the goroutine that waits for a context without deadline outlives its call (`contextio_net.go:56-59`) and makes a later call of the same direction, whose context is alive, time out |
| `Cond_click` | `Cond`, `ListenersNotified` | `Broadcast` comes between a listener's announcement and its `Wait` (`broadcast.go:27-30`); the listener sleeps for ever, and main waits for it |

What remains true in these cases is checked: `CounterExact`, `HardCap` and `NoChannelPanic` for
SubmitWithContext, the reports of two concurrent Shutdown calls up to the panic, and
`TimeoutCulprit`.  `MainReturns` does not speak of the broadcast example.

### Observations

In the dynamic pool, with three concurrent callers the counter
overshoots `maxWorkers` by two, where a comment speaks of one.  In
`flows/selectloop` (`selectloop.go:52`) the producer stays blocked once the worker has left.
In `scale/healing`, `doWorkFn` with an empty list spins without looking at its context.  In
`orchestration/contextio` a context that has a deadline is not watched, so that its
cancellation is noticed only when the deadline passes.  `WaitN` serves a call whose
context is done if its tokens are there.  In `primitives/pool` the
counter in `New` is incremented without synchronization.

## 6. Proofs

Every theorem holds for all values of the constants that satisfy the assumption of the module
it is about; what else it needs is a hypothesis in its statement.  A proof has three parts:
an invariant that is stronger than the property, the steps that keep it, one by one, and the
property as a consequence.  The strengthened invariants were checked by TLC on the
configurations of section 3 before they were proved.

### `WorkerPoolProofs`

For any sets of workers, callers, closers and jobs and any queue size, from `PoolAssumption`:

| theorem | statement |
|---|---|
| `TypeCorrect` | `Spec => []TypeOK` |
| `QueueGuarded` | `Spec => []NoChannelPanic` |
| `Fifo` | `Spec => []FifoConservation` |
| `Implements` | `Spec => ImplementsExecutor` |

`TypeOK` is inductive except for one point: a caller that sends must have a
job, hence its conjunct about `call`.  Lemma `SendType` covers the two ways a send can go.

`NoChannelPanic` is not inductive.  The proof uses `CloseInv`, the conjunction of

* `LockInv`: the caller in its send step is the holder of `mu`; so while it is
  there, `CloseQueue`, which needs `mu` free, cannot run;
* `OnceInv`: at most one closer is past `closeOnce`, only while `once = "busy"`, and
  the channels are closed only as far as this closer has come;
* `NoChannelPanic` itself.

`FifoConservation` is not inductive either: a hand-off to a parked worker
appends to both histories and skips the queue, which is right only if the queue
is empty.  `ParkInv` says so: while a worker is parked the queue is
empty.  `FifoInv` is the conjunction.

The refinement needs all of this and three facts more, together `RefInv`: a job is submitted
at most once (`JobsDistinct`), a worker has a job exactly while it runs it, a started one and
nobody else's (`RunInv`), and after a Wait all workers are gone (`WaitInv`).  Then a send to
the buffer is the abstract `Accept`, a hand-off is `HandOff`, a receive is `Start`, the
end of a job `Finish`, closing the queue `Close` and the return of Wait `Stop`; every other
step is a stutter.  That `Start` takes the job whose turn it is follows from the lemmas of
`Histories` (`NextToStart`, `MoveHead`).

### `DynPoolProofs`

For any bounds on the number of workers, from `DynPoolAssumption`:

| theorem | statement |
|---|---|
| `Exact` | `Spec => []CounterExact` |
| `Capped` | `Spec => []HardCap` |
| `Guarded` | `Spec => []NoChannelPanic` |
| `MinAlive` | `CtxCallers = {} => (Spec => []MinWorkersAlive)` |
| `Fifo` | `Spec => [](FifoConservation /\ IsInjective(accepted))` |
| `StoppedForGood` | `CtxCallers = {} => (Spec => []StoppedAfterWait)` |
| `Implements` | `CtxCallers = {} => (Spec => ImplementsExecutor)` |

`CounterExact` includes the types and is inductive with them.  The work is in the counting:
`CountEffect` says by how much each atomic access changes the sets that are counted,
and one of these changes always meets that of `p.workers`.  `HardCap` follows: an increment
that finds the counter above the maximum never becomes a goroutine.  `Guarded` is the argument
of `CloseInv` for callers that release `mu` at different points.

`Fifo` is for callers of both kinds: the dynamic pool conserves and orders the jobs as the fixed one
does (`FifoInv`, `JobsDistinct`, `RunInv`, together `JobInv`), although here a caller keeps its job
while it scales the pool up after the send.

`MinAlive`, `StoppedForGood` and `Implements` hold only without SubmitWithContext, and the
hypothesis says so: run `dyn_min`
refutes `MinWorkersAlive` with it, and a late scale-up starts a worker after Wait.  With
TrySubmit alone the region from the send to the return is under `mu` (`RegionInv`), so the
counter that a caller has loaded cannot grow before it adds to it (`RoomInv`): nobody overshoots
and the transient increment never exists.  With `ReapInv` (a worker about to drop itself has
seen more than the minimum), `StopInv` (other exits only while the pool is being closed) and
`DoneInv` (nobody is in the region once the queue is closed) this is `TryInv`.

`Implements` is the argument of `WorkerPoolProofs` on `RefInv` (`JobInv`, the channel invariant and
the count), with the theorems `Capped` and `StoppedForGood` as facts about the steps: a worker that
takes a job is counted and not running one, so `HardCap` leaves room for it below `MaxWorkers`
(`RoomToRun`); and since it is live, no Wait has returned.  The latter is all that is
missing with SubmitWithContext.

### `SemaphoreProofs`

For any finite set of users and any capacity, from `SemaphoreAssumption`:

| theorem | statement |
|---|---|
| `TypeCorrect` | `Spec => []TypeOK` |
| `Waiters` | `Spec => []WaitersExact` |
| `Tokens` | `Spec => []TokensExact` |
| `Capped` | `Spec => []CapacityRespected` |

`WaitersExact` is inductive; lemma `Unqueue` says what the removal of one waiter does to
the queue.  `TokensExact` is inductive relative to it: Release hands its token to
the first waiter, who must not be a holder already.  The lemmas `Enter`, `Leave` and
`PassOn` count the holders through the three kinds of steps.  `Capped` follows, since the
channel holds no more than `Capacity`.

### `ShutdownProofs`

For any workers, submitters, concurrent Shutdown calls, jobs and queue size, from
`ShutdownAssumption`:

| theorem | statement |
|---|---|
| `Drained` | `Workers # {} => (Spec => []DrainedMeansProcessed)` |
| `Implements` | `Spec => ImplementsExecutor` |

A service without workers reports a drain at once and drops what was queued, hence the
hypothesis.  The invariant is the conjunction of the types (`Typed`), `FifoInv`, `JobsDistinct`
and `RunInv` as in the pool, and of three facts about an uncancelled service: a worker leaves
only when the intake is closed and empty (`LeaveInv`), it lets go of a job only when it has
processed it (`BalanceInv`), and a Shutdown has returned only after all workers have
(`DoneInv`).

### `MainProofs`

The limiter for any callers, burst, rate and deadlines, from `RateAssumption`; the others as
parts of `MainSpec`, for any number of units, calls and contexts:

| theorem | statement |
|---|---|
| `TypeCorrect` | `Spec => []TypeOK`, of `RateLimit` |
| `Exact` | `Spec => []RateExact` |
| `Prediction` | `Spec => []WaitPredicted` |
| `NeverDead` | `MainSpec => []NoFalseAlarm` |
| `Culprit` | `MainSpec => []TimeoutCulprit` |

Both properties of the limiter are inductive, given the types.  The lemmas `Stored` and
`Refill` say what `advance` and the passing of a tick do to the tokens that are to be had;
`Rounded` is the rounding of line 99, from `Division`, the bounds of an integer quotient.

`NeverDead` rests on `PulseInv`: when half of the monitor's time has passed, either a pulse is
waiting or the clock is between two ticks, so that one will be there in time.  `CulpritInv`
says of whom a deadline of the connection can be: of the call that is being made, or of a
goroutine that waits for an earlier context of the same direction, which has no deadline.

### `FlowsProofs`

For networks of any size, as parts of `MainSpec`, from `FlowsAssumption`: sources of any length,
any workers of FanOut, any number of chunks of Bridge and of timers of Or.

| theorem | statement |
|---|---|
| `Channels` | `MainSpec => []ChannelsSafe` |
| `InStep` | `MainSpec => []TeeInStep` |
| `Delivered` | `MainSpec => [](example # "bridge" => Delivery)` |
| `Completed` | `MainSpec => [](example # "bridge" /\ (example = "fanoutin" => FanWorkers # {}) => Complete)` |

`Channels` does not look at the single examples.  `Sound` says what the networks have in common:
every channel has one goroutine that closes it, which is its only sender or has waited for
all senders.  It is proved of every network, from lemmas about the functions that build them.
On sound networks `FlowInv` is inductive: a channel is closed only when its closer has left,
who left after everybody it waited for.

The other three are about what is received.  In a line every goroutine has one input, which
nobody else receives from.  As its values are numbered, the state of a goroutine tells how many
it has received and passed on, and `LineInv` compares the two ends of each channel (`EdgeInv`):
they are equal, or differ by one if the sender still has to serve another output.  A goroutine that
leaves uncancelled has received everything (`PlaceInv`).  Pipeline, OrDone, Tee, the
generator and the select loop are lines.  For the fan `FanInv` says that every item sent is
with main or with one worker, and in one place only.  FanOut with no workers closes its output at
once, hence the hypothesis of `Completed`; the example has four.

For Bridge, `Delivery` and `Complete` are only model-checked.  There an item is `10 * c + i`,
which names chunk and position as long as there are fewer than ten items.

### `HealingProofs`

For any number of wards, of values per ward and of values wanted, from `HealingAssumption`:

| theorem | statement |
|---|---|
| `InTurn` | `Spec => []WardsInTurn` |
| `NoneLost` | `Spec => []NothingLost` |

`Shape` has the types, the wards that the steward has started so far (`StewardInv`), and which
stage of the stream holds a value (`StageInv`).  `WardsInTurn` needs besides that a ward emits
only into the stream that is being read, and has published it before (`TurnInv`); a ward that was
given up but is being read goes on, while its successor is not read yet.  `NothingLost` is
inductive with `Shape`: each stage passes its value to the next.

### Only model-checked

* Liveness, and ENABLED, which are out of reach of the prover.
* `Delivery` and `Complete` for Bridge.
* `Cond` and `ErrGroup`, whose properties are about liveness.

Where no theorem says it, the type invariant of a module is a conjunct of one of the
properties that a run checks (`CounterExact`, `DrainedMeansProcessed`, `ChannelsSafe`,
`WardsInTurn`); the small modules `Heartbeat`, `ConnDeadline`, `Cond` and `ErrGroup` do not
state one; the proofs about the first two have what they need in their invariants.

## 7. Not modelled

* `orchestration/contextio/contextio.go`,
  `pools/semaphore/semaphore_sync.go`, `primitives/once`, `atomicx`, `waitgroup`, `mutex`,
  `pool`: one or two calls of a library around fixed delays, in a single file without
  state of its own; the logic is the library's.
* `registry` and `cmd/gopatterns` beyond running the chosen example: flags, listing and
  printing are sequential.
* The example `main` functions of the pools and of the semaphore, beyond the calls they make.
* The pools, the semaphore, the shutdown service and healing are also registered as
  examples; they have runs of their own with concurrent callers, which the examples lack, and
  are therefore not part of `Main`.
* Floating point: `RateLimit` models the rounding of waits to whole nanoseconds, but its
  tokens are exact, where those of the code are `float64`, and timers fire in the tick for
  which they are set or later, never before.
* Time elsewhere: timers and tickers of the other modules may fire at any moment.  Bounds on
  durations, such as the back-off of SubmitWithContext, are not expressed.

## 8. Plan

`Delivery` and `Complete` for Bridge remain to be proved: the chunk that is being read, and how
far, determine what has been received.
