# A TLA+ verification of go-kitsune

Kitsune builds data pipelines out of generic stages (`Map`, `Filter`, `Take`,
`Merge`, ...) that run as goroutines connected by bounded Go channels. This
directory models the library in TLA+, checks the models with TLC and proves
their safety with TLAPS.

## 1. Inventory of the system

| Part | Source | State | What makes it correct |
|---|---|---|---|
| Pipeline runtime | `pipeline.go`, `kitsune.go`, `internal/runner.go` | `runCtx`: channels by stage id, drain entries (`refs`, `ch`), the run-wide `done` channel, errgroup | no stage is stopped while somebody reads it; every stage ends; the first failure is reported; nothing in flight is lost on a drain |
| Linear stages | `source.go`, `operator_map.go`, `operator_filter.go`, `operator_take.go`, `terminal.go`, `fastpath.go` | receive loop, micro-batch, `cooperativeDrain` flag, deferred signals | order, completeness, early exit |
| Concurrent Map | `operator_map.go` | semaphore, result slots, error channel, inner context | parallelism bound, order, first error wins, termination |
| Single-input operators, aggregates, terminals | `operator_*.go`, `aggregate.go`, `collect.go`, `misc.go` | an accumulator, a ring, a set | the documented function of the stream, early stop, prefixes when cut short |
| Timers, batches, lookups | `batch.go`, `time_op.go`, `enrich.go`, `internal/ttldedup.go` | buffer, timers, expiry queue | each item in exactly one batch, stale ticks harmless |
| Fan-out | `fan_out.go`, `misc.go`, `advanced.go` | several outputs with one shared drain entry | every branch gets its items, one branch leaving does not stop the others |
| Fan-in | `fan_out.go`, `fan_combine.go`, `collect.go` | goroutine per input, latest values | nothing lost, repeated or mispaired |
| FlatMap family | `operator_flatmap.go`, `advanced.go` | goroutine per item, inner contexts, slots | sub-streams come out whole; superseded ones are told apart |
| Operators that run a pipeline | `source.go`, `operator_retry.go`, `notification.go`, `operator_filter.go` | nested run, its context, yield's flag | a cancellation is no failure, a failure is not lost |
| Keyed and run-scoped state | `state_ref.go`, `state_with.go`, `state_withkey.go` | references by worker and key, TTLs, worker channels, slots | no update lost, order per key |
| Outbox | `internal/outbox.go` | buffer, mutex per shard, dropped counter | every item accounted for, order per sender, no blocking |
| Channel source | `source.go` | RWMutex, `closed`, `once` | no send on a closed channel, nothing accepted is lost |
| Circuit breaker | `middleware.go` | state, counters, deadlines | probing, recovery |
| Error handling, supervision | `internal/process.go`, `config.go` | attempt and restart counters, window | budget, no silent loss, a cancellation ends the restarts |
| Effects, run outcome | `effect.go`, `idempotency.go`, `runsummary.go` | idempotency store, counters | the function is called for one item per key at most, truthful outcome |
| Segments | `segment.go`, `devstore.go` | stored snapshots | a replay is what the segment sent and could be stored |
| Gate, RunHandle | `internal/gate.go`, `kitsune.go` | paused channel | not modelled |
| Rate limiter, pool, caches, Bloom filter | `middleware.go`, `pool.go`, `internal/` | tokens, free objects, entries | not modelled |
| Stage combinators, fast-path choice | `stage.go`, `methods.go`, `optimized.go` | - | not modelled (build time) |
| Observation, tests, connectors | `metrics.go`, `hooks/`, `inspector/`, `testkit/`, `tails/`, `examples/` | - | not modelled |

Stages interact in four ways: items through a bounded channel; the close of
that channel, which tells the consumer that its input has ended; the
producer's drain channel, which the consumers close through `signalDrain` when
the last of them has left; and the errgroup context, which the first failing
stage cancels. Early exits additionally close the run's `done` channel for the
sources. A stage that leaves for a reason other than a drain starts a
`DrainChan` goroutine that empties its input.

The hard behaviour is in how a stage leaves. Every stage function chooses by
itself which of these signals each of its selects listens to, and the deferred
functions run in reverse order. Stages with several goroutines add an inner
context, an error channel and a wait for their workers. PROJECT.json lists each
hazard at its line with the properties that would catch it going wrong.

## 2. Modules

| Module | Models | State and actions |
|---|---|---|
| `Pipeline` | one `Run` of a chain of stages | `pc[s]` is where the goroutine of stage `s` is: in its receive select, filling a micro-batch, in the user function, in a send, or in one of its deferred functions. `ch`/`closed` are the Go channels, `refs`/`drained` the drain entries, `drainer` the `DrainChan` goroutines. One action per case of a select, per outcome of the user function and per deferred function; `Cancel`, `DrainPhase` and `HardStop` are the caller and `runWithDrain`, `RunReturn` is the return of `Run` |
| `MapEnv`, `MapConcurrent`, `MapOrdered`, `ParallelMap` | `mapConcurrent`, `mapOrdered`, and the choice between them | dispatcher, one goroutine per item, the drainer, slots, error channel; a consumer that may leave |
| `MapSpec` | what a parallel Map promises | abstract specification, implemented by `ParallelMap` |
| `StageLoop` | the loop of a single-input stage | receive (a terminal: a micro-batch, `ahead`), send one result after the other, leave by end of input, drain, context, error or own decision; a second run of the same blueprint |
| `SelectOps`, `FoldOps`, `WindowOps`, `TimeOps` | one action per operator | what the operator does with an item, a tick or another signal, over `StageLoop`'s state |
| `Operators` | all of them in one stage | the actions combined, and a reference definition of each operator over the whole stream |
| `FanOut` | Broadcast, Share, Unzip, Balance, KeyedBalance, Partition, MapResult, or two sources | the routing, the blocking sends in turn, the shared drain entry |
| `FanIn` | Merge, Zip, CombineLatest, LatestFrom, SampleWith, SequenceEqual, MergeRunners | one goroutine per branch or one for both, their receive, store, send, failure, and the return of the stage |
| `Diamond` | a stream split and joined again | composes both with a consumer and a caller |
| `SubStreams` | FlatMap (fast path, serial, concurrent, ordered), ConcatMap, SwitchMap, ExhaustMap | dispatcher, goroutine per item, drainer, inner contexts; `ProcessFlatMapItem` |
| `Nested` | Concat, Catch, Using, Retry, Materialize, TapError, Finally, IgnoreElements, Amb of one | the nested run and its context, Generate's `yield` and watcher, the operator's reaction to the nested result |
| `Amb` | Amb of several factories | the factories' goroutines, the forwarders, the source that picks the winner |
| `Keyed` | MapWith, FlatMapWith, MapWithKey, FlatMapWithKey, `Ref` | dispatcher, worker channels, workers, drainer, reference maps with both TTLs, a store, supervised restarts |
| `Outbox` | concurrent `Send` calls on one outbox | one action per select, lock and eviction |
| `Channel` | `Send`, `TrySend`, `Close`, the reading stage | `readers`/`writer` are the RWMutex; a waiting writer keeps new readers out |
| `CircuitBreaker` | a stage guarded by a breaker | `allow` and the two `record` functions as steps of concurrent workers |
| `Supervise` | one serial stage: receive loop, `ProcessItem`, handlers, `Supervise` | `attempt`, `restarts`, `age` of the window; `Fail` is the look at the context after an error or a panic, `Restart` what follows it later, `GiveUp` the end of the budget |
| `Effects` | runs of source, Effect, consumer, one after the other | the idempotency store, each attempt's begin and return, the summary's counters, the segment's capture, save and replay with their marshalling and decoding failures, crashes between any two steps |
| `Shared` | Outbox, Channel and CircuitBreaker side by side | the initial state picks one (`which`) |
| `Failures` | Supervise and Effects side by side | the initial state picks one (`which`) |
| `Inner` | SubStreams, Nested and Amb side by side | the initial state picks one (`which`) |
| `PipelineProofs`, `SharedProofs`, `FailuresProofs`, `MapProofs`, `KeyedProofs`, `DiamondProofs`, `InnerProofs`, `InnerFlowProofs` | - | the theorems about `Pipeline`, `Shared`, `Failures`, `ParallelMap`, `Keyed`, `Diamond` and `Inner` |

`MCPipeline`, `MCOperators`, `MCDiamond`, `MCKeyed`, `MCShared`, `MCFailures`
and `MCInner` give instances of one specification. `Shared`, `Failures` and
`Inner` hold components that do not interact: the initial state picks one and leaves
the variables of the others idle, so that a behaviour of the whole is a
behaviour of one component. They are checked and proved about together because
a property of such a module says the same of each component. Wherever a component has options they are a variable chosen in the
initial state from a set of configurations, so one run checks all of them.

A stage function is a `Kind` in `Pipeline`. The sets `RecvCtx`, `RecvDrain`,
`SendCtx`, `SendDrain`, ... say which cases its selects have, one line per
stage function of the code. What a stage computes is abstracted there to emit,
skip or fail; `Operators` is about what it computes and abstracts from how the
stages of a chain wait for each other. Items are small integers. User functions
are chosen to lose no information: the reducer appends, a mapped item remembers
its argument, a stateful function counts. Names ending in `Mutant` are
deliberately wrong variants of the definition below them; they show that each
property notices a plausible bug and are used nowhere else.

## 3. Runs

### Passing

| Run | Question | Bounds, and why they are enough |
|---|---|---|
| `pipe_early` | Does an early exit cascade to the source, deliver exactly what was asked for and let `Run` return? | source, fast-path map and filter, `Take(1)`, terminal; 3 items, every channel one slot, batches of one. Every stage can be blocked in its send while the next one leaves |
| `pipe_cancel` | Does a graceful drain of an endless source deliver what is in flight, and is a failure reported as itself? | `Generate`, slow map, fused terminal; 3 items and batches of two, so that a batch can be cut by a skip, a failure or the end of input; timer included. Each of the three stages may fail, also the function of `Generate` |
| `map` | Do both concurrent Maps implement `MapSpec` and end? | 6 items, concurrency 2, two may fail, one may be skipped; six items fill the four slots behind a drainer that waits |
| `operators` | Does every operator compute its reference, read no more than it needs, and keep windows and times right? | 4 values, streams of up to 4 items, time up to 5; parameters 0 to 3, so that streams are shorter than, equal to and longer than every limit, a window may be smaller or larger than its step, and keys repeat. A tick may wait in its channel for as long as the stage is busy. Micro-batches of terminals hold up to 3 items (16 in the code), so that a batch ends before, at and after the deciding item. Each stage is run twice |
| `fan` | Who gets which item, what comes out, when does the shared drain close, does the diamond end? | every fan-out with every fan-in (Share and Unzip, which route as Broadcast does, with two), 3 items, all channels one slot: each goroutine can be blocked in a send or a receive while the others leave, fail or are cancelled |
| `keyed` | Does a function see what the last item of its key left, and is the order kept? | 2 workers, 2 keys, 3 or 4 items, one slot per worker channel, TTL of one tick and a clock up to 3, one restart. With 4 items one worker's channel is full while the other works, and a key is used before, at and after its expiry |
| `inner` | Do sub-streams and nested runs come out whole, are their failures told, do all goroutines end? | 3 items of two outputs, concurrency 2, micro-batches of two (a third item waits for a slot or a token); nested pipelines of up to two items that end, fail, fail with `context.Canceled` or never end, two nested runs; Amb of two factories with five pairs of endings |
| `shared` | Is every item of an outbox accounted for, do calls return, can a sender meet a closed channel, does the breaker probe and recover? | Outbox: 3 senders, 2 calls each; drop-oldest with two slots on two shards, of which two senders share one. Channel: 2 senders, a try-sender, 2 closers, 2 calls each, one slot. Breaker: a serial stage with a half-open deadline, and three workers without |
| `failures` | Are restarts, losses, effects and snapshots accounted for? | Supervise: 5 items, 4 failures per item, configurations that use each handler and panic action, a window of two ticks; `ExponentialBackoff(1, 3)` with 4-bit durations, so that the delays are 1, 2, the cap, and then overflow. Effects: 2 or 3 items of which two share a key, up to 2 attempts, 2 runs, each of which may end, fail, be cancelled or crash |

Each action and each disjunct of the next-state relations is taken in at least
one of these runs. `shared` switches deadlock checking off because callers may
stop calling; `pipe_stuck` does because the hang it shows is the point. All
other runs check for deadlock, with an explicit `Halted` step only in the
states where the system has ended or is held in a way named below.

What the properties say:

* **Drain protocol** (`DrainSafety`, `NoStranding`, `DrainOnlyWhenAllLeft`): a
  drain channel closes only after every consumer has left, in a chain and
  with several outputs, and a stage that leaves cooperatively has passed the
  signal on.
* **Delivery** (`DeliveryComplete`, `InOrderNoGap`, `Refines`, `RoutedRight`,
  `JoinedRight`, `OutputsWhole`, `KeyedOrder`): nothing is lost, repeated or
  reordered except where the operator says so, and what may be missing when a
  run is cut short is a suffix.
* **Computation** (`Computes`, `ChoicesKept`, `ReadsNoMore`, `Partitioned`,
  `Timely`, `PerKeyState`): against a definition over the whole stream.
* **Failures** (`ErrorAttribution`, `OutcomesTold`, `NoSilentLoss`,
  `BackoffInRange`, `RestartBudget`, `StopsOnCancel`,
  `OutcomesAccounted`, `OncePerKey`, `SnapshotsReplayed`): what is reported is
  what happened.
* **Bounds and shared objects** (`WithinConcurrency`, `Accounted`, `InOrder`,
  `NoSendOnClosed`, `ProbesDecide`).
* **Liveness** (`Termination`, `CancelTerminates`, `NoLeak`, `CallsReturn`,
  `Recovers`, `EndsOrSendStuck`, `EndsOrOrphaned`, `InnerEnds`). The last
  three name the states in which the code does hang, and show that there are
  no others.

### Violations

Each states something the documentation says and the code does not do.

| Run | What it shows |
|---|---|
| `pipe_stuck` | the fast-path `Filter` sends with a bare `outCh <- it` (`operator_filter.go:262`). If the stage behind it leaves cooperatively because a later one failed, the filter blocks for ever and `Run` never returns the error |
| `fan_panic` | `CombineLatest` returns with the first error and closes its output (`fan_combine.go:164`) while its other goroutine may be about to send: the process panics |
| `keyed_cancel` | the dispatcher of an ordered `MapWith` may see a cancellation between entering a slot in the line and giving the item to a worker (`state_with.go:340-348`); the drainer then waits for that slot for ever and `Run` does not return |

### Limits known from the models, not claimed as properties

Properties exclude or allow for the following, which the models reproduce or
which was seen while modelling.

Hangs and panics:

* A slow-path stage blocked in `outbox.Send` does not watch its drain channel
  (`internal/outbox.go:28`); behind a stage that left cooperatively it blocks
  as in `pipe_stuck`. `Termination` is therefore checked on a chain whose
  middle stages are fast-path ones. The same holds for a fan-out
  (`Abandoned` in `Diamond`), ExhaustMap and serial FlatMap.
* The dispatcher of a concurrent Map waits for a token or a slot without its
  drain channel (`operator_map.go:409`, `:558`); `map` has `CoopLeave = FALSE`,
  a consumer that discards.
* Zip or SequenceEqual of the two sides of a Partition, KeyedBalance or
  MapResult deadlocks when the shares differ by more than the buffers hold
  (`Skewed` in `Diamond`).
* The reference count of a drain entry is the number of consumers of the
  blueprint, those outside the run included (`pipeline.go:239`). Every nested
  run of Retry or Catch attaches one more. With a count too high the drain
  never starts: `NobodyStranded` assumes at most one consumer, `DrainSafe` does
  not.
* Share builds its branches once per blueprint (`fan_out.go:649`); a second Run
  finds a nil channel and panics. `Close` waiting behind a blocked `Send` on a
  full buffer blocks `TrySend` (`source.go:394`), which is documented not to
  block.
* A source on a paused gate watches its context only (`source.go:28`).
* The segment's capture goroutine forwards with a bare send (`segment.go:224`)
  and stays behind when its consumer leaves.
* LatestFrom and SampleWith return at the end of one input without waiting for
  the goroutine that reads the other (`fan_combine.go:337-360`, `:465-493`), and
  a failed CombineLatest without waiting for either: the fan-out in front may
  stop while that reader still waits. `DrainOnlyWhenAllLeft` claims what
  `Awaited` (in `Diamond`) says each operator waits for.

Errors reported or hidden:

* A concurrent Map, FlatMap or MapWith whose consumer leaves reports
  `context.Canceled` although nobody cancelled (`operator_map.go:447`, `:526`);
  a concurrent MapWith and SwitchMap return nil on a real cancellation.
* First, Any, All and Find discard the run's error (`collect.go:48`, `:169`,
  `:187`, `:209`); SequenceEqual swallows `context.Canceled`; Generate swallows
  a nested run's own `context.Canceled`; ExhaustMap drops a pending error when
  its consumer leaves; Finally may be called with `context.Canceled` on an
  early stop (`operator_filter.go:427`).
* A losing Amb factory that fails otherwise than with `context.Canceled` after
  it has been cancelled fails the whole Amb (`source.go:701`).
* Catch, TapError and Retry take a nested pipeline's own `context.Canceled` for
  a failure like any other, though their comments speak of "non-context"
  errors (`source.go:761-763`, `operator_filter.go:388-389`,
  `operator_retry.go:23-25`). `OutcomesTold` demands nothing in that case: only
  for a failure that is no context error is the fallback or the callback
  required, and only after some error are they allowed.
* `Supervise` looks at the context once after a failure
  (`internal/process.go:40`) and restarts afterwards (`:53-61`). A cancellation
  in between is followed by `OnStageRestart` and one more call of the loop,
  which may lose one more item; `doc/error-handling.md:224` says that it "stops
  immediately". `StopsOnCancel` bounds this by one.

State:

* MapIntersperse keeps `first` in the blueprint (`misc.go:539`): a second Run
  starts with a separator. `Computes` checks its first run only.
* The comment of `WithIdempotencyKey` says that "the operator does not
  de-duplicate against a store" (`effect.go:163-165`); the code does
  (`effect.go:304-318`), with a store in memory for the run if it is given
  none, and that is what `OncePerKey` states. A key is added before the
  attempts and never removed: an effect that failed, or that was never begun
  because the process died or the run was cancelled first, is a duplicate when
  its item comes again. The store is asked once per item, not before each
  attempt as the comment says.
* A cancelled, failed or left run saves a part of the segment as its snapshot,
  which is replayed as if complete, and a late save may overwrite a newer one
  (`segment.go:227`). An item that cannot be marshalled is forwarded but missing
  from the snapshot (`segment.go:220-223`), and a snapshot that cannot be decoded
  ends the replay early in a run that succeeds (`:176-180`). `SnapshotsReplayed`
  allows for all of these.
* An item that is skipped, or whose function fails, has looked up its key's
  reference (`state_withkey.go:123`, `:208`, `:377`) and so keeps an idle key
  alive; StateTTL counts from the last value written. `Resets` says so.
* The comment of Timestamp speaks of the time an item "exits this stage"
  (`misc.go:179`), the one of `Timestamped` of the time it "was observed"
  (`misc.go:173`). The code takes the time of reception, which is earlier
  when the consumer is slow; `Timely` states that.
* A terminal receives up to 16 items before it looks at the first
  (`terminal.go:20-50`): First, Any, All, Find and Single throw away what their
  micro-batch holds beyond the deciding item. `ReadsNoMore` is about the items
  looked at, and says that nothing else is thrown away.
* `Ref.Update`, `UpdateAndGet` and `GetOrSet` ignore StateTTL, references in a
  store never expire, and the eviction of a key does not reset its stored
  value; see `Resets` in `Keyed`. A supervised restart of a concurrent or
  ordered keyed stage drops the items queued for its workers.
* `int(fnv32str(..)) % n` is negative for half the keys on 32-bit platforms
  (`state_withkey.go:259`); the model assumes 64 bits.
* CombineLatest may send a pair after a newer one. LatestFrom and SampleWith
  read a value the other goroutine is about to replace. SwitchMap's superseded
  sub-stream may still emit one item.
* Batch's ticker runs on after a size flush (`batch.go:130`); Sort on a drain
  discards everything; both sides of the race of a tick and an item are
  allowed in Debounce and SessionWindow.
* `PanicSkip` ends the stage instead of going on (`internal/process.go:31`); a
  retry handler used as a fallback is asked with attempt 0 for ever
  (`config.go:797`, `Handle`); `ExponentialBackoff` overflows before its cap
  applies (`config.go:755`, `ToDuration`), so that the delay is then negative,
  which is no wait, although the comment says "capped at max"
  (`config.go:751`): `BackoffInRange` keeps the lower bound up to there and the
  cap always; the restart window runs from the first restart, not
  from the last crash (`internal/process.go:44`).
* A drop-oldest `Send` may drop the new item after it has evicted the oldest
  (`internal/outbox.go:112`); the item is counted.
* Several workers exceed the half-open probe limit, and the success of a call
  admitted before the circuit tripped counts as a probe (`middleware.go:243`,
  `:257`): `ProbesDecide` claims the limit for serial stages.

What the checks do not reach:

* With a Window `RestartBudget` covers a stage that gives up too early, not one
  that is restarted too often within any period of that length: the code's
  window starts with the first restart, so that two windows may meet.
* `Recovers` is checked for breakers without a half-open deadline.
* `Termination` with an early exit has a slice source; a Generate source parked
  in the user's function is in `CancelTerminates`.

Simplifications:

* Buffers are positive. `Buffer(0)` (`config.go:127`) and `NewChannel(0)`
  (`source.go:353`) make unbuffered channels, on which a send and a receive are
  one step of two goroutines; the models have none.
* MapBatch is one loop that collects, calls the function and sends; the code
  puts a channel between its Batch and its FlatMap, which only lets the next
  batch be collected meanwhile.
* The ordered FlatMap takes a token and then a slot; `Spawn` takes both at
  once. Only this goroutine takes tokens, so the order of the two waits cannot
  be observed.
* In `Operators` the items of a micro-batch are chosen when a terminal looks at
  them, not when it receives them.

## 4. Fairness

Weak fairness is assumed of each goroutine's next step: the Go scheduler runs
every runnable goroutine, and user functions are taken to return. Channel
operations need no strong fairness, because a blocked goroutine's channel has
one reader or one writer here. Where several goroutines send on one channel
(Merge, Amb's forwarders, concurrent workers) the streams are finite, so every
sender is the only one left at last. Nobody need call, cancel, leave or fail.

* `Pipeline`: the drain timer fires.
* `Outbox` and `Channel`: only a goroutine inside a call is fair; in `Outbox`
  nobody need read.
* `CircuitBreaker`: items keep coming, calls end and time passes.
* `ParallelMap`, `Diamond`, `SubStreams`, `Nested`: the consumer keeps
  receiving unless it has left. `Nested` pipelines of the kind "never" end only
  with their context.
* `Keyed`: the input ends at last.
* `Operators`, `Supervise` and `Effects` have safety properties only, and no
  fairness.

## 5. Proofs

All theorems hold for every value of the constants that the named assumptions
of the modules allow (`PipelineAssumption`, `SharedAssumption`,
`FailuresAssumption`, `StagesAssumption`, `EffectsAssumption`, `MapAssumption`,
`KeyedAssumption`, `FanAssumption`, `InnerAssumption`). These say what the configurations look like (which kinds and
options there are, numbers are numbers, buffers where the code has one are
positive); TLC evaluates them in every run. Two theorems have a hypothesis of
their own, named below. Each inductive invariant was checked by TLC before it
was proved. Every induction step is proved action by action.

**Pipeline** (`PipelineProofs`), for every length of the chain, every mix of
stage kinds, every buffer, batch size and consumer count:

* `TypeCorrect`: `Spec => []TypeOK`. It needs `Shape`: `Head(hand[s])` needs a
  non-empty hand and `ch[s-1]` a stage that is no source.
* `DrainSafe`: a drain channel closes only after the stage's consumer has run
  its deferred signal. `DrainSafety` says nothing of the counter that closes
  the channel; `DrainInv` adds that `refs` is the initial count less the
  signals sent, and `drained` holds exactly when it is zero. A fused terminal
  signals an entry nobody listens to and is excluded by `HasSignalled`.
* `ErrorsAttributed`: a context error is reported only if the caller cancelled.
  `ErrorInv` traces it back through `ret`, `runErr` and the cancelled context
  to the caller or a recorded failure.
* `NobodyStranded`: a stage that left cooperatively has closed its producer's
  drain channel. Hypothesis: every pipeline has at most one consumer, without
  which the code does strand producers (section 3).
* `DeliveredWithoutGap` (`InOrderNoGap`): the terminal sees the source's items
  in order and without an unexplained gap. The property is about the terminal
  only; `FlowInv` is about every place an item can be in. Channels and hands
  rise (`RisingInv`), what is further downstream is smaller (`PlaceInv`), an
  item that is nowhere any more was dropped by a stage's rule or lost behind a
  stage that had left (`LossInv`), and a stage that waits holds nothing
  (`IdleInv`).
* `NothingLost` (`DeliveryComplete`), for any number of
  Takes in the chain. First, why a stage leaves: in a run without error or
  cancelled context its input was closed and empty and it held nothing
  (`CleanInv`), unless a Take at or behind it is done; a stage told to stop by
  its consumer inherits the reason, which goes back along the drain signals
  (`SourceInv` for the source). So `DrainChan` discards only in front of a Take
  that is done. Second, the count: an item is in one place and dropped once
  (`AwayInv`, on `FlowInv`), and a Take has counted exactly the items that have
  passed it and are still somewhere, unless a Take behind it is done
  (`CountInv`); it lets no more than n through (`TakenInv`). At the end the last
  Take that is done (`LastInv`) has n items behind it, all of them delivered or
  dropped by a rule; without one every item is.

**Channel** (`SharedProofs`): `NeverSendsOnClosed` and `ChannelDrains`, for
any senders, closers and calls. `LockInv` is the argument of the code: who
has seen `closed` unset under the read lock still finds it unset when it sends,
because `Close` sets it under the write lock. `FlowInv` makes what was accepted
the received items followed by the buffered ones.

**Outbox** (`SharedProofs`): `OutboxAccounted` and `DeliveredInOrder`, for
any senders, shards, strategies and capacities. `PlaceInv` divides the items
given to `Send` among the places they can be in; that a buffer holds an item
once follows from `OrderInv`.

**CircuitBreaker** (`SharedProofs`): `ProbesDecided` (`ProbesDecide`, an action
property), for any thresholds, timeouts and number of workers. `ProbeInv`: a
probe in progress belongs to the present half-open period, in which successes
are still missing. `SoloInv`: behind one goroutine no older call is left in
that period, successes so far and still needed add up to `halfOpenProbes`, and
the calls let through are the successes and the one in progress.
`SharedAssumption` says that the failure threshold and the number of probes are
positive: their options ignore other values (`middleware.go:164-191`).

**Supervise** (`FailuresProofs`), for any handlers and policy:
`NoItemLostSilently`, `RestartsBudgeted`, `CancelOutlivedOnce` (`StopsOnCancel`)
and `BackoffsBounded`. `LossInv` counts the lost items against the reported
restarts while the stage still runs, `WindowInv` relates the counter that the
code resets to the number of restarts since the last quiet period. `CancelInv`
says, for each place of the stage, how many loops have begun and how many items
were lost since the cancellation: a restart that was decided before it is the
only one, because the next failure finds the context done. `BackoffsBounded`
covers the overflow; its hypothesis `Powers` (a doubled delay is an integer and
not below the initial one) is arithmetic of powers, which needs an induction.

**Effects** (`FailuresProofs`): `StartedOncePerKey` and `ReplaysSnapshots`, for
any keys, policies, buffers and number of runs, crashes included. `KeyInv` ties
three things together: a key in the store was claimed by one item (`ClaimInv`),
only an item that claimed its key, in its own run, has its function called
(`HandInv`), and what was reported of it follows (`SentInv`); so a crash between
claim and call leaves a key whose function is never called. `LiveInv`,
`SnapInv` and `ReplayInv` follow the items of a run through the segment's
capture, where some may be left out, into the snapshot, a late save and the
replay.
`CountsOutcomes` (`OutcomesAccounted`) rests on `CountInv`, by which a counter
of a live run is the number of outcomes sent that it counts, and one more while
such an outcome waits to be sent, and on `WholeInv`, by which an outcome has
been sent for every item taken unless the run was cut short, and is on its way
through the segment to the consumer.

**ParallelMap** (`MapProofs`): `ConcurrencyBounded`, and `ImplementsMap`, the
refinement of `MapSpec` by both stage functions. The mapping of `Refines` is
the one TLC checks; every step of a goroutine is shown to be a step of
`MapSpec` or a stutter. `UInv` and `OInv` say why an item may be unsettled when
the stage returns: errors precede cancellations, the first error names an item
that can fail, and the ordered drainer has settled exactly the items before the
one it holds.

**Keyed** (`KeyedProofs`): `KeysKeepState` (`PerKeyState`), for any workers,
keys, items, sweeps and restarts. `RouteInv`: an item with a key is only ever
with the worker that owns the key. `WorkInv`: a
worker has looked up the reference of the item it works on, and nobody has
since. `RefInv`: a reference is what the last counted item left, or has been
swept since, and then the look-ups of its key, skipped and failed items
included, are further apart than the TTL. `PrevInv` gives each entry its predecessor. `KeysKeepOrder` (`KeyedOrder`)
follows the items of a key further: on the worker's channel, in its hand, on
the result channel or in its slot, and sent. `OrderInv` says that they are in
input order at each place and later at an earlier one; `FreshInv` that an item
is counted once; `SendInv` that a worker sends what it has counted before it
takes the next; `LineInv` that the slots of an ordered stage hold the
dispatched items in input order; `DoneInv` that, without an error and a
restart, what was counted is sent or waits to be.

**Diamond** (`DiamondProofs`): `StopsWhenAllLeft` (`DrainOnlyWhenAllLeft`) and
`JoinsRight` (`JoinedRight`), for every pair of a fan-out and a fan-in, every
length of the stream and every buffer. `StreamInv` keeps the branches rising:
what is in a channel is beyond what was taken from it and below what is about
to be sent; `KeptInv` says that until the stage returns nothing of a branch is
lost; `StageInv` ties the drain count to who has gone and the return of the stage to
the goroutines it waits for. On these rests one
invariant per operator, with a clause for each place of its goroutines:
CombineLatest's, for example, says that a pair about to be sent is new, and
that the pair of the latest values has been sent, is about to be sent, or its
goroutine has given up. `RoutesRight` (`RoutedRight`) needs the fan-out only:
`RouteInv` says that each item read so far has been sent, or is about to be,
into the branches it belongs to and no other, in increasing order.

**Inner** (`InnerProofs`): `TellsOutcomes` (`OutcomesTold`), for any input,
widths, concurrency, nested pipelines, attempts, factories and buffers. Each
component has an invariant of its own. Amb's (`AmbInv`) says that a failed
factory has left the first error before it is gone. Nested's (`NestedInv`)
says where the operator is (`PlaceInv`: how many runs have ended, and with
what, when it is about to start the next), why a nested run may have been cut
short (`CauseInv`: only by the caller or a parting consumer), which callbacks have been made (`CallsInv`) and
what the result tells (`ToldInv`). SubStreams' (`SubInv`) follows an item from
the batch (`BatchInv`) through its goroutine to the drainer (`DrainerInv`) and
keeps, for every failure that nobody handled, the place that still remembers
it (`KeptInv`): the error channel, the slot in line, the drainer's error or the
reason the loop stopped; `ReturnInv` reads the result from there.

`OutputsStayWhole` (`OutputsWhole`, in `InnerFlowProofs`), for the same. Amb's
`FactoryFlow` says where each item of a factory is, its channel, its
forwarder's hand, the merged channel or sent, and that none is lost until the
factory is cancelled; Nested's invariant follows the items of the run at hand
through `yield` to the stage's output. SubStreams' (`OutputInv`, `SerialInv`,
`LineInv`, `UndoneInv`, `EndInv`) says how far each item has come, that a stage
that keeps the order has finished all earlier items, what an ordered stage's
drainer has still to send, and why an item may be undone when the stage ends.

Model-checked only:

* all liveness: TLAPS as used here has no support for fairness and `ENABLED`;
* `Computes`, `ChoicesKept`, `ReadsNoMore`, `Partitioned` and `Timely`, which
  compare with a fold or a filter of the whole stream (`SelectSeq` and the like
  are recursive, and the provers have no induction over data).

## 6. Not modelled, and the plan

* ExpandMap, MapRecover, Dematerialize, TryEffect's split of outcomes, Iter,
  StartWith and EndWith (Concat of two sources), finalizers, RunAsync.
* Gate and RunHandle: they only delay sources; their one hazard is listed.
* Share's registration of subscribers, and blueprints shared by runs beyond
  `Effects` and the second run in `StageLoop`.
* Stage combinators and the choice of a fast path, which happen at build time
  and choose between implementations that are modelled.
* Rate limiter and pool (`golang.org/x/time/rate`, `sync.Pool`), caches (a
  mutex around a map), the Bloom filter (probabilistic).
* The clock: timers fire at an arbitrary later step in every module.
* Hooks, metrics and the inspector, which observe; the test kit; the
  connectors, which are I/O around client libraries; the examples.
