# hyperloader: a TLA+ development

hyperloader is a PyTorch-compatible data loader. A Rust engine (`engine/src`)
keeps the frontier of positions in flight, the shared-memory rings and arenas,
the registry of shared regions and the machine keeper. Python
(`python/hyperloader`) keeps the iterators, the worker processes, epochs,
checkpoints, pinned delivery and the compatibility surface.

This directory holds models of its concurrent and stateful parts, TLC
configurations that check them on small instances, and TLAPS proofs of what is
claimed for all instances. Paths below are relative to the repository root.

    tlc -workers 2 -config MCDeliveryInOrder.cfg ProcessDelivery.tla
    tlapm ProcessDeliveryProofs.tla

`PROJECT.json` is the index: components, runs, the source lines behind every
definition, seeded defects that each property must catch, hazards, findings and
theorems.

## 1. Inventory

### What runs where

- the **consumer thread** of the owner process calls `next`, `state_dict`,
  `close`; nearly all Python state belongs to it alone;
- **worker processes** take commands from one ring each and answer in another,
  and may die at any access to shared memory;
- the **staging thread** of pinned delivery calls the wrapped iterator in the
  consumer's place;
- the **activity threads** of the machine keeper share a few atomic words with
  the consumer;
- **other processes** of the same user share the region registry file.

### Components

| component | state | operations | talks to | what makes it correct |
|---|---|---|---|---|
| static frontier (`sched/static_frontier.rs`, `process/frontier.py`) | base, depth, width, in-flight map, positions delivered ahead | dispatch, complete, commit, commit out of order, seed, grow, change width | called by every iterator | every position once, in order or not as asked; at most a window in flight; the epoch completes |
| transport ring (`exec/transport/ring.rs`) | two counters, a sequence per slot, frames | `try_push`, `try_pop` | owner and worker processes, through shared memory | linearizable bounded queue; no frame read while written; calls return |
| slot arena (`arena/allocator`) | slabs, slot states and generations | reserve, commit, publish, cancel, deliver, release, poison, reclaim | process resources, native slots | no slot serves two holders; the last view frees it, and only that |
| process delivery (`process/iterator.py`, `pool.py`, `recovery.py`, `worker*.py`, `ffi/process`) | frontier, pending and ready tables, rings, a job per worker | fill, commit, poll, check, wait, restart, time out | frontier, rings, arena, workers | no work lost or done twice; whole batches; the stream of the sampler; an epoch ends |
| result serialization (`process/serialization.py`) | worker: address to number; owner: number to tensor | encode, decode | process delivery | every view is a view of its own storage |
| epochs and map state (`epoch.py`, `state/map.py`, `state/delivery.py`, `api.py`) | current epoch, override, cursor, bitmap, resume fields | iterate, abandon, close, set epoch, capture, restore | iterators, the user, a crash | no batch twice or missing across a restore; no epoch replayed unasked |
| pinned staging (`memory/pinned/iterator.py`) | queue of one, two events, a thread | next, invalidate, close, produce | wrapped iterator, loader | one batch ahead; coordinates of what was delivered; calls return |
| region registry (`arena/reaper`) | JSONL file, lock file, named regions | append, retain, sweep | every process of the user, crashes | no live region unlinked; none that a sweep cannot find |
| machine keeper (`control/machine_keeper`) | five atomics, a park permit, the duty search | observe gap, defer, park, close; run loop | consumer | no lost wake-up; parked means parked; a minimal duty |
| iterable streams (`iterable/`) | lanes, their sources, snapshot rings, delivered arrivals | next, snapshot, capture, restore, recover lane | iterators, the user's source | what a checkpoint resumes is what would have come; replays are short |
| width controller (`control/controller.py`, `runtime.py`) | width, depth, cadence, stall and quiet counters | observe, decide, route | process iterator, frontier | a route is parked only when no delivery waited, and is parked then |
| calibration (`control/record.py`, `cache.py`, `priors.py`, `objective.py`) | a file per machine | save, load, match a prior, score | controller, machine keeper | what is resolved is of this machine and can be scored |
| keeper routing (`control/machine_keeping.py`, `interrupts.py`) | the keepers of the loader, gaps of an iterator, a baseline | next, refresh route, park | machine keeper, `/proc` | a keeper that nobody feeds is asked to park |
| worker fleet (`process/worker_set.py`, `worker.py`, `fallback/transport`) | processes, control channels, queues, slots | start, probe, submit, signal, replace, stop | process delivery | each accepted command in one place; closing ends |
| construction probe (`process/pool.py`, `factory.py`) | a retained value, who has it | retain, hand over, drop | workers, epochs, restores | a value is delivered for the epoch it was made for |
| structured pipeline (`structured/`, `memory/pinned/pool.py`) | batches made ahead, the probe, pinned buffers | submit, make, deliver, acquire | threads, consumer | no batch read twice; no buffer written over while in use |
| compatibility lanes (`compat/`) | tasks, ready map, lane pool, random states | fill, receive, drain, reset, capture, restore | worker processes | resumed epochs are the undisturbed ones; epochs are whole |
| samplers and user batches (`state/sampler*.py`, `streaming_iterator.py`) | consumed prefix, checksum | index, batch, replay | user's sampler | read lazily; what a restore skips is what was delivered |
| thread, in-process and tensor iterators (`thread/`, `inprocess/`, `tensor/`) | futures and completions; a random state session; a cursor | next, close, capture | frontier, thread pool | each batch once; the consumer's random state is its own |
| distributed sharding (`distributed/`, `state/runtime.py`) | none; a coordinate in the state | place, resume on another world | iterators, ranks | the global stream is delivered whatever the ranks |
| random streams and permutation (`rng/`) | none | pure functions | iterators | not modelled |

Telemetry, profiles, fingerprints, configuration, planning, decoding, collation
kernels, I/O planning, diagnosis and the repository's own tests and tools are
listed in `PROJECT.json` with the reason each is left out: they report, are
stateless, or decide once before iteration starts.

### What is hard here

Workers die between any two shared-memory accesses; completions come in any
order while the frontier's depth and width change; a death surfaces in the
middle of a batch; a replay is rebuilt from less than what was submitted; slot
references outlive slots; checkpoints are taken with work in flight, ahead of
the base, or before a restored state was used; the staging thread is closed
from within; an append is cut short by a kill; a park races with an activation.
The `hazards` list gives each at its line with the properties aimed at it, and
says which have none.

## 2. Modules

| module | models | checked with |
|---|---|---|
| `OrderedStream` | abstract: each position once, in order unless on completion | refined by `StaticSchedule` and `ProcessDelivery` |
| `StaticSchedule` | the frontier and its growth rule | within `ProcessDelivery`, tlapm |
| `BoundedFifo` | abstract: atomic bounded queue | refined by `RingQueue` |
| `RingQueue`, `RingQueueProofs` | `try_push` and `try_pop`, one shared access per action; theorems | `MCRingQueue.cfg`, tlapm |
| `ArenaAllocator`, `MCArenaAllocator`, `ArenaAllocatorProofs` | the allocator and its callers' references; theorems | `MCArenaAllocator.cfg`, tlapm |
| `ProcessDelivery`, `ProcessDeliveryProofs` | iterator, pool, rings and workers; extends `StaticSchedule`, which it implements; theorems of both | `MCDelivery*.cfg`, tlapm |
| `DutyTuner` | the duty search of one activity thread | within `MachineKeeper`, tlapm |
| `MachineKeeper`, `MachineKeeperProofs` | that thread against the consumer's calls; extends `DutyTuner`; theorems of both | `MCMachineKeeper.cfg`, tlapm |
| `LoaderState`, `MCLoaderState`, `LoaderStateProofs` | composition of the next four; theorems | `MCLoaderState.cfg`, tlapm |
| - `ResultStorage` | storage tables of workers and owner | also `MCStorageTemporary.cfg` |
| - `PinnedStaging` | staging thread and consumer | |
| - `RegionRegistry` | registry file, lock, owners, sweeps | |
| - `MapCheckpoint` | epochs, coordinates, states | also `MCCheckpointAbandoned.cfg` |
| `LoaderRuntimes`, `MCLoaderRuntimes`, `LoaderRuntimesProofs` | composition of the next four, as `DataLoader.__iter__` chooses; theorems | `MCLoaderRuntimes.cfg`, `MCRuntimesEpoch.cfg`, tlapm |
| - `IterableStream` | lanes of an iterable dataset and their snapshots | |
| - `ThreadDelivery` | futures of a thread pool, in both orders | |
| - `BatchPipeline` | structured batches made ahead, the probe, pinned buffers | |
| - `SamplerDelivery` | one batch at a time: in-process, tensor, user samplers | |
| `ProcessControl`, `MCProcessControl`, `ProcessControlProofs` | composition of the next six, what surrounds process delivery; theorems | `MCProcessControl.cfg`, `MCControl*.cfg`, tlapm |
| - `WorkerFleet` | processes, channels, queues and slots, native and fallback | |
| - `ProbeHandoff` | the retained probe across epochs and restores | |
| - `WidthControl` | the controller and the routes over epochs | |
| - `RankPlacement` | ranks of a job that restarts on other world sizes | |
| - `MachineRoute` | which keepers a loader has and what they are asked | |
| - `CalibrationStore` | calibration records, cache and prior | |
| `CompatLoader`, `MCCompatLoader`, `CompatLoaderProofs` | composition of the next two; theorems | `MCCompatLoader.cfg`, tlapm |
| - `CompatLanes` | torch's worker protocol over lanes | |
| - `CompatZero` | the single-process regime | |

They compose by layers. `RingQueue` implements `BoundedFifo`, and
`ProcessDelivery` uses each ring as exactly that: a sequence of at most
`Capacity` records. `ProcessDelivery` extends `StaticSchedule`, so its steps
call the frontier's own actions, and it implements `OrderedStream` in turn, at
the granularity of batches. `MachineKeeper` extends `DutyTuner` in the same way:
windows of the search close in the thread's active rounds. `MapCheckpoint` starts
from the stream of batches. The three modules `LoaderState`, `LoaderRuntimes`
and `ProcessControl`, and `CompatLoader`, put together components that meet only
through values which are inputs of each: a behaviour exercises one of them, chosen by
the initial state as the loader's construction chooses it, or, in `LoaderState`
and `ProcessControl`, because the components do not touch each other's state.
An operator named after a seeded defect ("Seeded
defect:" in its comment) is not part of any specification; `PROJECT.json` says which definition it stands in for.

### State and actions

**StaticSchedule.** `positions`, `next_commit`, `delivered`, `depth`,
`worker_count`, `dispatch_ordinal` are the fields of the struct and of
`FrontierRuntime`; `output` observes what was committed. `MarkDispatched`,
`MarkCompleted`, `Commit`, `RecordWait` and `SetWorkerCount` are the calls. A
call the code refuses is a stuttering step. In `Commit`, the `while` loop over
`delivered` is the choice of the first position not in it.

**RingQueue.** `pc[a]` names the next shared access of thread `a`. The frame
copy is one step on each side, between the claim and the publishing store; a
frame is told apart by its sender.
`compare_exchange_weak` may fail spuriously. A thread in `MayDie` stops at any
access. Memory is sequentially consistent: the model says nothing of a weaker
ordering of the acquire and release pairs.

**ArenaAllocator.** An action is an operation, under the allocator's mutex.
`handles` and `views` are what callers own, `stale` what they gave up and may
still use; the latter is where generations earn their keep. The generation
counter's wrap at its width is out of bounds.

**ProcessDelivery.** `step` is the place of the consumer's thread in
`__next__`, `_next_completion`, `_fill_frontier`, `_poll_completions`,
`check_worker` and `restart_worker`. A worker receives, computes and publishes
in separate steps and dies between any two. The pool's choice of a completion
signal is left out (it tells that a completion is there, as polling does). A
retained construction probe is an ordinary command here (`ProbeHandoff` has its hand-over). `policy` is the loader's
`on_worker_death`, chosen initially. Sample functions return;
a user exception reaches the consumer like a value here.

**ResultStorage.** A worker's table outlives its storages, and an address is
given again once its storage died. Torch keeps a cache of shared storages whose
entries become invalid when the storage dies; a base whose file has been
released is therefore sent anew, as the code does.

**MapCheckpoint.** `delivery` is the loader's mode, chosen initially. Every
public call of the user is an action, `Crash` loses everything but the last
state kept. `got` and `used` observe the pass over an
epoch across restores.

**PinnedStaging.** The consumer's and the staging thread's calls, split at
every access to the queue, the two events and the thread field. The wrapped
iterator is external: it ends, raises and goes on, or raises and closes its
loader, as `ProcessIterator` does.

**RegionRegistry.** Processes are incarnations with reused identifiers.
Creation, append, synchronisation, unlink and compaction are separate steps,
taken under the lock where the code takes it; `failed` remembers that a write
failed; the operating system drops a dead
holder's lock. A sweep reads, decides, unlinks and replaces as `retain` does.

**MachineKeeper.** A call is the list of shared accesses it makes; the thread's
loop is split the same way. `thread::park` waits for, and consumes, the permit. An active round closes a
tuning window or does not; the counters it reads are external.

**DutyTuner.** A `Window` is one tuning window of 500 ms: the counters answer
for the duty it ran with, the tuner answers with the next. What the core needs
is external and changes.

In the modules below the state of a component is one record, named as the
module's variable, whose fields are the attributes of the objects behind it.

**IterableStream.** `Deliver`, `CollationRaises`, `Skip` and `Finish` are the turns of
`IterableIterator.__next__`. The code counts a batch and advances the lane's frontier
before it collates, so both of the first two begin with `Counted`; when collation raises,
the iterator stays valid and the batch is in `lost` instead of `got`. `Produced` is `next_batch` with its snapshot,
`BuildLane` restores and replays. A lane keeps two counts, the engine's
`arrival` and the position the source is really at. `got`, `lost` and `length` observe
what the consumer has, what it will never have and what the sources still yielded:
`Continues` says that `got` is the undisturbed epoch without exactly the batches in
`lost`. `SourceRaises` also stands for a source whose state cannot be read after a
batch, which leaves `__next__` at the same point. A source that raises while a lane is
rebuilt, in the constructor or in `recover_lane`, is not modelled.

**ThreadDelivery.** A call has three times: it runs, its future is done, its
callback has queued the position. Futures of an abandoned iterator still use the
pool's threads. `Exact` observes the pass across restores.

**BatchPipeline.** `Start`, `End` and `Raises` are the threads' steps, a buffer
is acquired when the batch is collated and free again once nobody holds its tensor.

**SamplerDelivery.** A configuration is the order (the loader's own, the user's
sampler, the user's batch sampler, a tensor), the place of evaluation and
`drop_last`. The user's sampler may yield another sequence each time it is
started. `session` says whether the sample streams are installed over the
consumer's random state, whose value is a count of its draws.

**WorkerFleet.** The two transports differ in what a death does to a queue and
when a slot becomes free; `engine` tells them apart. A worker's steps are those
of `run_commands`: poll control, receive, evaluate, publish, signal, and
it may die before each.

**ProbeHandoff.** A value carries the epochs whose streams evaluated its first
sample and its others, so that a probe delivered in another epoch shows.

**WidthControl.** Time is a tick counter, cut off where a cadence has passed.
The controller's state outlives iterators, the frontier does not; a
delivery observes what `_adapt_controller` passes.

**RankPlacement.** All ranks call `next` in step between a start of the job and
the state that is saved; a restart picks another world size that divides the
global batch.

**MachineRoute.** The consumer's CPU and the table of interrupts are external.
Keepers are what they were last asked; `MachineKeeper` has what they do then.

**CalibrationStore.** A file holds a record of some machine, a record of an older
schema, or something else. Losses are integers out of `Whole`.

**CompatLanes.** A lane is a FIFO of commands and of completions, as
`BoundedFifo`; the lane's random state is a counter, and a delivered value names
the draw it was made with. A state may be captured from any iterator that has
not ended (`CallCapture`), one that raised or was left invalid included: a
closed pool has no tasks pending then, and the task of a raised fetch is gone, so the
state has the points that are left. `story` is the undisturbed epoch
an iterator is compared with, told from the random states its lanes were
started with. A state captured by a sound iterator carries its story on, so that what
is resumed is compared with the original epoch; one captured after a failure
carries none (`Continued`), and is compared with the epoch of the
states it resumes from. How far those are from the original is `CapturesEveryLane`,
which the code violates (section 3). `CompatZero` does the same for the process's own
random state.

Not modelled here: `next` on an iterator whose pool has been closed, which hands out what
is ready and then fails on the missing pool; an iterator that the program
drops without another taking its place; in `CompatZero`, a fetch that raises (`zero.py:54`), after
which torch's sampler is one batch ahead of the delivered count. A fetch that raises is
taken to have drawn nothing before.

## 3. Runs

Every passing run explores its state space to the end, and every action of the
next-state relations fires in some passing run.

| run | question | bounds and why they are enough |
|---|---|---|
| `delivery_in_order` | strict delivery, both death policies, the timeout | five samples, two workers, depth 2 growing to 3, cost order, two deaths: base jumps, growth with work in flight, a full window, a width change in flight; the second death may hit a replacement, or the other worker during a replay |
| `delivery_completion` | on-completion batches after a resume | three batches of two, the second delivered before; jumps over it; two deaths and replays |
| `ring` | linearizability, frame exclusion, return of calls | two threads a side, two slots, up to three positions (`MaxPushes` = 2 stops new calls, and two may have started before): a slot is reused by a different pair; one of each side may die |
| `arena` | slots, views, poison | one region of growth, two reuses, two views, stale references of both kinds |
| `loader_state` | values, staging, registry, checkpoints | two storages over six samples and a restart; four staged batches, the last of which may fail, and a consumer that closes at any point; two processes on one identifier with a region each and a third that sweeps, three creations, failing writes; three batches over three epochs in both orders, so that a gap, a batch delivered ahead and an open one exist together |
| `keeper` | wake-ups, close and the duty search | any three calls; an end that is not a multiple of the step, two disturbances, so that a search is reopened and disturbed again |
| `compat` | resumed and whole epochs, checkpoints, return of calls | two lanes, prefetch 2, five batches, so that a lane is three ahead; lanes of unequal length; captures at any time, after a failure too; three events among iterators, deaths, raised fetches, timeouts and draws, so that a kept pool is used again after each |
| `runtimes` | exact continuation of the other runtimes | two lanes of five and two values in batches of two: a short batch, a lane that ends first, a snapshot older than the delivery; five samples in batches of two on two threads; three structured batches on two threads; sources and collations that raise; samplers that reorder or drop what was delivered; up to four events |
| `process_control` | fleet, probe, width, ranks, keeper routing, calibration | two workers, two slots, three commands and a death; three commands over six iterators, epochs and restores; three workers, four commands, two cadences; up to four ranks, lengths with and without a tail, two restarts; two CPUs; two machines, two savers, three saves |

`CHECK_DEADLOCK FALSE` appears where the system really stops: all samples
decoded, every process dead, the thread joined.

### Disagreements between the code and what it says of itself

Each property here states a sentence of the repository, and TLC finds it
violated. Three of them are runs of `PROJECT.json`, which quotes the sentences:

| run | what happens |
|---|---|
| `delivery_partial_batch` | a death inside a batch drops samples already committed; the next call finds a gap and closes the loader |
| `storage_temporary` | a reused address makes a view of another sample's data |
| `runtimes_epoch` | a loaded iterable state outlives `set_epoch`, and the epoch asked for starts in its middle |

The rest are to be run by hand: take the configuration, change the constant
where one is named, and check the property alone.

| configuration | change | property | what happens |
|---|---|---|---|
| `MCRingQueue` | | `SurvivorsReturn` | a worker killed between claim and publication makes the owner's `try_pop` spin for ever, so the death is never noticed (`exec/transport/ring.rs:149`) |
| `MCDeliveryInOrder` | `InitialDepth`, `Ceiling` = 4, `Capacity` = 2 | `ReplayAccepted` | a worker with more pending commands than its ring holds cannot be replayed (`process/recovery.py:13`: "replay every reclaimed reservation") |
| `MCDeliveryInOrder` | `UserCollation` = TRUE | `ResultsAsAsked` | a replayed user-collation command runs as a plain batch (same sentence) |
| `MCLoaderState` | `InOrder` = FALSE | `ValuesFaithful` | on completion, a view is decoded before the sample that carries its storage (`process/serialization.py:21`) |
| `MCLoaderState` | `ClosesLoader` = TRUE | `StagingReturns` | a failure that closes its loader leaves the consumer waiting (`tests/hyperloader/process/test_exceptions.py:145` expects the user's error) |
| `MCLoaderState` | `UseAfterClose` = TRUE | `StagingReturns` | `next` after `close` waits for ever (`test_exceptions.py:132` expects "no longer active") |
| `MCLoaderState` | `Torn` = TRUE | `RegistryKept` | a record appended behind a torn one is lost, and the region with it (`registry/store.rs:61`) |
| `MCLoaderState` | `CaptureIdle` = TRUE | `ExactlyOnce` | a restored on-completion state with cursor 0, captured before use, becomes an empty state (`state/map.py:67`) |
| `MCCheckpointAbandoned` | | `CaptureNamesNext` | a state captured after abandonment names the epoch that the loader itself would not use next (`api.py:378`) |
| `MCMachineKeeper` | | `ParkHolds` | an activation in flight undoes a park (`machine_keeper/mod.rs:207`) |
| `MCMachineKeeper` | | `DeferExpires` | a request left over from before an activation outlives a deferred park (`mod.rs:195`) |
| `MCProcessControl` | | `StopHonoured` | a stop read while waiting for room in the ring is forgotten (`process/worker.py:297`) |
| `MCProcessControl` | `HandoffConfigs` <- `BatchPlans` | `ProbeDelivered` | a worker hands the sample probed for one epoch to a batch of another (`process/worker.py:222`) |
| `MCProcessControl` | `HandoffConfigs` <- `MovedPlans`, `MaxHandoffEvents` = 5 | `ProbeDelivered` | a user's sampler meets the probed position in an epoch set later, on the turn of another worker, and the loader closes (`process/pool.py:221`) |
| `MCProcessControl` | `HandoffConfigs` <- `ResumedPlans` | `ProbeDelivered` | a pool built for a restored coordinate whose iterator is dropped meets the probed position on the turn of another worker, and refuses it (`process/pool.py:221`) |
| `MCProcessControl` | `HandoffConfigs` <- `Shallow` | `ProbeDelivered` | an unread iterator is dropped with its probe still waiting to be delivered, which `has_pending` does not see (`process/pool.py:194`) |
| `MCControlBatches` | | `BatchRoutesReleased` | batches in flight are compared with a batch counted in samples, so the loader always seems starved (`process/iterator.py:316`) |
| `MCControlElastic` | | `ResumeAccepted` | a state with an exact tail is refused on a larger world (`README.md:67`, `state/runtime.py:13`) |
| `MCControlRoute` | | `RouteRetained` | a new iterator's baseline forgets the live interrupt route (`control/interrupts.py:31`) |
| `MCProcessControl` | `RouteConfigs` <- `DroppingLoaders` | `KeeperAlwaysRests` | an iterator dropped unfinished leaves its keeper at work |
| `MCProcessControl` | `RouteConfigs` <- `FailingKeepers` | `KeeperAlwaysRests` | a keeper that fails to start raises before the old one was parked (`control/machine_keeping.py:56`) |
| `MCProcessControl` | | `ResolveAnswers` | a record of an older schema raises `KeyError`, which nobody catches, and the loader is not built (`control/record.py:229`, `control/runtime.py:22`) |
| `MCLoaderRuntimes` | | `PinnedAsAsked` | the probe is made before pinned delivery is configured, so the first batch is not pinned (`api.py:343`) |
| `MCLoaderRuntimes` | `SampleConfigs` <- `Staged` | `SamplerContinues` | with a staging thread the random state is put back over what the consumer drew meanwhile (`inprocess/rng.py:13`) |
| `MCLoaderRuntimes` | | `FrontierVisible` | a batch of an iterable loader is counted as delivered before it is collated (`iterable/iterator.py:46`); when `collate_fn` raises it never reaches the consumer, though the "consumer-visible" frontier (`iterable/runtime.py:55`) and every later state are behind it |
| `MCCompatLoader` | | `CapturesEveryLane` | a state may be captured after a dead lane, a timeout or a raised fetch (`compat/multi.py:97`), when the tasks under way are gone from the pool (`lane_pool.py:146`, `:227`): lanes with batches left have no restore point, or a later one, and start over when it is loaded (`compat/multi_iterator.py:70` says "the first undelivered restore point for every active lane") |
| `MCCompatLoader` | | `PristineContinues` | a state captured before any iteration rewinds the draw of the base seed (`compat/zero.py:181`) |
| `MCCompatLoader` | `Prefetch` = 1 | `ResumedExactly` | a restored iterator asks for fewer tasks than there are lanes (`compat/lane_runtime.py:39` overwrites the parameter that line 44 uses), so a state captured at once has no point for the others and their lanes start over (`:107`) |
| `MCCompatLoader` | `Lanes` = 3, `Prefetch` = 1, `Length` <- `UnevenLength`, `Config` <- `Unordered`, `MaxEvents` = 1 | `WholeEpoch` | after one lane ended, the limit is not divisible among the others; all of them at their share looks like the end of the sampler, and batches are lost (`:99`, `:144`) |

The passing runs keep clear of exactly these: `delivery_in_order` keeps the
window within one ring and its batches single, `delivery_completion` queues
only whole batches, `loader_state` decodes in order and cuts no write short,
`process_control` sets no epoch before whole batches or a user's sampler, `compat` has no
more lanes than it prefetches and shares its limit evenly, and so on; the
configuration or the MC module says so.

### Fairness

- `RingQueue`: a thread in a call keeps running; an exchange that could succeed
  again and again does not fail spuriously for ever (strong fairness of the
  claim). Nobody has to start a call, nobody has to live.
- `ProcessDelivery`: the consumer's thread runs and keeps calling `next`; a live
  worker runs. A sample function that never returns is outside the claim
  `EpochEnds` unless the loader has a timeout. Deaths are finite in number.
- `PinnedStaging` (in `LoaderState`), `MachineKeeper`: both threads run; a deadline passes. Windows
  close again and again while the keeper's thread stays active: it closes one
  every 500 ms (strong fairness, as a round either closes one or does not).
- `LoaderRuntimes`: a caller that is in a call goes on, and so do the pool's
  threads: a sample function returns or raises.
- `ProcessControl`: a caller that is in a call goes on, and every worker
  process that lives goes on; whether a worker dies is up to nobody.
- `CompatLoader`: a caller in a call goes on; each lane answers its commands,
  one fairness condition per lane.
- `ArenaAllocator`, `MapCheckpoint`, `ResultStorage`, `RegionRegistry`,
  `IterableStream`, `SamplerDelivery`, `ProbeHandoff`, `RankPlacement`,
  `MachineRoute` and `CalibrationStore` make safety claims only.

## 4. Proofs

Each theorem below holds for every value of the constants its assumptions
admit, however many workers, positions, crashes or calls: the bounds of the
runs play no role. Where a theorem has a hypothesis, the hypothesis is a condition on
the constants, some of the runs have it, and what happens without it is said.

### Frontier

From `ScheduleAssumption` (positive depth, width and growth factor, restored
positions inside the initial window, as `ProcessIterator.__init__` arranges):

- `TypeCorrect`: the types hold for ever.
- `WindowAlwaysHolds`: everything in flight or delivered ahead lies in
  `[next_commit, next_commit + depth)`, nothing is both in flight and delivered,
  and the base is in neither set of delivered positions.
- `OccupancyAlwaysBounded`: never more in flight than the ceiling, or the
  initial depth where that is larger. It follows from the window by counting.
- `ScheduleImplementsStream`: the frontier implements `OrderedStream`.

The inductive invariant is `FrontierInv`: types, the window and the bound on
`depth`. The window alone is not inductive: a commit at the base jumps over
delivered positions, and that nothing in flight is jumped over needs the
disjointness; growth needs that the depth is positive and never shrinks.

`ProcessDeliveryProofs` shows that the iterator moves its frontier by the
frontier's own operations only (`DeliveryImplementsSchedule`), for every number
of workers, ring capacity, batch size, policy and death; so the theorems above
hold of whole deliveries: `DeliveryBoundsOccupancy`, `DeliveryImplementsStream`.

The pool's books are in three invariants.

- `WorkAlwaysConserved`, by `PoolInv`: a command that waits for a worker is at
  most once among its ring, its hands and its completions, exactly once while
  the worker lives; one that does not wait is nowhere. What
  makes it inductive is what a restart keeps: a dead worker has nothing in its
  hands, and the positions of `replay` are not waited for until they are sent.
  `replay` is a set, as the code takes the outstanding positions out of a
  dictionary and sends each once.
- `BatchesAlwaysWhole`, by `BatchInv`: the batch being assembled is a run of
  consecutive positions, it starts where the iterator is or, on completion, at
  the batch at the head of the queue, and it is short of the whole batch while
  more is asked of the frontier.
- `ClosedByPolicyOnly`, by `CloseInv`: only a policy closes the loader. It needs
  that the rings are as large as the frontier grows (a replay is sent into one
  fresh ring) and, in strict delivery, that batches are single samples or nothing is
  restarted: `MCDeliveryPartialBatch` has the restart that falls between the samples of a batch.
- `DeliveryServesStream`: the batches returned implement `OrderedStream`
  themselves. A step of the consumer appends one ordinal, which was not there
  before, and in strict delivery is the next one.

### Ring

From `RingAssumption` (no thread both pushes and pops, at least two slots; a
sender can be told from an empty frame and from the answers):

- `FramesExclusive`: no two threads are at one frame. `ClaimInv` says that a
  thread that owns its slot finds the expected sequence number in it, and that no two threads of a side claimed
  one position. The window between the two counters is not needed: whoever is
  about to publish holds the slot's sequence number still, so no exchange of
  the next lap can be due.
- `RingTypeCorrect`, `RingImplementsFifo`: the ring implements `BoundedFifo`.
  `RingInv` adds the window (`dequeue <= enqueue <= dequeue + Capacity`, and what each
  slot's number says of it), and the calls: a call in progress has no answer
  and its message in hand. A push takes effect at its claim, a pop at its own;
  a frame a dead producer never published is in the queue all the same, with the message it would have carried.
  Slots are positions modulo the capacity; `ModUnique` is what is used of that.

### Duty search and arena

From `TunerAssumption` (a positive step, an initial duty within the maximum),
`SearchIsMinimal`: a search that nothing disturbed settles on a duty one step
below which the core would power down. The strengthening is `SearchOrder`:
while a bound is known the search stands exactly one step below it, and the duty
applied is the tuner's except before the first window. `KeeperSearchIsMinimal`
carries it over to the activity thread, whatever the consumer calls.

From `PlanAssumption`, `ArenaAllocatorProofs` shows the arena's three
invariants. `ArenaInv` is the strengthening: besides the types of the slot
records it says that a slab not yet added has free slots only (`UnusedFree`, so
growth hands out a free slot), that a reference given up names an earlier use of
its slot or a payload already complete (`StaleBehind`, so nobody but the holder
can end a reservation), and that whatever is held is being written by its holder
in its own generation (`HandlesWrite`). `ReservationsAlwaysHold` follows, as the
generation and the writer of a slot leave room for one holder.
`ViewsAlwaysCounted` and `PoisonAlwaysCounted` count finite sets: a delivery
creates as many views as it records, a release removes one, and a dead writer's
slots are disjoint from those poisoned before. The capacity that growth computes
for a new slab plays no role, so the proofs do not type it.

### State of a loader

`LoaderStateProofs` takes the four parts one by one (`PartsApart`: a step of one
leaves the others alone), from `StateAssumption`.

- `PassesExact`, by `PassInv`: the open iterator's base and the batches ahead of it are
  exactly what the pass delivered, and so is every coordinate, saved or
  about to be resumed, of the pass that reached it. Its hypothesis: a loader on
  completion is not captured between epochs (`CaptureIdle`), where its state
  forgets the batches ahead; `MCCheckpointAbandoned` shows it.
- `EpochsFresh`, an action property, by `UsedInv`: without an override the epochs that delivered end at
  the current one if it has delivered, and before it if it has not.
- `LivingKeepRegions`, by `HoldInv`: who holds a region owns it and lives. Nothing
  is assumed of the writes. `RegistrySound` is the whole of `RegistryKept`, by
  `RecordInv`, and needs that no write stops halfway (`Torn = FALSE`): every region has its record or is about to get
  it, and a sweep's remaining and kept lines name every region it did not unlink.
- `DeliveredCountsGiven`, by `FlowInv` (the item on its way is the next one) and
  `CountInv` (the consumer has as many batches as it counts). Excluded is a failing iterator that closes its own loader
  and whose user calls `next` all the same: the close from within forgets the
  thread that runs it, and the call would start a second one.
- `ValuesStayFaithful`, by `StorageInv`: an address a worker knows is the address of the
  storage whose bytes its number names, within the results the owner decodes
  next. It needs that no storage is temporary (`MCStorageTemporary` shows the
  other case) and that both sides go in order (`Ascending`, `InOrder`).

### Runtimes

`LoaderRuntimesProofs`, from `RuntimesAssumption` (`SampleAssumption`,
`ThreadAssumption`, `PipeAssumption`, and configurations that are records of
the options; the frontier holds a batch, as `process/sizing.py:50` arranges):

- `SamplesInOrder`: over captures, restores and errors the consumer has a prefix
  of what the sampler yields. The invariant `SampleGood` says where the
  iterator stands in the sampler it has and, for every coordinate kept, that
  the checksum and what was delivered match.
- `SamplerAlwaysContinues` adds the consumer's random state (`AmbientInv`), for loaders that stage nothing made in the
  process itself (`Unstaged`): a staging thread installs the samples' streams over the process's random state while the consumer draws from it.
- `BatchesAlwaysKept`, without a hypothesis: a pass of the structured pipeline
  reads each batch once and in its place (`ReadsGood`, `PassGood`), and no
  buffer is written while its batch is still to be used (`SlotsGood`: a buffer has one
  user among the results, the running tasks and the consumer).
- `ThreadsAlwaysExact`, without a hypothesis, in order and on completion. What
  the consumer has is what the iterator's coordinate says (`GotGood`: each batch
  below the base and each marked ahead of it, once), and so it is of every state saved or about to be
  resumed. On completion the position counts the samples of those
  batches (`Within`), and a batch marked adds its own samples and no
  others, so a pass that counts all samples has all batches. In order the
  position lies in the batch that comes next (`PlacedIn`), and the cursor that is saved,
  rounded up, is that batch. That a submission hands positions over in
  order, without gaps, rests on `Ranked`: every rank below the size of a finite set of
  naturals is taken. What the pool does with them does not enter: late
  callbacks and futures of abandoned iterators change no coordinate.

### Compatibility loader

`CompatLoaderProofs`, from `LanesAssumption`:

- `ZeroRestoresExactly`, by `ZeroInv`: in the single-process regime a state saved by an
  iterator names the position and the random state it was at (`ExactPoint`),
  the iterator at work draws the values of the process's own stream
  (`ExactActive`), and the one a load prepares goes on there (`DueNext`).
- `SavedStatesLoad`, without a hypothesis: a state captured from the lanes, after
  any deaths, raised fetches, timeouts and abandoned iterators, is one
  the loader takes. A capture drains the lanes, and what it finds
  depends on what is under way, so most of the proof says where every task is. In each lane
  the ring of commands and that of completions hold the tasks sent there and not yet
  received, in the order they were sent, and the pool counts the same (`Ringed`); the tasks between
  delivery and submission are in a ring or among the values received, never in both
  (`Window`). Two lemmas count with finite sets that no ring is ever full when the pool
  has room, so no submission is refused.
- `ResumesExactly`: what the consumer has, over captures and loads, is what one
  iterator that nobody interrupted gives, or, where a state was captured from an
  iterator that had raised or been left invalid, what the random states that it
  resumes from give undisturbed; that these are not always the original ones is
  `CapturesEveryLane`, refuted above. So the invariant also bounds the counters and the
  ready values of an iterator that raised or was abandoned (`Bounded`), since its points may
  still be saved. `LanesInv` adds that answers carry the draw of
  their lane up to a first raised fetch (`Faithful`), that every lane has a
  batch under way until the sampler ends (`Spread`), and that a saved state that carries a story
  names a point for every lane that still has batches, with that lane's draw (`Loads`, `Covers`).
  For a state without one the story is told anew when it is loaded, and agrees with
  every lane at the first batch that is left to it (`ToldFrom`).
  Its hypothesis is `Lanes <= Prefetch`, or that no configuration can save: without it
  `Spread` fails after a load and the states miss lanes, as the table above has it.
- `OrderedEpochsWhole`, under the same hypothesis: an in-order map epoch that ends has delivered every batch left to it, each
  once. When the sampler is exhausted and nothing is sent or held, `Window` leaves only the end for delivery.

### What surrounds process delivery

`ProcessControlProofs`, from `ControlAssumption` and `LossAssumption` (positive
cadences, clip, hysteresis and limits, as the factors of
`control/controller.py` are validated, and positive batches, as `constructor.py` validates them; a loss of one is above the losses
measured), takes the parts of `ProcessControl` one by one.

- `KeepersRest`, by `RouteInv`: the two clocks of the claim, the short gaps in a row and the
  time they took, run no faster than the iterator's own (`ClocksAgree`), so that a keeper that should rest by
  them has been asked to; and as many keepers are open as the loader has (`OneKeeper`).
- `RoutesAreReleased` and the action property `ParkingIsEarned`, by `WidthInv`:
  since the last delivery that waited there were as many deliveries as the controller's
  quiet cadences and the one under way hold (`CalmCounts`); a cadence in
  which the consumer was fed and nothing was released is one of the
  controller's quiet ones, for commands that are single samples (`FedCounts`); and the
  iterator's routes are the controller's width. With whole batches `FedCounts` fails, see `BatchRoutesReleased`.
- `CalibrationsKept`, by `StoreInv`: a saver's temporary holds the measured
  record of its machine, so only foreign files can take a saved one's place; and
  every curve that a loader accepts is strictly ordered with losses below one,
  so each point between lies on a segment and its loss between those of the ends.
- `ProbesAreDelivered`, where `ProbeMeets` holds: epochs of two commands or more, samples with
  a window of two or more, and whole batches or a user's sampler where no epoch is set and no state is
  loaded (the table above shows what happens otherwise). By `HandoffInv`: every command and answer in a
  worker's line was sent to that worker in the iterator's epoch, and its position is nowhere else (`Lines`);
  an iterator that stands at the first position has sent it (`Aimed`); an owner
  that holds the first value has more under way, so that an iterator that is dropped
  takes its pool with it (`Heard`); and while worker zero of a batch plan, or the
  owner for a user's sampler, keeps the value, the epoch is that of the pool and its
  first position is open (`KeptForEpoch`, `RetainedForEpoch`). The rounds of
  `_fill_frontier` and `_poll_completions` are followed one by one (`FilledKeeps`, `PollKeeps`).
- `StreamsAreCovered`, with no hypothesis but positive batches and numbers of ranks. By arithmetic of the placement:
  the shares of a tail begin in order and no share is longer than a batch (`Shares`), no two positions of a rank or of two
  have one coordinate (`PlacedApart`), and the first `m` batches of all ranks are the first `m` global batches, whatever the
  number of ranks (`PlacedInFront`, `FrontPlaced`, `CoordinatesFront`). By `RanksInv`: what was seen of a position is the number of
  its coordinates that the ranks are past (`Counted`); every rank is as many batches past one front as it was called, up to its end
  (`InStep`), so that ranks called equally often have the same cursor; and a saved state holds the count of the front
  it names (`SavedCounted`), which is where any other number of ranks begins. That a restart is
  accepted (`ResumeAccepted`) is false, see section 3.

### How, and what is left to TLC

Induction over data is out of the prover's reach. Where a proof needs a smallest
element (the first line of a name, the first free buffer) it uses
well-founded minimality, `WFMin`, on the naturals.

Proof attempts changed the models where these were wrong or too loose: `replay`
was a sequence and is a set; `NewIterator` of `ThreadDelivery` started at
base 0 whatever cursor it resumed at; the constants of the
ring, the samplers, the threads and the pipeline had weaker assumptions than the code;
the probe of a user's sampler held in `process_control` only because four events are too few to
break it (see the table above), and epochs are not set there any more;
`CompatLanes` names what a lane answers, before and after a fetch that raises,
as operators (`ArrivalWith`, `ArrivalPast`) and computes a ring's capacity by shifting, as the code does (`Shifted`).

Checked by TLC only: `StreamContinues`, whose module
uses `SelectSeq`, which tlapm does not define; `FleetConsistent`,
which folds over what is replayed, so that a proof
needs induction over it; `WholeEpoch` of iterable
datasets and on completion (of an iterable one on completion it is false for some constants, see the table above); and liveness (`CallsReturn`, `EpochEnds`, `CallsSeen`,
`EnoughDuty`, `StagingReturns`, `NextReturns`, `CallsEnd`), which is out of
reach. No module that is proved about uses a RECURSIVE operator.

## 5. Not modelled, and the plan

Left to do, most important first:

1. Failures across components that are modelled apart: a payload that carries a
   storage dropped with its iterator, so that later views of it refer to nothing
   (`process/pool.py:297`); a staging thread over an iterable stream whose state
   is captured from the consumer's thread (`memory/pinned/iterator.py:104`).
2. User exceptions and native batch delivery in `ProcessDelivery`; the arena slots
   its commands reserve, by composition with `ArenaAllocator`.
3. The permutation and the placement of random streams (`rng/`), request
   coalescing (`io/plan.rs`) and cell histograms (`telemetry/`) as functions
   against a reference definition.

Not modelled, and not planned: message encoding, buffer views, collation
kernels, planning and decoding, fingerprints and configuration keep no state
between calls; telemetry and diagnosis report; `PROJECT.json` has each with its
reason. The lowest-level platform code (affinity, page locking, mapping, process
observation) is external to the models that use it.

Theorems to prove next: `WholeEpoch` of iterable lanes and on
completion, which needs a limit that is shared evenly whichever lanes have ended; the safety core of the keeper's
`close` (after stop, the permit is set whenever the thread is about to park).

Out of reach or of no use here: the arithmetic of the Philox generator beyond
its test vectors, weak memory orderings, platform calls (affinity, page locking,
shared-memory mapping), and timing.
