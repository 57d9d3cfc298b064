# Formal models of gpu-info-rs

This directory holds TLA+ models of the concurrent core of the crate, the TLC
configurations that check them, and TLAPS proofs about them. It is written for
a reader who has the repository open: file names without a directory
(`wait/work.rs`) are under `src/src/`.

The crate hands out wgpu devices for a whole process and owns what runs and
lives on them: it creates devices once, counts submissions, keeps the resources
of unfinished GPU work alive until the GPU is done with them, pools and accounts
memory, and persists compiled pipelines. That part is all interleaving, partial
failure and ordering, and unit tests see little of it. The other half of the
crate reads drivers and operating systems: which card is how full, what may be
spent of it, who shares it. The parsing there is plain, but the machine changes
between one interface's answer and the next, and figures of one card are easily
given for another; that is modelled as well.

1. [The system](#1-the-system)
2. [Modules](#2-modules), with the correspondence to the code
3. [Runs](#3-runs): what each shows, and its bounds
4. [Fairness](#4-fairness)
5. [Proofs](#5-proofs)
6. [Disagreements found](#6-disagreements-found)
7. [Abstractions and what is not modelled](#7-abstractions-and-what-is-not-modelled)
8. [Plan](#8-plan)
9. [Running it](#9-running-it)

## 1. The system

### Components

| Component | Code | State | Operations |
|---|---|---|---|
| Admission gate | `pool.rs` `Gate`, `Permit`, `OwnedPermit` | a mutex around the count of free permits, one condition variable | `enter`, `enter_owned`, `enter_until`, dropping a permit |
| Work queue | `wait/work.rs` `WorkQueue`, `PendingWork`, `RecordedWork`, `WorkContext` | the pending submissions oldest first, `poisoned`, `poll_fault`, the first loss reason; per entry its completion, recovery fence, failure and leases | `try_submit`, `collect`, `wait_for_slots`, `shutdown`, `Drop` |
| Submission and waiting | `wait.rs` `submit`, `Submission`, `Notify`, `Validation`, `wait`, `map_read` | a signal with a condition variable, the scope future, `in_flight` per label, the `BIND` mutex | submit, wait, wait for idle, map for reading |
| Resource pool | `pool.rs` `ResourcePool` | the idle items in order of return, their byte sum, an atomic budget | `take`, `put`, `set_budget`, `evict`, creating on a miss |
| Buffer workspace | `pool.rs` `BufferWorkspace` | what one job has checked out | checkout, recycle, dropping without recycling |
| Memory admission | `budget/admission.rs` | limit, bytes reserved, bytes allocated | `reserve`, `charge`, `set_limit`, the drops of `Reservation` and `Charge` |
| Managed resources | `resources.rs` | idle pool, ledger, list of staging buffers being remapped; per item a health flag and whether it is mapped | `prepare` and polling it, `collect`, dropping owners, `set_idle_budget`, `upload`, taint |
| Device creation | `lib.rs`, `pin.rs` | three `OnceLock`s, the `DEVICE_CREATION` mutex, the module pin | `shared_device`, `compute_device_status`, `auto_compute_device` |
| Vulkan queue choice | `shared_vk.rs`, `compute_vk.rs` | the queues a device was opened with and hands out | `open_shared`, `open_compute` |
| Pipeline cache | `pipeline_cache.rs` | the cache file, a temporary file per process, the driver's cache, `saved` | open, compile, save |
| Memory budgets and limits | `budget.rs`, `limits.rs`, `vram.rs` | the VRAM watch's last device, reading, its age, failing flag, under one mutex | plans, tiling decisions, driver queries, `VramWatch::budget_with` |
| Image input and output | `image.rs` | none of its own | upload, read back |
| External memory | `external.rs` | per view a buffer, its memory, a wgpu buffer; the exporter's NT handle | export, import, acquire, release, the drops |
| System statistics | `stats.rs`, `stats/*`, `os.rs`, `model.rs` | per thread the adapters and the PDH query (Windows); NVML once per process | `stats::query_all`, `os::query`, `os::query_all` |
| Displays, process memory, probe tool | `displays.rs`, `win_mem.rs`, `bin/wgpu-info.rs` | none | read and print |

### How they interact

- **Calls.** `WorkQueue` submits through `submit_checked` and observes through
  `Submission::status`. `Resources` takes from and returns to a `ResourcePool`
  and reserves from a `MemoryBudget`; an owner that is dropped calls back into
  both. `compute_device` and `shared_device` open a pipeline cache on demand.
- **Figures.** `os` makes memory figures of what `stats` read, `budget` plans
  with them or with the driver's live figures, which `vram` reads for one
  adapter and `VramWatch` rations for several threads. None of them is told
  when a card fills up, leaves or comes back.
- **Shared state.** One wgpu queue is submitted to by the work queue, by
  `submit` and by the host directly. Two device locks are filled under one
  mutex. Every cache of one adapter, in any process, has one file.
- **Callbacks.** Completion and mapping callbacks run inside whoever polls the
  device (or submits to it), or are dropped uncalled when the device is lost;
  `Notify` and `MapNotify` turn either into a recorded outcome. The host's
  loss callback sets the first loss reason and nothing else.
- **Drops.** Permits, reservations, charges, leases, recordings and whole
  queues do their last work in `Drop`, during unwinding too.

### What is hard, and what correctness means

| Component | Hard behaviour | It is correct when |
|---|---|---|
| Gate | threads with and without a timeout sleep on one condition variable; `notify_one` may reach the wrong one | permits are neither lost nor minted; a free permit is never stranded while somebody sleeps |
| Work queue | callbacks that never come, panics in the middle of a submit, scopes that settle late, polls that fail, the loss of the device | leases are released once, and only when the GPU can no longer touch what they keep; a success is one; every submission settles and the teardown ends |
| Submission, waiting | many waiters, each its own poller; a callback that attaches to "the last submission"; outcomes recorded twice | a callback waits for its own commands, `in_flight` is exact, `Ok` is true, waiters agree, a wait returns |
| Pool | the lock is released for every item destroyed | bytes and entries stay within the limits, an item has one owner, what is evicted is the oldest and no more than necessary, `put` ends |
| Managed resources, ledger | prepares that race for the same headroom; batches that fail half-way; staging buffers in flight between owner, remap list and pool | the ledger is the sum of what exists, use grows only within the limit, what is idle may be lent, an item is in one place |
| Device creation | one lock filled inside another, panics, two locks under one mutex | each device is negotiated once, every call returns |
| Vulkan queues | overlapping families, one-queue families | no two users share a queue and none is used that was not requested |
| Statistics | several interfaces asked in turn of a machine that changes, twins, caches that outlive a driver, probes that fail | a figure is of the card it is given for; a failed probe is got over |
| Budgets, watch | floors, saturation, figures that are unknown; one cache for several adapters whose handles may be equal | a plan fits in what there was, a cached reading is of the card asked about and recent |
| External memory | four driver calls in a row, each may fail; objects dropped in any order | nothing leaks, nothing is destroyed twice or in use |
| Pipeline cache | crashes, two writers, a temporary file with a shared name | readers see whole files, snapshots go forward, nothing stays unsaved |

`PROJECT.json` lists each hazard at its line with the properties that cover it.
Four have none: two liveness hazards of the work queue (a host that never
reports a lost device after a panicked poll; a recovery fence that can prove
nothing, under endless foreign submissions or in a browser, where by the code's
own rule the entry is held for ever), two processes that overwrite each other's
pipeline cache, which the code accepts because a cache is a hint, and the
barriers of `acquire` and `release`, which wgpu does not track.

## 2. Modules

| Module | Models | Extends or instantiates |
|---|---|---|
| `Gate` | the admission gate | |
| `GateProofs` | theorems about it | `Gate`, TLAPS |
| `Leases` | what the work queue promises (abstract) | |
| `WorkQueue` | the work queue (detailed) | `Leases`, as the abstract specification |
| `WorkQueueProofs` | every safety property of `WorkQueue`, and that it implements `Leases` | `WorkQueue`, TLAPS |
| `Submissions` | submitting and waiting | |
| `SubmissionsProofs` | its safety properties | `Submissions`, TLAPS |
| `ResourcePool` | the pool and the workspace | |
| `ResourcePoolProofs` | its limits and its owners; sums over lists and sets | `ResourcePool`, TLAPS |
| `Resources` | managed resources and the ledger | `ResourcePool`, composed with it action by action |
| `ResourcesProofs` | the ledger, the places of an item, what is lent | `Resources`, `ResourcePoolProofs` |
| `Devices` | device creation and queue choice | |
| `DevicesProofs` | its safety properties | `Devices`, TLAPS |
| `PipelineCache` | the cache on disk | |
| `PipelineCacheProofs` | its safety properties | `PipelineCache`, TLAPS |
| `Cards` | the machine: cards that fill, leave and return, interfaces that stop and answer (external) | |
| `GpuStats` | `stats` with its four backends, and the memory figures of `os` | `Cards` |
| `Budgets` | the formulas of `budget.rs` and `limits.rs` (pure) | `Cards` |
| `VramWatch` | the driver's live figures and the watch that rations them | `Cards` |
| `SharedBuffers` | export and import of shared memory | `Cards` |
| `CardMemory` | the last four over one machine, and their properties | all of them |
| `CardMemoryProofs` | that the watch is fresh, shared buffers are exact, readings are of their cards and plans fit | `CardMemory`, TLAPS |
| `MC*` | instances for TLC: constants, symmetry, history variables | the module they are named after |

All modules follow one rule for atomicity: **one action is what a thread does
between two points where another actor can see or change what it uses**:
taking or releasing a lock, calling the driver, returning to the caller. Locals
of a call in progress are kept in one record per thread (`local`, `call`,
`prep`, `writer`), and `pc` or `phase` says where it is. `Faulty variant`
operators are never part of a specification: each is a plausible bug, kept to
demonstrate that some property notices it.

### Gate

`free` is the count under the mutex, `pc` where each thread is, `cancelled` a
history variable. A *Blocker* is a thread in `enter` or `enter_owned`; a
*Poller* one in `enter_until`, which asks its closure (`check`) before each
attempt (`lock`) and sleeps at most 10 ms. `Take` and `Sleep` are the two
outcomes of looking at the count, `TimeOut` and `SpuriousWake` the ways a
sleep ends without a notification. `Leave` is the drop of either permit: it
increments the count and wakes one arbitrary sleeper in the same step, which is
what `notify_one` after the increment amounts to for threads that re-read the
count under the mutex. `Gate::new(0)` gives one permit (`Size`).

### WorkQueue and Leases

A submission is a position on the in-order GPU queue: `tail` counts what was
submitted, `done` what has retired, so "the commands of j have retired" is
`work[j].at <= done`. The owner's call is cut into `Call`, the poll
(`TerminalLoss`, `PollFails`, `Poll`), the two halves of the loop body of
`collect` for each entry (`Observe`, `Settle`), `CollectEnds`, and what each
caller does with the result; `try_submit` continues with `Install`, `Submit`,
`Bind` and `SubmitFinishes`. Between any two of them the GPU retires, callbacks
run or are dropped, others submit, the device is lost. `local.empty` is the
`queue_empty` that `collect` reads once and uses for all entries: that it is
stale when used is the point of cutting there.

`Recover` is the empty fence submitted after a failure, with its own scopes,
callback and failures. `Faults` selects what the driver may do: reject
(`reject`), panic in submit or while registering (`panic`), drop the callback
of commands that ran (`drop`), fail the fence (`fence`), fail a poll (`poll`),
panic in one (`pollpanic`), lose the device (`loss`). `Browser` is the wasm32
build: error scopes are promises, an empty queue proves nothing, and the event
loop runs only between the owner's calls.

`Leases` is the contract as the comments of `WorkLease` and `WorkQueue` state
it, without queue, callbacks, scopes or fences: leases are aborted before
commands could run, or completed after they can no longer run, or released by
the loss. `KeepsContract` is the refinement: with `running` defined as the jobs
whose position has not retired and the other variables mapped by name, every
step of `WorkQueue` is a step of `Leases` or a stutter.

### Submissions

A request is named by its thread; `kind` is a plain submission, one under error
scopes, or a `map_async`. `callback[s]` follows the `Notify`: registered for a
position (`bound`), called or dropped (`finish`, `record`), dropped after having
been called (a second finish), gone. Its `runner` is the thread that happened to
poll. `Count`, `Submit`, `Register` are `submit_to` with the `BIND` mutex held
from the second to the third; `Unwind` is a panic in either. `Validate`, `Ask`,
`Observe`, `Call`, `Sleep`, `Timeout` are the loop of `block`; `validation` is
the future that a waiter takes out of its lock while it polls it.

### ResourcePool

`idle` is the list, oldest return first, with `bytes` as the code counts it
(a variable, not the sum). `put` is `PutStarts` (reads the budget with no
lock), `PutEvicts` (one round under the mutex), `DestroyEvicted` (with the mutex
released), and `PutEnds` (the critical section in which the loop ends);
`evict` likewise. `CreateOnMiss` and `Discard` are what owners do outside. The
specification is `PoolSpec`, since `Resources` extends the module.
`MCResourcePool` adds a history variable that remembers the list a call began
with unless another thread interfered, to say what an undisturbed call does.

### Resources

Extends `ResourcePool` and conjoins ledger, health, mapping and remap list to
the pool's own actions, so no pool behaviour is restated. A `prepare` is `PrepareStarts`, one `TakeIdle` or `TakeMisses` per
descriptor, `ReserveGranted` / `ReserveEvicts` / `ReserveFails`, one `Create`
per miss, `Created`, and the verdict of the scopes (`Accepted`, `Rejected`);
failure drops the batch one owner at a time (`DropBatch`). `DropOwned` is
`Owned::drop` with its three ways: destroy, remap, put back. `MapSettles`,
`CollectStarts`, `Harvest` are the remaps. The charge of an item is returned
where the code returns it, at `Destroy`.

### Devices

`cell` are the three `OnceLock`s: `unset`, `running` (some thread is inside the
initialiser, others wait), `some` or `none`. `Start` enters the initialiser,
for `auto` that of the compute device inside its own; `Lock` takes
`DEVICE_CREATION`; `Unwind` is a panic, which empties the locks this thread was
filling and releases the mutex (poisoned, which the code ignores). The second
half are pure operators: `DecodeFamily`, `ComputeFamily`, `ComputeQueue`,
`Requested`, `FlowFamily` compute what `open_shared` and `open_compute` ask
Vulkan for, for a machine chosen from `Machines` at start.

### PipelineCache

The file system is inodes: a name is an inode number, an open file keeps its
inode whatever becomes of its name, and creating over an existing name
truncates. `Save` takes the mutex and the snapshot, `CreateTemp` and
`WriteTemp` are the two halves of `std::fs::write`, `RenameTemp` replaces the
file. `SavesNothing` is the early return when the
backend has no data, `SaveFails` any error in between, `Crash` the end of a process at any
step, after which it may start again and open what it finds. The data of a
cache is the set of shaders compiled into it; `whole` is false for a truncated
or mixed content.

### Cards

The world of the next four modules, none of it the repository's code: what is
built in (`machine`, chosen at the start), which card is there, under which LUID
and how full (`card`), which interfaces answer (`up`). `Load`, `Leave`, `Return`
and `Falter` change it at most `MaxChanges` times. A card that returns has a new
LUID, as after a driver restart.

### GpuStats

A call is a sequence of steps, one per interface it asks, and the machine may
change between any two: on Windows `ListAdapters` (DXGI, cached per thread by
the first call that finds anything), `Collect` (PDH, whose query is cached
likewise) and `Enrich` (NVML, loaded once per process, never again); on Linux
`QueryNvml` and `QueryDrm`; on macOS `QueryIokit`, and `QueryProfiler` for the
memory of a Mac without figures. `Conclude` is what the three public functions
make of the readings, with `os::query_all` starting over for the primary GPU
when no reading has a size. Names are records, so twins are equal; what is
parsed from the system's tools is an input (`machine.ram`, `machine.free`,
`Desc(c).published`), and NVML's many sensors are one value, the card they are
of. `of` and `truth` are history fields: of which card a reading is, and how
that card was when it was sampled. The property compares them with what the
code reports, which it derives from LUIDs, names and ordinals only.

### Budgets

Operators with the names of the functions, in MiB and hundredths. They are
evaluated inside `Plan`, on figures that the other modules produced.

### VramWatch

`Hit` and `Miss` are the two ways through the first half of `budget_with`, under
its lock; a miss keeps the lock (`holder`) until `Reads`, or until `Unwinds`
when the query panics, after which the poisoned lock is used as before. `Query`
is `VramQuerier::new` followed by `query`, on the three platforms. `AdapterKey`
is the wgpu handle with the physical identity; a machine may give two adapters
one handle, which is what two wgpu instances do. The identity is the LUID, the
UUID of a Vulkan device whose driver has no valid LUID (`Adapter.luid`), or
nothing. Time is `Tick`, and an age stops at `Every`. `origin` and `torn` are
history: of which adapter and how old the last reading is, and whether a query
for another adapter unwound since.

### SharedBuffers

One action per driver call of `export` and `import`, each of which may refuse
and then has to destroy what the function made before it; from `GetHandle` on the
objects are `Owned`'s. `create_buffer`'s action also stands for the errors
before it (`raw`: not Vulkan, extension missing), which leave as little behind.
`Use` and `Finish` are commands wgpu tracks; `DropView` is the owner's drop,
`DropOwned` the callback of wgpu when it destroys its hal buffer.

### CardMemory

Interleaves the four. A *sampler* polls `stats::query_all` and
`os::query_all`; a *planner* asks `os::query` and plans a job (`Plan` calls
`vram_budget`, `ram_budget_or`, `live_headroom`, `plan_vram`, `tiling_reason`
and `validate_dims` as a consumer would); watchers and sharers use the watch
and the shared buffers.

## 3. Runs

Bounds are in the `.cfg` files. Passing runs end without error; the two
runs marked *violation* each show one disagreement of section 6.

| Run | Instance | Properties and what they show |
|---|---|---|
| `gate` | 2 blockers, 2 pollers (one may give up), 2 permits | `PermitsConserved`, `NoStrandedPermit`; under fairness `ReleasedUnlessCancelled`: a sleeper does not sleep on while a permit stays free, unless an `enter_until` gave up |
| `gate_cancelled` (violation) | the same, 1 permit | `BlockedIsReleased`, the contract of `enter` with no exception |
| `work_queue` | native, 2 jobs, capacity 2, 1 foreign submission, every fault; the owner submits, collects, waits for slots and drops | `SettledHasRetired`, `SuccessIsReal`, `PoisonedWhileInDoubt`, `NoSubmitInDoubt`, `FatalPollIsLatched`, and `KeepsContract` |
| `work_queue_live` | native, 2 jobs, capacity 1, every fault but polls that fail; the owner submits, collects, shuts down and drops | `QueueTypeOK` with a queue that is full, `EverySubmissionSettles`, `TeardownEnds` under fairness |
| `work_queue_browser` | browser, 3 jobs in flight, rejected scopes and dropped callbacks | `PendingIsFifo` with entries that settle out of order, `KeepsContract` with scopes that settle after the call |
| `pool` | 2 threads, 4 items of 3 sizes, budgets 0, 2, 3, 2 entries | `WithinLimits`, `OneOwner`, `UndisturbedIsLru`, `CallsEnd` |
| `resources` | 2 threads, 4 items (2 plain, staging, readback), limits none, 1, 2 | `LedgerBalances`, `IdleIsReusable`, `OnePlace`, `GrowsWithinLimit`, `RefusedOnlyWhenFull` |
| `pipeline_cache` | 2 processes, 3 threads, 2 shaders, 2 crashes | `NeverHalfAFile`, `NothingLeftUnsaved`, `NewerSnapshotsWin` |
| `pipeline_cache_shared` (violation) | 1 process with two caches of one adapter | `NeverHalfAFile` |
| `submissions` | 2 threads, three pairs of request kinds | `BoundToItself`, `InFlightIsExact`, `WaitTellsTruth`, `WaitersAgree`, and `RequestsReturn` under fairness |
| `devices` | 2 threads, 69 adapters, 1 panic | `QueuesAreOwn`, `OneNegotiation`, `CallsEnd` |
| `card_memory` | 13 machines, 2 threads, 2 changes of the machine, 1 panic, 1 refusal of the driver | `UsageIsOwn`, `SensorsAreOwn`, `PlanFits`, `FreshForItsCard`, `SharedIsExact`, and `AnswersOnceHealthy` under fairness |

Why the bounds are enough to be interesting:

- *Gate*: with two sleepers of each kind and two permits a notification can
  reach either kind, be overtaken by an arriving thread, or be consumed by one
  that gives up. One permit suffices for the lost wakeup.
- *Work queue*: two jobs cover one failed entry beside one good one, in either
  order, at capacity and below; a foreign submission is what keeps the queue
  from being empty. Out-of-order settlement needs a third job and is checked in
  the browser run, where nothing else needs to be large. The liveness run has
  capacity 1, so the second job meets a full queue, and each job may panic, be
  rejected, lose its callback, fail its fence, or lose the device.
- *Pool*: an item larger than every budget, two of equal key, two threads: every
  put can be overtaken by a take, a put, an evict and a lowered budget.
- *Resources*: the limits are smaller than the sum of the items and no smaller
  than one plain item, so that prepares are granted, refused, and granted after
  an eviction; the staging buffer alone reaches the limit of 2.
- *Pipeline cache*: two threads of one cache race on its mutex, two processes
  on the file; two crashes kill a writer and then its successor. `MaxInode` is
  the number of names plus open files.
- *Submissions*: each of the four hazards needs two threads (somebody else's
  submit in between, somebody else's poll, two waiters on one). The pairs leave
  out only combinations in which both requests are of one kind.
- *Devices*: three families of every relevant ability, family 0 with one queue
  or two, and the adapters `open_shared` never looks at. Two threads suffice
  for two locks and one mutex.
- *Card memory*: two changes are a card that leaves and returns with another
  LUID, one that fills between two plans, or an interface that fails and answers
  again. The machines are twins listed behind a larger card, of which the
  ordinal in the list and the ordinal among the cards of that name differ, a
  hybrid with the one NVIDIA card second, an integrated part beside an NVIDIA
  card or the software rasterizer, a Vulkan driver without LUIDs, Linux with
  NVML and DRM cards, Macs of both kinds, and for the watch two adapters with
  equal handles. Two slots and one refusal let an import race the drop of the
  export it borrows from.

The type invariants of `Gate`, `ResourcePool`, `Resources`, `PipelineCache` and
`Submissions` are the first conjunct of `PermitsConserved`, `OneOwner`,
`OnePlace`, `NothingLeftUnsaved` and `InFlightIsExact`.

Deadlock is checked everywhere except in `submissions`, where each thread makes
one request and ends.

## 4. Fairness

Every liveness property is checked under the weakest fairness it needs.

- **Gate.** A started thread runs on (`KeepWaiting \/ GiveUp`, `Take \/ Sleep`),
  `wait_timeout` ends, an admitted job drops its permit. Nobody is obliged to
  arrive, a closure to answer no, or a wait to end spuriously.
- **WorkQueue.** The GPU retires what it has (`GpuRetires`), a call that began
  goes on (`OwnerStep`), and a host that holds the queue collects
  (`Call("collect")`), as a render loop does; `shutdown` and `Drop` loop by
  themselves. `Callback` and `ScopeSettles` are strongly fair: in a browser they
  are enabled only between calls, and the event loop runs infinitely often
  without being continuously free. The liveness run has no failing polls and no
  endless foreign traffic; section 1 says which hazards remain.
- **ResourcePool.** A thread inside `put` or `evict` goes on. Other threads may
  return items for ever, which is what the bound on the attempts is about.
- **Submissions.** A thread goes on (its timed sleep ends), the GPU retires,
  scopes settle. Nobody polls but the waiters: a wakeup depends on some thread's
  own poll, and the run shows that its own is enough.
- **Devices.** A thread that called goes on, when its next step is possible:
  waiting for a `OnceLock` or the mutex is no step, so a cycle of waits is a
  violation and is not hidden by fairness.
- **CardMemory.** A thread that samples goes on and polls again
  (`Runs(t)`, weakly fair), as the host's sampler does at 1 Hz. Nothing else is
  fair: the machine need not change, a planner need not plan.

## 5. Proofs

TLAPS checks the eight proof modules from nothing; every leaf is proved by Z3,
Zenon or, for the temporal steps, LS4. What a theorem assumes of the constants is
what the `ASSUME` of its module says, and TLC evaluates that in the runs;
only the theorems about the file of the pipeline cache have a hypothesis of
their own.

### The gate (`GateProofs`)

From `GateAssumption` (finite sets of threads, at least one permit):

- `TypeCorrect` and `PermitConservation`: `free` plus the admitted jobs is the
  size of the gate. A thread that enters moves one unit from the first summand
  to the second and `Leave` moves it back; the lemmas about cardinalities say
  what moving one thread between two disjoint sets does to their sizes.
- `NoStranding`: while nobody has given up, the permits a sleeper could use are
  covered by awake threads. The two sides change together: a waiter that takes a
  permit lowers both, a thread goes to sleep only after reading that nothing is
  free, and `Leave` raises both because its `notify_one` wakes somebody whenever
  anybody sleeps. The hypothesis is needed: run `gate_cancelled` breaks the
  liveness that depends on it as soon as a waiter may give up.

### The work queue: leases and retirement (`WorkQueueProofs`)

From `WorkQueueAssumption` alone, so for any set of jobs (finite or not), any
capacity, any faults, with or without a browser:

- `TypeCorrect`, which includes that `pending` never outgrows the capacity;
- `RetiredBeforeRelease`: a lease completes only after its commands retired, or
  with the loss of the device, and is aborted only if its commands never went
  out.

The second does not follow from itself: at the line that releases a lease the
code has no access to the GPU's position, only to signals, scopes and the flag
`queue_empty`, read at different moments. The inductive invariant `IInv` says
what each of these is worth:

| Part | Says | Needed because |
|---|---|---|
| `Owned` | `pending` holds held jobs, each once; the entry a call works on is there | otherwise the step could release somebody else's lease |
| `Positions` | a callback waits for a position at or after its commands, a fence comes after the work it recovers | others submit between `submit` and `on_submitted_work_done`, so the two positions differ |
| `SignalsProve` | a callback that was called proves the retirement of the work | follows from `Positions` at the step that calls it, and has to outlast it |
| `RecordedIsFresh` | nothing waits for commands that have not gone out | otherwise giving the work its position would break `SignalsProve` |
| `EmptyProves` | `queue_empty` stays a proof until `collect` is over | it is read once and used for every later entry |
| `SeenProves` | the status that the first half of the loop body saw still proves retirement in the second | the GPU, other pollers and the browser move in between |

`StepMoves` and `StepMovesLeases` say once what any step can do to the
submission, the fence and the lease of one job; the parts that speak of single
jobs are derived from these instead of from each action again.

### The work queue implements its contract

`Refinement` is `Spec => KeepsContract`: every step of the queue, of the GPU,
of the callbacks and of the browser is one step of `Leases` or none.

| Step of the code | Step of the contract |
|---|---|
| `Submit` that lands the commands | `Start` |
| `GpuRetires` | `Retire` of the one job at that position, if it is a job's |
| `Observe`, `SubmitFinishes` that commit | `Commit` |
| `Settle` | `Succeed` or `Fail`, with the commit of a recovered job in the same step |
| `TerminalLoss` | the release of all held leases at once |
| `Install`, `Abandon`, `SubmitAborts`, `Lose` | the step of the same effect on the lease or on `loss` |
| all others | a stutter |

`JInv` adds to `IInv` what these correspondences need: every held job is in
`pending` (`Listed`, so that the loss releases all of them); positions tell
jobs apart and a job is submitted once (`Distinct`, so that one retirement is
one job's); a job is not committed before its submission returns
(`Uncommitted`) and has its scopes by then (`Scoped`); and an `Ok` that the
first half of the loop body saw belongs to a committed job (`SeenCommits`, which
is why `Settle` may report it).

### What the owner of the queue may rely on

`KInv` adds the state of the flag and the latch at every place of a call
(`DoubtKnown`), the grounds on which work is committed (`Accepted`,
`CommitIsReal`, `SuccessIsTold`) and the order of the list (`Ordered`). From it:

- `SuccessesAreReal`: the difficult way to `Ok` is a callback that wgpu dropped
  although the commands ran; `Accepted` says that a dropped callback implies
  commands that went out, so `Recovered` is entitled to its success.
- `PendingInOrder`: removal from the middle keeps the order, and whatever
  `Submit` appends has the greatest position.
- `PoisonIsDoubt`, `DoubtSubmitsNothing`: the flag is read by `try_submit` after
  the `collect` it starts with; between that read and `queue.submit` no step of
  another thread can put anything in doubt, and a loss reported in the middle
  of a call leaves the flag alone until the next call.
- `FatalPollReleasesNothing`: with the latch set, no call reaches the loop of
  `collect`.

### Submitting and waiting (`SubmissionsProofs`)

From `SubmissionsAssumption` (a finite set of threads). The invariant falls in
two halves that most steps disturb one at a time: `RInv` follows a request up to
the outcome that its `Notify` records, `WInv` follows the waits.

- `CallbacksWaitForTheirOwn`: `Registered` says it, but holds only because of
  `Bound`: whoever is between `queue.submit` and the registration is the one
  holder of `BIND`, so the last submission is still its own.
- `InFlightStaysExact`: `Counters` equates `inFlight` with the number of
  callbacks that still have their time, and `Taken` says when they have not: a
  callback that was called and is then dropped finishes twice and leaves the
  count once. `Unborn` and `Unregistered` give a panic in `submit` its exact
  place before the count.
- `WaitsTellTheTruth`: from the recorded outcome back to the GPU
  (`OkRetired`), and from the result of a wait back to the recorded outcome and
  the verdict of the scopes (`Told`). The order of the two questions matters:
  `Observing` says that the signal is read only after the scopes answered.
- `WaitersStayAgreed`: `Told` again, because a verdict and a signal never
  change once given; `Asking` says that an empty future is in one waiter's
  hands, so that no second verdict is ever taken from it.

### Devices (`DevicesProofs`)

From `DevicesAssumption`, for any threads, any number of panics and any
machines with any finite number of families and queues.

- `NegotiatedOnce`: `OneFiller` (a lock that is running has one thread that
  fills it, and `auto` nests the filling of the compute device), `OneCreator`
  (who creates holds `DEVICE_CREATION`), `InPinned`, and `Exist` with `Unique`:
  there is a device where its lock has one or its filler has just opened it,
  nowhere else. A panic in the middle of a negotiation loses the locks and
  leaves no device behind, which is why `Unwind` keeps `Exist`.
- `QueuesStayOwn`: what a device is opened with never changes, so the work is in
  the two steps that open one. `ComputeFamily` and `DecodeFamily` are `CHOOSE`s
  over families; the lemmas say which family they can return in each shape of
  adapter, and the counting of queues is by cardinality of small unions.

### The pipeline cache (`PipelineCacheProofs`)

From `PipelineCacheAssumption`, for any processes, caches, threads, shaders and
crashes.

- `NothingIsLeftUnsaved` for all of them: `SnapshotOrSave` says that a thread
  which writes an old snapshot has a successor waiting to save again, and
  `SavedOrBusy` that `saved` is behind only while such a thread exists.
- `TheFileIsNeverHalf` and `OlderSnapshotsLose` where a process has one cache
  (`OneCacheEach`). The hypothesis is the one the code needs: run
  `pipeline_cache_shared` violates `NeverHalfAFile` without it. `OneName` is the
  heart: an inode has one name, so what another process or a crash does to its
  own temporary file cannot touch the file, and `RenameIsWhole` says that what
  is about to replace it is complete, of this cache and of this snapshot.
  `FileIsOlder` orders the file before every snapshot its cache still has to
  write; `OneWriter`, the mutex of the cache, keeps it so.

### The pool (`ResourcePoolProofs`)

From `ResourcePoolAssumption` (sizes, budgets and limits are natural numbers).

- `ThePoolStaysWithinItsLimits`: the pool's count is a running sum and the
  property compares it with a fold over the list. The library states no fact
  about folds that these provers can use, so the module proves what it needs of
  them: `NatSetInduction` is induction over a set of numbers instead of a
  predicate (from the well-foundedness of `<`), the fold exists and is unique,
  does not depend on the element taken first, and changes by one item's bytes
  where a list is shortened, appended to or loses an item in the middle.
- `EveryResourceHasOneOwner`: `Exclusive` is inductive only with `PutsInHand`: a
  `put` between two of its critical sections holds its item, and what it has
  just evicted is another one. `Moves` says once what a step that carries items
  between the pool and one thread must satisfy; every action is a case of it.

### The managed resources (`ResourcesProofs`)

From `ResourcesAssumption` (finitely many threads and items, plans that are lists
of keys, a limit that is one number or none). `RInv` extends the pool's invariant:

| Part | Says | Needed because |
|---|---|---|
| `PInv` | the pool's invariant | the pool's steps are steps here, and its lemmas are cited, not repeated |
| `Places` | host, remap list and pool are disjoint | what is dropped, harvested or created is then charged once |
| `NothingInHand` | a thread has items only while it prepares or collects | `CollectStarts` fills an empty hand, so nothing is lost |
| `Sums` | `reserved` is the sum of the remainders, each remainder what its prepare has still to create, `allocated` the sum over what exists | `Create` subtracts from both and must not underflow |
| `Reusables` | what is idle or being returned is fit and, if staging, mapped; what is being remapped or harvested is fit | an item reaches the pool by three steps of different threads, and the verdict on its work is older than all of them |

- `TheLedgerBalances`, `AnItemIsInOnePlace` and `WhatIsIdleMayBeReused` follow
  from `RInv`. A remainder that equals the missing bytes is also why
  `Reservation::charge` never meets its `ReservationTooSmall`.
- `UseGrowsWithinTheLimit` is the action property: `ReserveGranted` is the one
  step that raises the use, and it looks at the limit in the same critical
  section; creating moves bytes from `reserved` to `allocated`, and every other
  step lowers them or leaves them alone.

### The watch and the shared buffers (`CardMemoryProofs`)

From `VramWatchAssumption` (a positive interval, adapters numbered from 1) and
`CardMemoryAssumption` (the roles are threads; jobs and limits have their types).
`StepMoves` reduces a step of `Next` to one of the watch, one of the shared
buffers, or one that leaves both alone, so that each half has an invariant of
its own.

- `WatchIsFresh`, by `WInv`. Two parts of it hold of every answer, whatever
  unwound: it is the last reading, and less than the interval old. That it is a
  reading of the adapter asked about is proved of answers that are not torn (the
  exception is real, section 6); that the adapter is the same card, where its
  backend tells a physical identity. The answer of `Hit` carries the name in the watch
  and the value in the watch, and nothing in `FreshForItsCard` says that the two
  belong together. `HoldsLast` ties the value and its age to the last reading;
  `NamedAfterLast` ties the name to the adapter of that reading, but only while
  the lock is free and nothing is torn, since `Miss` renames the watch before it
  queries. `QueryIsLocked` and `HolderQueries` bridge that gap: whoever queries
  holds the lock under the name it asks for, so that `Reads` puts name and value
  together again and `Unwinds` tears them exactly when the names differ.
  `KeyIsCard` says what the key is worth: equal keys with a physical identity
  are one card, even when two instances of wgpu gave two cards one handle.
- `SharedStaysExact`, by `SInv`: a view is built by one call at most
  (`OneMaker`), which has made exactly the objects of its stage (`MadeSoFar`),
  and one that nobody builds is whole (`LeftWhole`). Each refusal is one use of
  `CallEnds`: what it leaves must be whole, that is nothing; each success is one
  of `CallGoesOn`. That wgpu's objects belong to no call (`OwnerStepKeeps`) is
  why an owner's step cannot meet a call half way.

### The figures of the cards (`CardMemoryProofs`)

From `CardsAssumption`: a machine lists each of its cards once in DXGI's order
and once in the order of the bus, its free memory is at most what it has, and
NVIDIA's cards of one model are of one kind (all hardware, all with memory of
their own or all without), so that the filters of `open_all` never separate
twins; and from `VramWatchAssumption` and `CardMemoryAssumption` (adapters are of
cards there are, jobs and limits are natural numbers). For any machine, any
number of cards, threads and changes:

- `UsageStaysOwn` and `SensorsStayOwn`, by `StatsInv`, which says of every thread what its cached
  adapters, its place, its unfinished readings and its last answer are worth:

| Part | Says | Needed because |
|---|---|---|
| `WorldIs` | a LUID names its card, for good | the counters of PDH are matched by LUID, also after a card returned under a new one |
| `AdaptersAre` | the cached adapters are sorted by size, of equals in DXGI's order, and hold all steady twins of an NVIDIA card or none | the ordinal of a reading is counted over this list, and has to be the twin's rank among all of them |
| `NvmlIs` | NVML's devices are in the order of the bus, and hold every steady NVIDIA card | the ordinal is looked up there, possibly long after it was loaded |
| `StepIs` | the readings to be enriched are of the adapters, place by place | `retain` drops the empty readings between counting and asking; `AllOrNone` shows that PDH answers for all adapters or for none |
| `TruthOf` | the memory in use is the card's unless its LUID is stale | carried from the sample to the answer, across changes of the machine |
| `SensesOwn` | any sensors are of an NVIDIA card that has the reading's model or is the only one that never left, no two readings of one name share a device, and they are the card's own if it is an NVIDIA card whose model is steady and numbered alike | what NVML adds, in one step after the sample |

  A card whose last departure is past never has its first LUID again (`Onward`),
  so `SensesOwn` of an old reading cannot become false. `MatchIsOwn` is the
  heart: the number of twins before a card in the one order, plus one, is the
  card's place among its twins in the other (`OrdinalIs`, by counting two lists
  of one set). What is said of the other readings is less, because the code
  promises less than it says: a Radeon may have the NVIDIA card's sensors
  (section 6), and a card that has left or returned shifts the ordinals of
  its twins. `UsageStaysOwn` is about cards that were there under the LUID the
  thread has cached. For this the module proves what the list operators do:
  `PickedIs` (`Filter` keeps the order), `SortedIs` (`Sorted` is stable),
  `ListsRank`, and `SumIs` (a sum over a finite set, by `NatSetInduction`).
- `PlansStayWithin`, by `PlansHold`: a plan was made from an answer that
  `StatsInv` calls true (`FreeIsTrue`: a known free figure is what the card had
  left), so the shares taken of it are within what was left (`BudgetHolds`); the
  other three are about the formulas (`PlanVramIs`, `RamBudgetIs`, `TilingIs`)
  and the driver's figure (`HeadroomIs`). A plan keeps to it whatever the
  machine does next, because what it was made from is kept with it.

### Only model-checked

- Liveness: `AnswersOnceHealthy`, `ReleasedUnlessCancelled`,
  `EverySubmissionSettles`, `TeardownEnds`, `RequestsReturn` and the `CallsEnd` of
  the pool and of the devices. `ENABLED` and fairness are out of the provers'
  reach.
- `UndisturbedIsLru` and `RefusedOnlyWhenFull` compare a step with the
  state in which an undisturbed call began, which only the history variables of
  the `MC` modules know.

Every invariant that the passing runs check is a theorem.

## 6. Disagreements found

1. **A cancelled waiter can swallow a wakeup** (`gate_cancelled`). `leave`
   notifies one of the threads asleep on one condition variable (`pool.rs:581`
   and below). If that is an `enter_until` whose closure then answers no
   (`pool.rs:541`), it returns without taking the permit and without notifying
   another, while a thread in `enter` sleeps with no timeout: the permit stays
   free and the thread asleep until somebody else leaves. `enter` is documented
   as "Wait until a job may run, and admit it".
   The `gate` run and `NoStranding` show that nothing else strands a permit.
2. **Two caches of one process share a temporary file** (`pipeline_cache_shared`).
   Its name contains only the process id (`pipeline_cache.rs:166`); the comment at
   `pipeline_cache.rs:43` says that a concurrent reader never sees half a file.
   Two devices of one process on one adapter, saving at once, can rename a file
   the other has just truncated. With one cache per process the property holds,
   crashes included (`pipeline_cache`).

Others, met while modelling, that no run is spent on. The twins, the torn watch,
the dead LUID, the foreign sensors and the unknown figure each limit
a property of `card_memory`, whose comment names the exclusion:

- **Another vendor's sensors** (limits `SensorsAreOwn`). With one NVIDIA device in
  the machine, `device_matching` gives it to the first adapter of each name it
  does not know (`nvml.rs:281-283`, which calls it unambiguous). A discrete Radeon
  listed beside it is shown the NVIDIA card's temperature, power, clocks and
  driver, while `stats.rs:114-118` says they are `None` on an AMD or Intel GPU.
  Integrated adapters are not listed beside a discrete card, so a laptop's Intel
  part is not affected.
- **A torn watch** (limits `FreshForItsCard`). `budget_with` takes the new device's
  name before it queries (`vram.rs:558-562`). When that query panics, the watch
  has the new device's name and the old one's reading, and a later call for the
  new device within the interval is given it; `vram.rs:485-487` says a cached
  figure of one GPU is never answered for another.
- **Unknown is free** (limits `PlanFits`). `os.rs:53` says of the free figure
  "Returns 0 when the value cannot be determined", but an unknown `used` counts
  as 0 and free is then the total (`os.rs:85`, `os.rs:249`, `windows.rs:149`),
  from which `vram_budget` plans a card that may be full. A card known to be
  full (free 0) is planned as an empty one too (`budget.rs:157-161`), since 0
  also stands for unknown.
- **"The only video-decode family".** `open_shared` looks at the first family
  that decodes (`shared_vk.rs:345`) and refuses the adapter if wgpu renders
  there, saying it was the only one (`shared_vk.rs:347`); an adapter with a
  second decode family loses the shared device.
- **Twins numbered differently.** Twins listed by DXGI in another order than the
  bus, or of which one has left, are numbered differently from NVML's
  (`windows.rs:175-177` says the ordinals match). `SensorsAreOwn` excludes both
  by name.
- **A dead LUID reads as zero.** Cached adapters are kept for ever
  (`windows.rs:72`). After a driver restart no PDH instance carries the old
  LUID, and the memory in use is `Some(0)` as long as any other adapter has
  instances; `stats.rs:68` prefers an absent figure to a wrong one.
- **A plan for no tiles.** `plan_vram` with `one_tile` 0 succeeds when targets
  and decode pool exceed the plannable share (`budget.rs:235-255`, against the
  description of `TooSmall`).
- **NVML is probed once.** `OnceLock` keeps a failed load for the life of the
  process (`nvml.rs:173-176`), unlike the retried probes of `windows.rs:64-65`;
  on Linux that is the whole reading of an NVIDIA card.
- **Shared memory means two things**: what a discrete card has spilled in
  `os::query_all`, what it may address in `os::query` on Windows.
- **Untracked barriers.** `acquire` and `release` record raw barriers that wgpu
  does not know to use the buffer, while `Owned::drop` relies on "used by
  nothing once wgpu has dropped the hal buffer" (`external.rs:86`).

## 7. Abstractions and what is not modelled

- **Data.** Commands, buffers, shaders and their contents are names. Sizes are
  small numbers; the ledger's 64-bit sums do not overflow here.
- **wgpu** is modelled from the assumptions the code states: an in-order queue,
  callbacks that run in some poll or submit after their position retired, or are
  dropped, scopes that report what happened inside them, and a lost device that
  completes nothing. wgpu-hal is taken to use family 0, queue 0, and every
  queue family to have at least one queue.
- **Submissions** has no submitter that bypasses `submit`, which `BIND` does not
  see; `WorkQueue` has (`ForeignSubmit`), and there a callback bound late is safe
  because a later position retires later.
- **Wait** statistics (the durations), `Checked::poll` of values that are no
  submission, `block_on`, and the blocking device polls are left out.
- **Resources**: descriptor validation, and dropping the whole context.
- **Memory order.** Atomics and flags are sequentially consistent; each is
  either a single independent flag or under a mutex in the code.
- **Devices**: features, limits and adapter selection are folded into what a
  machine has.
- **Figures**: numbers of the system are one per card, in MiB; the text they are
  parsed from, the retry with a larger buffer in PDH's `format` and the single
  sensors are abstracted. A `VramQuerier` kept over a change of the machine is
  modelled as made anew. `sys_mem` is an interface that answers or not.
- **Not modelled**: image transfer (a straight sequence of calls on modelled
  parts) except its size check, the ownership barriers of external memory,
  `vram_budget_bytes`, model names, displays, process memory and the probe
  tool (input, parsing and printing).

## 8. Plan

Modules are written so that they can be proved about: parameters are CONSTANTS
with named assumptions, one action per operation, no recursive operators.

Done, in this order: the gate and its proofs; the work queue with its contract;
the pool; the managed resources over it; the pipeline cache; submissions;
devices; the proofs of the work queue, with its refinement of `Leases`; the
figures of the cards, their budgets, the watch and the shared buffers;
the proofs of the watch and of the shared buffers; the proofs of submissions,
devices, the pipeline cache, the pool and the managed resources; the proofs of
the readings and of the plans.

Next:

1. An abstract pool (a bag of idle items with a byte bound) that `ResourcePool`
   implements, and of which `Resources` would need no more.
2. A third thread in `Submissions` restricted to one kind.
3. The ownership transfers of shared buffers, once what wgpu promises about raw
   commands is settled.

## 9. Running it

    tlasany M.tla                         parse a module
    tlc -workers 2 -config X.cfg M        model-check it (PROJECT.json: "runs")
    tlapm M.tla                           check the proofs of a proof module (section 2)

`PROJECT.json` maps each definition to the lines it models, and names for each
property a mutated definition under which TLC finds it violated.
