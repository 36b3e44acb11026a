# Verification of KvikIO: TLA+ models, model checking and proofs

KvikIO reads and writes files and remote objects in parallel, into host or GPU
memory. Its core is concurrent C++: callers hand a read to threads that split it,
move the bytes, and fulfil one future. This directory holds TLA+ models of that
core, the TLC runs that check them on small instances, and proofs, checked by
TLAPS, of the properties that matter most. `PROJECT.json` links every definition
to the lines it models, lists the runs, the findings and the hazards.

All paths below are relative to `src/cpp/` of the repository.

## 1. Inventory

| Component | State it keeps | Operations | What makes it correct |
|---|---|---|---|
| MULTI_POLL reactor pool (`src/detail/multi_poll_reactor.cpp`) | shared queue, dead flag, per reactor: pending and in-flight transfers, poll timeout; per read: sub-ranges left, first exception, promise | submit, wake, admit, perform, reap, settle, requeue, poll, signal death, fail all | each sub-range is counted once; the promise is fulfilled once, last, and truthfully; nothing stays in the queue unattended; a dying pool resolves every read |
| Concurrent request limiter (`concurrent_request_limiter.cpp`) | slots in use per reactor | `try_acquire`, `release` | no slot leaks, none is released twice |
| HTTP retry policy (`http_retry.cpp`) | attempts | `evaluate` | attempts bounded, backoff respected |
| Write callbacks (`remote_callback.cpp`) | offset, overflow flag | host and pinned callbacks, `reset_for_retry` | a new attempt starts from a clean context |
| Bounce-buffer cache of the reactors (`bounce_buffer_cache.cpp`) | buffers per thread and CUDA context, checked out and in flight | `try_get`, `recycle_now`, `recycle_after` | a buffer is counted while anybody uses it, and not reused while a copy reads it |
| I/O event barrier (`io_event_barrier.cpp`) | events recorded per read | `record_event`, `sync_all_events` | a returned device read is on the device |
| RemoteHandle (`src/remote_handle.cpp`) | endpoint, size | `open`, `read`, `pread` | an allowed endpoint that suits the URL; every byte in its place after any retries |
| parallel_io (`include/kvikio/detail/parallel_operation.hpp`) | pool queue, futures of the parts | submit parts, last part joins the others | no deadlock of workers, the exception waits for all parts, the sum is right |
| FileHandle (`src/file_handle.cpp`, `file_utils.cpp`, `compat_mode_manager.cpp`) | file descriptors, cuFile registration, cached size, pool of its block device | open, move, close, `pread`, `pwrite`, `read`, `write`, `nbytes` | the cached size is the size of the file; descriptors and registrations have one owner; one pool per device |
| Bounce-buffer pool (`src/bounce_buffer.cpp`) | free list, buffer size | get, put, clear | one size in the pool while the setting changes; one owner per allocation |
| POSIX I/O (`posix_io.*`) | none | host, device and over-reading loops | exactly the range is moved, whatever short answers the kernel gives; direct I/O only when aligned |
| Memory-mapped files (`mmap.cpp`) | descriptor and mapping | map, move, close, `read`, `pread`, prefault | owned once; the bytes asked for; every page of a range touched |
| Transfer plan (`transfer_plan.cpp`) | none | group, merge, split | the transfers tile the requests |
| Observation registry and recorders (`observation.cpp`, `observation_recorder.cpp`) | list of monitors, ids | register, unregister, notify, finish | one finish per start; no callback after `unregister_monitor` |
| Statistics (`statistics/summary.cpp`, `counters.cpp`) | totals, busy-time tracker, span | construct, get, reset, stop, destroy | totals exact; busy time within wall time; readings never shrink |
| CUDA event pool and stream cache (`detail/event.cpp`, `detail/stream.cpp`) | free events per context, stream per thread and context | get, put, move | objects stay in the context they were made in |
| libcurl handle pool and DNS share (`shim/libcurl.cpp`, `curl_share.cpp`) | free easy handles, threads per share | get, retain, acquire, release | a retained handle has no share; a share counts its live threads |
| cuFile objects (`src/stream.cpp`, `batch.cpp`, `cufile/driver.cpp`, `buffer.cpp`) | argument blocks, batch handles, cached properties, registrations | start, check, move, destroy, set | arguments outlive the operation; the cache mirrors the driver |
| Defaults (`src/defaults.cpp`) | settings, start of the reactor pool | load, set | values in force are legal; the pool runs with them |
| Loaders, logging, tracing, bindings | none of their own | forwarded calls | outside this development |

How they interact: `RemoteHandle::pread` creates one `RemoteMultiAggregateContext` and
one transfer per sub-range, queues them under the pool's mutex and wakes the reactors.
Reactor threads take transfers off the queue, need a limiter slot (and a bounce buffer
for a device read) to put one on the wire, run libcurl, whose write callbacks fill the
destination, and report to the aggregate, which fulfils the promise. For a device read
the report comes when the copy is queued, and the caller's deferred task passes the event
barrier before it returns. `FileHandle` and the EASY_THREADPOOL remote path hand parts to a
FIFO thread pool instead; the last part joins the others. A part then runs the POSIX loops,
cuFile, or one easy-path range request. Every call and transfer is wrapped in an observation
recorder, which notifies the registered monitors on the thread that does the work. Pools of
bounce buffers, CUDA events, streams and curl handles are shared by all of these threads, under
settings that any thread may change.

What is hard: several threads report on one read; a transfer changes hands between the
caller, the queue and the reactors while the pool may be dying; wakeups race with
going to sleep; resources are held by transfers and by copies that outlive them; failures
leave siblings running in the caller's memory; the last task waits on the pool it runs in.
The list, with the line of each hazard, is in `PROJECT.json` under `hazards`.

## 2. Modules

| Module | What it is |
|---|---|
| `ParallelRead` | The contract of a parallel read: sub-ranges are written, settle once each, then the future is resolved, once; it is an exception exactly if one sub-range failed. |
| `MultiPollReactor` | The MULTI_POLL backend, with limiter, retry verdict, write callbacks, buffer shards, barrier and the caller. Implements `ParallelRead`. |
| `MCMultiPollReactor` + `MCReactor*.cfg` | Its instances. |
| `MultiPollReactorProofs`, `MultiPollReactorBuffers` | Its theorems: types, reports, the contract and slots; and on top of them retries, copies, buffers and sleep. |
| `Sums` | Lemmas of the proofs: induction over numbers and finite sets, and sums over finite sets. |
| `ParallelIo` | `parallel_io()` on the thread pool. Also implements `ParallelRead`. |
| `FileHandle` | Composes `ParallelIo` with the file and its cached size. |
| `FileHandleProofs` | The theorems of both. |
| `MCFileHandle` + `MCFileHandle.cfg`, `MCFileSizeRace.cfg` | Its instances. |
| `Observation`, `SummaryMonitor` | The registry and its recorders as concurrent steps; the statistics monitor as a value those steps call. `MCObservation` is the instance, `ObservationProofs` has the theorems. |
| `BounceBuffers`, `CudaPools`, `PosixIo`, `Mmap`, `FileLifecycle`, `CuFileObjects` | Local I/O besides the thread pool, one module per part. `LocalProofs` has the theorems. |
| `TransferPlan`, `CurlPools`, `RemoteRead`, `RemoteOpen`, `Defaults` | Remote I/O besides the reactors, one module per part. `TransferPlanProofs` (the plan) and `RemoteProofs` (the rest) have the theorems; `Defaults` is only checked. |
| `MCParts` + `MCParts.cfg`, `MCBounceShrink.cfg`, `MCPoolSettings.cfg`, `MCRemoteFlush.cfg` | The instances of these parts of local and remote I/O. |

### MultiPollReactor and the code

One step is one critical section, one atomic access to shared state, or one call into
libcurl or CUDA. A transfer (`unique_ptr<RemoteMultiTransfer>`) is a value with an owner:
`at` says which kind of place holds it (the queue, a local variable, `_pending`,
`_in_flight`), `by` which thread. `pc` follows `io_thread_main`:

    top -> retries -> pool (-> popped -> pool or return) -> perform -> reap (-> settle) -> poll
    any libcurl multi failure -> signal -> swap -> drain -> fail -> failInFlight -> exited

A report to the aggregate takes several atomic steps of its own (`RecordException`,
`CountDown`, `Fulfil`); `rpc` and `rt` follow each thread through it. Callers go through
`SubmitPread`, `WakeAllReactors`, `Get` and `SyncAllEvents`, or `FailSubmitted` when the
pool is dead. `BackoffElapses`, `CopyCompletes` and `AttemptEnds` are the clock, the CUDA
driver and libcurl. `Faults` names the failures an instance injects.

Abstractions: bytes are counted in chunks, time is whether a backoff has elapsed,
exceptions are whether there is one. Relaxed atomics are treated as sequentially
consistent, with `_queue_size_hint` equal to the length of the queue. Waking all reactors is
one step. Copies complete in any order. The order of `_pending` is left open. The
observation recorders are left out. Not modelled: running out of memory inside
`submit_pread` or in the handler of a failed admission, the check for an unknown easy
handle, the start of the threads by the pool's constructor.

### ParallelIo, FileHandle and the code

`queue` is the pool's FIFO queue. A call submits its parts in order (`SubmitPart`), a
worker takes the oldest (`TakeTask`), moves its chunks, and returns or throws. The last
part then gets the futures one by one (`Collect`), or, once something has thrown, waits for
the rest (`Drain`), finishes the observation and returns. A call below `gds_threshold`,
`read()` and `write()` run on the caller's thread (`Shortcut`). `FileHandle` adds the size
of the file, which a write beyond the end extends, `_nbytes`, and clients inside
`nbytes()`, whose load, `fstat` and store are three steps. A part may be short (cuFile may
transfer less) or fail at any chunk, as `Faults` says for each part. A store to the cache is one step with
the queue operation beside it, which no other thread can tell apart. Left out: a submission that runs out of memory, and
`set_thread_pool_nthreads()`, which resets the pool.

### Observation, SummaryMonitor and the code

A worker is one operation with its recorder (`BuildRecorder`, `FinishRecorder`,
`DestroyRecorder`, all ending in `Emit`); `BeginNotify` takes the shared lock and `Callback` runs
one monitor's callback, so that a notification is spread over several steps. `left` holds the
monitors a notification has still to visit, which is what the exclusive lock of register and
unregister waits for. Users construct a monitor (`RegisterMonitor`, then `StampSpan`: the code
registers first), read it (`ReadCounters` before the lock, `ReadTotals` under it), reset, stop
(`StopMonitor`, `ReadFinal`, `StampEnd`: removal, counters, then the end under the lock) and destroy it. What each does to the members is in
`SummaryMonitor`: `Tracker*` is `BusyTracker`, `Monitor*` the callbacks. `told` is a history
variable: what each monitor was told of each operation. Time is a counter, and two readings
that a lock orders are taken to be distinct. The eight process-wide counters are one.

### BounceBuffers and the code

`UserGet`, `UserPut` and `Clear` are `BounceBufferPool` used directly, `TryGet`, `RecycleNow`,
`RecycleAfter` and `RecycleCallback` the reactors' cache in front of it. `LockedGet` and
`LockedPut` are the critical sections; allocation (`Allocate`) and freeing (`Deallocate`) are
steps of their own because they run without the lock, and either the driver or the host
callback may be refused. `SetBounceBufferSize` may come between any two of them. `task` records
what a transfer was checked for: its `size`, which nothing changes afterwards, and as history the
`floor`, the least of that size and of every setting since the check. `BufferSizesHold` claims the floor,
`TasksFitTheirBuffers` the size; the second is what the code's check is for, and fails (`bounce_shrink`).

### The other parts of local I/O

- `CudaPools`: `Switch` changes a thread's current context at any time; `GetEvent`, `PutEvent`,
  `MoveEvent` are the event pool; `MissStream` and `InsertStream` the two locks of the stream cache.
- `PosixIo`: one call, its turns (`BeginTurn`, `EndTurn`) and the system calls inside
  (`Transfer(k)` for every count the kernel may answer, `TransferFails`). `Request` holds the
  three branches of `posix_host_io` (aligned, unaligned head, unaligned tail), `Turn` the choice
  between the host, device and over-reading paths. Bytes are pairs of positions. A bounce buffer has any
  size from one byte on, as the setter allows; its memory is that size rounded up to pages, and what a read puts
  beyond it may be lost (`InBuffer`). `Undersized` is an over-read whose buffer shrank below a page.
- `Mmap`: `Construct`, `MoveMmap`, `CloseMmap`, `DestroyMmap` on descriptors and mappings that are
  tokens; `MmapRead` (one chunk) and `MmapPread` (chunks of `task_size`, checked against the bounce buffer),
  `CopyChunk`, `EndRead` with their pointer arithmetic, sums wrapping at `Word`; `Prefault` is
  `perform_prefault`. A device read without ATS is staged in a bounce buffer as large as the setting
  is then (`SetMapBounce`, `Staged`); the bytes beyond it arrive or are lost, and `spilled` names them.
- `FileLifecycle`: `Open` settles the compatibility mode, opens one or two descriptors and
  registers; `LookupPath`, `Resolve`, `InsertPool` are the three phases of
  `get_thread_pool_per_block_device`; `BeginClose` and `EndClose` are separate so that another open
  may get a descriptor's number in between.
- `CuFileObjects`: `StartAsync`, `CheckBytesDone`, `DestroyFuture`, `MoveFuture` against the stream
  that runs the operation; a synchronization may fail, and `failed` names the blocks whose wait failed while
  the stream used them; `OpenBatch`, `MoveBatch`, `CloseBatch`; `LazyInit`, `SetPollMode`,
  `SetPollThreshold`; `RegisterBuffer`, `DeregisterBuffer` while the compatibility mode changes.

### The other parts of remote I/O

- `TransferPlan`: `BuildTransferPlan` is the function: `Transfers` takes the groups in turn, `PlanGroup` the
  `Runs` (sorted, mergeable requests) of one, and `MergeRequests` or `SplitRequest` makes the transfers. The
  sort is what it promises, the group's enumeration in the order `Before`. The invariant, not the
  algorithm, says what a plan is for. Offsets and sizes are natural numbers: the sums the code forms
  stay below 2^64 for any file that exists.
- `CurlPools`: `MakeHandle` takes a free easy handle, or makes one, and attaches the thread's share;
  `DropHandle` detaches and retains it, on any thread; `Exit` releases a thread's place.
- `RemoteRead`: `Receive(n)` is a write callback with a piece of n bytes and, for a device, the
  bounce buffer; `EndOfAttempt`, `Retry` and `Leave` are the loop of `CurlHandle::perform`; `Leave`
  ends with the destructor's flush. A byte is its position in the object.
- `RemoteOpen`: `Infer` and `Explicit` choose the endpoint, `ProbeS3` is the trial request with its
  fallback, `TakeSize` the rest of `open`. Each request may fail on its own.
- `Defaults`: `LoadDefaults` reads the environment, aliases included; a setter is `BeginSet` (its
  checks) and `EndSet` (its store); `BeginPool`, `ReadBudget`, `PoolFails` and `AnnouncePool` are the
  constructor of the reactor pool.

### Composition

`FileHandle` composes `ParallelIo` with the file; both backends are instances of `ParallelRead`.
The parts gathered in `MCParts` share no state: each component locks for
itself and hands over values. Their product would multiply states without adding one
interleaving that matters, so a behaviour chooses one part (`focus`) and exercises it alone,
the others staying in a fixed state.

## 3. Runs

| Run | Instance | Checked |
|---|---|---|
| `reactor_host` | one host read of two sub-ranges, two reactors with one slot each, two attempts; retries, fatal, short and over-long bodies, multi failures, failing insertions | `TypeOK`, `SlotsConserved`, `RetriesNotOverslept`, `NoStrandedWork`, `ReportInv` (the inductive invariant of the proofs), `AttemptsStartClean`, `Implements` |
| `reactor_device` | a device read of three sub-ranges, one more than there are buffers; failing CUDA calls, multi failures | `BuffersConserved`, `NoStrandedWork`, `ReturnedDataIsOnDevice` |
| `reactor_live` | as `reactor_host`, multi failures only, with fairness | `ReadsReturn` |
| `file_handle` | a `pwrite` of two parts, a `pread` of three and a `write`, two workers, one client of `nbytes()` that does not overlap writes; errors and a short part; with fairness | `WaitsOnRunning`, `ObservedWhenOver`, `ValueIsTransferred`, `CacheIsCurrent`, `PoolImplements`, `CallsReturn` |
| `observation` | two operations, one abandoned, two users of one monitor of either kind, with and without other monitors | `NoCallbackAfterUnregister`, `OneFinishPerStart`, `InFlightIsExact`, `BusyWithinWall`, `TotalsAreExact`, `ReadingsNeverShrink` |
| `parts` | the six modules of local and the five of remote I/O, part by part | `BufferSizesHold`, `OneOwner`, `ShardIsCounted`, `CudaObjectsStayHome`, `RangeIsMoved`, `MmapOwnsOnce`, `ReadsHitTheirBytes`, `FilesOwnOnce`, `PoolsArePerDevice`, `CuFileObjectsOwned`, `PropsMirrorDriver`, `PlanTilesRequests`, `FreeHandlesAreDetached`, `SharesAreCounted`, `BytesLandInPlace`, `OpenIsAllowed` |

Six runs show a disagreement between the code and what its comments say; section 6 lists smaller ones:

| Run | The statement | What TLC finds |
|---|---|---|
| `reactor_undrained` (`ReturnedReadIsDrained`) | the caller synchronizes after all sub-ranges have reported | a failed device read skips the barrier, copies go on into the caller's buffer |
| `reactor_buffer_reuse` (`CopiedBuffersAreHeld`) | `recycle_now` is for buffers without CUDA work | if recording the event fails the copy is already queued, and the buffer is recycled |
| `file_size_race` (`CacheIsCurrent`) | `_nbytes` is the size of the file or zero | `nbytes()` during a `pwrite` may store the old size after the last reset; it stays |
| `remote_flush` (`ReturnedIsRead`) | `read()` returns `size`, the bytes read | a failing last copy to the device is swallowed by a destructor, and `size` is returned |
| `bounce_shrink` (`TasksFitTheirBuffers`) | a device read on the reactors requires `task_size <= bounce_buffer_size` | the setting is lowered between the check in `pread()` and `try_get()`, and the task gets a smaller buffer |
| `pool_settings` (`PoolFollowsSettings`) | the setters refuse once the reactor pool has been created | a store after the pool has read its settings, by a setter that passed its check earlier, is accepted |

Bounds. Two reactors and two transfers are enough for every handover: one reactor dies while
the other holds, returns or reports; both report on one read; one refuses what the
other takes. Three sub-ranges with one slot and two buffers per reactor make a device read meet
every refusal, including buffers held by copies alone. Two attempts let a retry both happen and be
exhausted. One chunk per sub-range distinguishes nothing, all and (with `overflow`) too much. In
`file_handle` two workers and two calls with siblings allow both workers to be in last
parts at once, and three parts make the handler meet futures already consumed and futures
still open.

In `observation` two operations and two users give every order of start, finish, registration, stamp,
reset and removal of two threads; `MaxUses` (2 uses per user) allows a reading between any two of
them, and `MaxCount` (1, where no monitor of the application is registered) tells a counter read before the
lock from one read after it. In `parts`
pages are 4 bytes, sectors 2, the file ends at 13, offsets are 0 to 5 and sizes 1 to 9: heads and
tails, ranges within one page and over three, the end of the file, and short answers at each place.
Bounce buffers of 1, 4, 6 and 8 bytes split them further: less than a page, one, one and a half, two. Two handles, two threads, two contexts
and three descriptors or allocations allow every handover of ownership; three paths on two devices
let two paths share a pool and a third have its own. Sizes of arguments wrap at 16, above every legal sum of the
run, while the size 15 of a mapping wraps. Bounce buffers for mappings, and tasks, have 3 or
15 bytes: a task of 15 fits one and not the other. Plans
are checked for all lists of at most three requests on two keys; a read has up to
three attempts, bodies of up to four bytes in pieces of up to three, and every size of
bounce buffer from one byte to the largest that is ever refilled; shares hold two of three threads. State spaces: 2.7 million
states (`reactor_host`), 3.9 (`reactor_device`), 0.3 (`file_handle`), 4.2 (`observation`), 0.7 (`parts`).
Two reads with all the faults exceed eleven million states, liveness with retries takes minutes; these are left out.

Symmetry is used where values are interchangeable: users in `observation`; descriptors and
allocations, and threads and handles, in `parts`. Liveness runs use none.

Only `file_handle`, and the violation runs of the reactors and of the file size, check for
deadlock. When a reactor pool has died and every caller has returned, when the bounded uses of a
monitor are spent, or when the one call a behaviour is about has returned, the system rightly stops.

Fairness. Weak fairness for threads, pool workers, the clock and the CUDA driver: the
operating system schedules them and nothing else can disable their next step for good. A
poll returns at its timeout at the latest, a system call returns. Strong fairness for the
progress of an attempt, because libcurl sees it only in the passes that call `perform`,
and every attempt ends by `CURLOPT_TIMEOUT` if by nothing else. No fairness for submitting a
call or for a failure.

## 4. Proofs

A theorem holds for every value of the constants that satisfies the named assumptions of the
modules it is about; TLC evaluates each assumption in a run.

| Theorem | States |
|---|---|
| `ReportsAreCounted` | `Spec => []ReportInv` |
| `BackendKeepsContract` | `Spec => Implements`: the reactor pool refines `ParallelRead` |
| `SlotsAreConserved` | `Spec => []SlotsConserved` |
| `TypeCorrect` | `Spec => []TypeOK` |
| `RetriesAreWatched` | `Spec => []RetriesNotOverslept` |
| `AttemptsAreClean` | `Spec => AttemptsStartClean`, an action property |
| `ReturnedReadsAreOnDevice` | `Spec => []ReturnedDataIsOnDevice` |
| `BuffersAreConserved` | `Spec => []BuffersConserved` |
| `WorkIsNotStranded` | `Spec => []NoStrandedWork` |
| `WorkersNeverDeadlock` | `Spec => []WaitsOnRunning` (of `FileHandle`) |
| `PoolKeepsContract` | `Spec => PoolImplements`: the thread pool refines `ParallelRead` |
| `ObservationsAreFinal` | `Spec => []ObservedWhenOver` |
| `ValuesAreTransferred` | `Spec => []ValueIsTransferred`: the future's value is the sum of what the parts moved |
| `FileHandleTypes` | `Spec => []TypeOK` (of `FileHandle`) |
| `CachedSizeIsCurrent` | `Spec => []CacheIsCurrent`, if calls of `nbytes()` do not overlap writes |
| `UnregisterDrains` | `Spec => []NoCallbackAfterUnregister` (of `Observation`) |
| `FinishMatchesStart` | `Spec => []OneFinishPerStart` |
| `InFlightIsCounted`, `TotalsAreCounted` | `InFlightIsExact` and `TotalsAreExact`, as long as the clock is below `TimePoint::max()` |
| `BusyIsWithinWall` | `Spec => []BusyWithinWall` |
| `ReadingsOnlyGrow` | `Spec => ReadingsNeverShrink`, an action property |
| `BufferSizesAreTrue`, `BuffersHaveOneOwner`, `ShardsAreCounted` | `BufferSizesHold`, `OneOwner` and `ShardIsCounted` of `BounceBuffers` |
| `CudaObjectsAtHome` | `CudaSpec => []CudaObjectsStayHome` |
| `RangesAreMoved` | `RangeIsMoved` of `PosixIo`, for bounce buffers of any size |
| `MmapOwnership`, `MmapReadsAreExact` | `MmapOwnsOnce`, and `ReadsHitTheirBytes`, which is about the reads whose end does not overflow a word |
| `FileOwnership`, `PoolPerDevice` | `FilesOwnOnce` and `PoolsArePerDevice` of `FileLifecycle` |
| `CuFileObjectsAreOwned`, `PropertiesMirrorDriver` | `CuFileObjectsOwned` and `PropsMirrorDriver` |
| `FreeHandlesDetached`, `SharesCounted` | `FreeHandlesAreDetached` and `SharesAreCounted` of `CurlPools` |
| `OpensAreAllowed` | `OpenSpec => []OpenIsAllowed` |
| `ReadsLandInPlace` | `ReadSpec => []BytesLandInPlace` |
| `PlansTileRequests` | `PlanSpec => []PlanTilesRequests`, for batches of any length and every option |

### The reactor pool

Proved for all numbers of reads, sub-ranges, reactors and attempts, any
slot budget and any set of faults, from `ConstantsAssumption` and `SubrangesAssumption`
(positive sizes, finitely many transfers, each read's list of sub-ranges without repetition).

The argument. That the promise is fulfilled once, and last, is not inductive: it depends on
nobody counting a transfer twice, which depends on who owns it. `ReportInv` says so:

- `QueueHolds`, `TodoHeld`: a transfer is in one place, the queue holds each once, and the
  transfers a loop has still to visit are really held by its reactor;
- `CountedOnce`: a counted transfer is gone, or is with the thread that fulfils because of
  it, or stays attached to a dying reactor that has passed it;
- `ReportsHeld`: a thread reports only on what it owns and, until it has counted, on what is
  still open;
- `LeftIsOpen`: `_subranges_left` is the number of open sub-ranges;
- `FulfilledByLast`, `FailuresRecorded`: at most one thread fulfils, when nothing is left,
  and an exception is recorded exactly if a failure has been or is being counted.

With the types it is preserved by every action: most only move one
transfer (`TransferMoves`) or start one report (`ReportStarts`), and lemmas for these two
patterns carry the proof; `SubmitPread`, `SwapQueue`, `CountDown` and `Fulfil` get their own. The
refinement maps `filled <- offset`, `verdict <- told`, `outcome <- promise`. Only
`WriteCallback`, `RequeueForRetry` (the rewind), `CountDown` and `Fulfil` change the mapped state;
`ReportInv` gives their abstract guards.

`SlotInv` adds that the limiter counts the transfers that
hold a slot, where such transfers can be, and that a reactor has at most one transfer in hand at each
label. The last is what makes admission safe: the slot a pass takes belongs to the one
transfer it looks at. `TypeOK` follows, since the unsigned counters are then cardinalities.

`MultiPollReactorBuffers` adds five invariants, all checked by TLC first. They speak of one reactor
at a time, so the proof splits every step in two: `OwnStep(r)`, a step of r's thread, and
`Undisturbed(r)`, what a step of any other thread leaves of r's state (`OthersUndisturbed`: its
label, its pass, its transfers, and that a wakeup is never lost).

- `WatchInv`: a retry the current pass will not visit has left its deadline in `timer` or a refusal in
  `deferred`, from which the poll timeout is computed.
- `CleanInv`: a transfer that is new, queued, popped or pending has a rewound callback context and an
  attempt left, and a pass visits no retry that still backs off. The theorem is about steps: only an admission puts a transfer in flight
  (`OnlyAdmitted`), and `CleanInv` holds before it.
- `CopyInv`: a copy runs only for a device transfer whose report has at least begun, and a copy the
  barrier does not cover belongs to a transfer that failed or is being reported so. A read that passed
  the barrier with a value has no failed transfer, so none of its copies was uncovered.
- `BufferInv`: where a transfer with a buffer can be, that its reactor's shard lent it, that the rest of a
  shard is held by copies, and the cap. The delicate states are those of a dying reactor, which
  may hold pending transfers that kept their buffer when `curl_multi_add_handle` failed.
- `RestInv`: what a reactor was refused in this pass is in use by something that will stir it (a
  transfer on the wire, or a copy whose callback wakes it), or was in use by a transfer that
  completed in the pass, which makes the timeout zero. So a reactor that sleeps its idle timeout on a
  non-empty queue is stirred, and stays so (`StirredKept`) until it polls no more. The argument needs
  the cap of a shard and the slice of a limiter to be at least one: were either zero, a
  reactor could be refused with nothing outstanding. On a dead pool the queue is non-empty only
  until the one reactor that signalled death first has swapped it.

### The thread pool and FileHandle

Proved for all numbers of workers, calls, parts and clients and any assignment of faults, from
`PoolAssumption`, `PartsAssumption` and `FileAssumption` (each call's parts listed once, in order;
calls on their caller's thread have one part). `FileHandleUsesPool` shows that every behaviour of
`FileHandle` is one of `ParallelIo`; the rest is about `ParallelIo`. `WaitsOnRunning` is not
inductive, because it says nothing of the time before a last part runs. `PoolInv` adds:

- `QueueSent`, `QueueOrder`: the queue holds sent, untouched parts, those of one call in order;
- `SentPlaced`, `UnsentUntouched`: a part that was sent is queued, running or over, one that was
  not is untouched;
- `ThreadsRun`: a part runs on one thread, is open while it transfers, and only a last part that is
  over joins;
- `LastAlone`: once a last part runs, none of its siblings is in the queue. It is established when a
  worker takes the head of the queue: a sibling behind it would contradict `QueueOrder`;
- `Joined`, `OutcomeLast`: what the two loops over the futures have established so far, and that
  the future is ready only after the last part has left its thread.

A sibling the last part waits for was sent, is not queued and is open: it runs, in its transfer. The
refinement maps `filled <- moved`; `MoveChunk`, the end of `op` and `LastReturns` are the visible steps.

`SumInv` carries the value: `ret` is the sum over the last part and the siblings the second loop has
passed (`Counted`) and, once the loop has ended or the future has a value, over all parts of the call. It is
kept because the summands are final: a part that is over moves no byte (`OverKept`), `Joined` says that
the counted parts are over, and `OneCollector` that only one thread adds for a call.

`CachedSizeIsCurrent` assumes `~Overlapping`: no client enters `nbytes()` while a write is outstanding
and none is inside when one starts, the only use the code supports (`file_size_race` shows what
happens otherwise). `Returned` says that a call whose parts are over is over, hence that a running
part belongs to an outstanding call; `CacheInv` that the cache is empty and nobody is inside
`nbytes()` while a write is outstanding, and otherwise holds the size of the file or zero.

### Observation and the statistics

`ObservationInv` is the protocol of the registry: what a recorder, a notification, a monitor and a user
may be doing together, above all that the monitors a notification has still to visit are
registered, because the exclusive lock waits for it. On it rest `AllToldRightly` (each monitor
hears of a start and of a finish at most once and of the finish only after the start) and
`AllStartsHeard` (an operation that began after the monitor was stamped has told it so, or is about
to); on these, `AllCountsHold`: the tracker's count and the totals are the cardinalities of sets
of operations. Registration stamps a monitor with `TimePoint::max()` until its constructor knows the time;
that no operation begins then is the hypothesis `ClockFits` of the two theorems on counts, which every
real clock satisfies. `AllBusyBounded` relates the closed, pending and emitted busy
time of the tracker to the clock and to the stamps of the span, `AllReadingsKept` the last reading to
the present state; these need no hypothesis.

### Local I/O

- `BounceBuffers`: `BounceInv` says that each allocation is in one place (`AllPlaced`: a function from buffers
  to places and owners exists), that no list or set names one twice (`NoneShared`), that every recorded
  size is the size allocated and at least the floor of the task (`SizesFit`), and that a
  shard counts what it has out and flying (`ShardsCounted`). Allocation and freeing run without the lock, so
  buffers between two lists have places of their own.
- `CudaPools`: an event that is held is held by one thread, is not free, and was created in the context it is
  filed under; a stream being created is for a key not yet in the cache.
- `PosixIo`: `PosixInv` says, at each place of the loops, that exactly a prefix of the range has arrived: the bytes up
  to `done` between turns, and those plus the turn's own inside a turn of a write (`IoHolds`, `CopyHolds`). A turn's
  staged bytes are contiguous from where it began to read, so dropping the prefix and the tail of an
  over-read leaves the next bytes of the range. Lemmas on rounding (`DownIsAligned`, `DownIsMonotone`,
  `UpIsMonotone`) hold for every page size. There is no hypothesis on the size of bounce buffers: memory is
  allocated in whole pages (`InBuffer`), which a request never exceeds unless the over-read is `Undersized`, and the
  theorem says nothing of such a call. Aligned sizes of direct requests are claimed for whole pages
  only. Section 6 describes both exceptions.
- `Mmap`: descriptors and mappings have one owner, through moves and closes; `RangesMapped` and `ReadInv`
  give, for every read whose end does not wrap, that each byte comes from its place, once, and that a byte that
  did not arrive was staged beyond its bounce buffer (`spilled`), which takes a chunk larger than the least setting
  since the read began. The arguments are any words; section 6 describes the reads left out.
- `FileLifecycle`, `CuFileObjects`: each descriptor, registration, argument block and batch handle has one owner
  and is released once, an argument block in use only if a synchronization failed; both maps to a
  thread pool agree; the cached properties are the driver's.

### Remote I/O

- `CurlPools`: `EasyInv` places every created handle once, in the free list or with an owner; `ShareInv` makes
  each share's counter the number of its live threads, and bounds the number of shares.
- `RemoteOpen`: the endpoint is allowed and suits the URL; with `AUTO` it is the first such type, or the
  fallback of a failed S3 probe; no endpoint is probed twice.
- `RemoteRead`: `Holds` describes destination and bounce buffer together: what was received so far, from the
  first byte of the attempt, is in the destination up to a point and in the buffer from there on. A
  write callback keeps it whatever pieces libcurl delivers, and a retry starts it afresh.

### Induction and sums

Two theorems are about values computed from data of any size: the sum a future returns, and the plan of
a batch. The library's induction theorems take the predicate as a parameter, which the provers
cannot instantiate. `Sums` states induction with the predicate as a set (`SetInduction` over numbers,
`SubsetInduction` over the subsets of a finite set): a number outside the set would give a least one,
by `WFMin` and `NatLessThanWellFounded`, which take sets and relations. The sums and folds of the community
modules are a `CHOOSE` of a recursive function, of which nothing is known until such a function is shown to exist;
`FoldExists` does so. `Tally` is the sum, with lemmas on one element more, disjoint unions, equal
summands and images.

### The transfer plan

`PlanTilesRequests` is a property of a computed value, so the invariant of `PlanSpec` is only that the plan is
`BuildTransferPlan` of the batch; the work is in the function, a fold over groups of a fold over runs, which are
themselves a fold over a sorted group. Assumed (`PlanAssumption`): offsets, sizes and gaps are natural
numbers, and `task_size` is positive, which the code checks. The argument has four parts.

- Steps. Each fold is replaced by the values it takes on the prefixes of its sequence (`RunsSteps`,
  `GroupKeysSteps`, `PlanGroupSteps`, `TransfersSteps`). `SortedGroup` shows that a sorted enumeration
  exists, the place of a request being the number of requests not after it, so that `Group` is one.
- Runs. `GoodRun`: the requests of a run lie between the begin of the first and the end of the last, a run of
  several fits in `task_size`, and its span exceeds its bytes by at most a gap between neighbours.
  `Joins` is what keeps it (`LongerRun`): the refusal of overlaps makes the last request's end the span's
  end, the gap bounds the overread, the last conjunct the span. `RunsFacts`: the runs of a group hold each of its requests once.
- Plans. `GoodPlan(ts, C)`: the list of transfers ts, for the set C of requests, has segments of C only, within
  transfers, requests and `task_size`; every byte of C has one carrier; the transfers of a request are at least one and
  at most its chunks; and ts is no longer than the chunks of C, with at most a gap of overread for each
  transfer saved. It holds of one split (`SplitGood`, from the arithmetic of chunks) and of one merge
  (`MergeGood`: every request of a merged run has one chunk).
- Composition. `GoodPlanAdds`: plans of disjoint sets of requests, one after the other, are a plan of
  both. The runs of a group are disjoint, and so are the groups (`GroupKeysFacts`); `TransfersGood` follows by
  two inductions. Empty requests are in no group and need no chunk.

### Only model-checked

Liveness (`ReadsReturn`, `CallsReturn`) is outside the prover's reach. Every other property of a passing
run is also a theorem.

## 5. Plan

Modelled, checked and proved: everything above. A next step would be the requests and offsets of a plan
as words of 64 bits, with the hypothesis that their sums fit, as in `Mmap`.

## 6. Known limits and disagreements without a run

Met while modelling; each follows from a line or two, and no run is spent on it.

- A failed sub-range does not resolve the future early, though a comment of
  `multi_poll_reactor.hpp` speaks of failing fast: the code waits for all sub-ranges, which is
  what keeps the caller's buffer safe.
- A body that ends early with `CURLE_OK` is counted as the whole sub-range
  (`multi_poll_reactor.cpp:376`), and the easy path returns `size` for it.
- `MmapHandle::read()` on a device without ATS copies its whole range into one bounce buffer
  (`mmap.cpp:206`, called from 403 without a bound); only `pread()` checks that a task fits (415: the
  bounce buffer size "cannot be less than task size"), and the setting may shrink after its check.
  `Mmap` models both: `spilled` names the bytes, and `ReadsHitTheirBytes` says when there can be any.
- `mmap.cpp:497` adds the caller's offset and size without a check for overflow: a region
  that wraps is accepted, while `mmap.hpp:51` says that one outside the mapping is refused.
- Prefaulting compares the rest after an unaligned head with the head instead of zero (`mmap.cpp:140`):
  if the rest is no longer than the head its page is not touched, while the comment at
  `mmap.cpp:115` says that each page is.
- A direct transfer is cut to the bounce buffer (`posix_io.hpp:146`). The setter accepts sizes that
  are not whole pages, and then the request is not the multiple of the page that `posix_io.hpp:46-49` requires.
- The check that an over-read has a buffer of two pages (`posix_io.cpp:86`) comes before the buffer is
  taken. With one that has shrunk below the prefix the size computed at `posix_io.cpp:45` wraps and
  the read exceeds the buffer; with one exactly as large as the prefix it expects no byte and loops
  for ever. `PosixIo` models both (`Undersized`); no liveness is claimed of the POSIX loops.
- `StreamFuture` counts its stream as synchronized before the call that may fail (`stream.cpp:72`): its
  destructor then frees the arguments although the operation may still run, while `stream.hpp:81` says it
  makes sure that the stream has been synchronized. `CuFileObjectsOwned` excepts exactly these blocks.
- `infer_remote_endpoint_type()` falls back to `S3_PUBLIC` when there are no credentials
  (`remote_handle.cpp:334`); `remote_handle.hpp:334` says it does not return that type.
- `lazy_init` counts as done even if the driver's answer was an error (`driver.cpp:52`); getters
  then return what was never filled in. `PropsMirrorDriver` is about the time after an answer.
- The path to device cache of `file_handle.cpp:67` is never invalidated.
- `Summary::since()` may report more busy time than wall time, since a start or a finish stamped
  before the earlier reading may reach the tracker only after it.
- Move assignment over a `StreamFuture` that still has a block leaks the block; changing the
  compatibility mode between `buffer_register` and `buffer_deregister` leaks the registration.
- The fallback
  of an `s3://` URL makes an endpoint that fails at its first request. A presigned URL whose
  answer has no `Content-Range` opens with size 0.

## 7. Not modelled

- Running out of memory while work is queued (`submit_pread`, `submit_task`): parts already
  queued run on after the caller got the exception. Modelling it means modelling a caller
  that must not free its buffer, which nothing in the code can tell it.
- The start of the reactor threads while the pool's constructor still fills `_reactors`, and the
  reset of the thread pool by `set_thread_pool_nthreads()`.
- Exceptions that pass through libcurl's C callbacks are taken to unwind (`CopyFails`), as they do
  with the compilers in use.
- Construction of S3 URLs, credentials and signatures beyond success and failure; the naming functions.
- The options of a curl handle other than its share and its error buffer.
- Batch submission, status and cancellation, which forward to cuFile, and two of the four setters
  of the driver properties, which have the shape of the two modelled.
- Differences, formatting and serialization of statistics; page-cache utilities and string
  helpers; library loaders, logging, NVTX; the Python and Java bindings.
