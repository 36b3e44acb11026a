---------------------------- MODULE CuFileObjects ----------------------------
(***************************************************************************)
(* The objects through which callers use cuFile besides FileHandle: the    *)
(* StreamFuture of an asynchronous read or write, BatchHandle, and the     *)
(* cached DriverProperties.  cuFile's own side is external: the operations *)
(* in flight, the batch handles it knows, the driver's settings.           *)
(***************************************************************************)
EXTENDS Integers, FiniteSets

CONSTANTS Futures, Blocks, NoBlock,   \* StreamFutures and the arguments they allocate
          Batches, BatchIds, NoBatchId,
          Thresholds,                 \* values of poll_thresh_size, 0 among them
          Allocations                 \* device allocations, by their base address

ASSUME CuFileAssumption == 0 \in Thresholds /\ Thresholds \subseteq Nat

VARIABLES
    future,    \* the members of each StreamFuture
    blocks,    \* allocated argument blocks
    busy,      \* blocks an operation in flight reads and writes
    failed,    \* history: blocks of these whose future got an error from the wait for them
    batch,     \* the members of each BatchHandle
    batchIds,  \* batch handles cuFile has set up
    props,     \* DriverProperties::_props, _initialized, and whether the driver answered
    driver,    \* the driver's own settings
    buffers    \* allocations registered with cuFile and by the callers, and
               \* is_compat_mode_preferred(), which set_compat_mode() may change

cufileVars == <<future, blocks, busy, failed, batch, batchIds, props, driver, buffers>>
futureVars == <<future, blocks, busy, failed>>
batchVars == <<batch, batchIds>>
driverVars == <<props, driver>>

NoFuture == [block |-> NoBlock, synced |-> FALSE]
NoBatch == [open |-> FALSE, id |-> NoBatchId]
NoProps == [initialized |-> FALSE, answered |-> FALSE, poll |-> FALSE, thresh |-> 0]

CuFileInit ==
    /\ future = [f \in Futures |-> NoFuture] /\ blocks = {} /\ busy = {} /\ failed = {}
    /\ batch = [b \in Batches |-> NoBatch] /\ batchIds = {}
    /\ props = NoProps /\ driver \in [poll : BOOLEAN, thresh : Thresholds]
    /\ buffers \in [registered : {{}}, claimed : {{}}, preferred : BOOLEAN, changed : {FALSE}]

-------------------------------------------------------------------------------
(* Asynchronous reads and writes.                                          *)

\* read_async(), write_async() by value: the arguments are allocated; with cuFile the
\* operation is queued and uses them later, in compatibility mode, or when the handle
\* may not use cuFile's stream API, it is over on return.  An error frees them again.
StartAsync(f, queued) ==
    /\ future[f] = NoFuture
    /\ \E b \in Blocks \ blocks :
          /\ blocks' = blocks \cup {b}
          /\ busy' = IF queued THEN busy \cup {b} ELSE busy
          /\ future' = [future EXCEPT ![f] = [block |-> b, synced |-> FALSE]]
    /\ UNCHANGED <<failed, batchVars, driverVars, buffers>>

\* The stream executes the operation.
StreamRuns(b) ==
    /\ b \in busy
    /\ busy' = busy \ {b} /\ failed' = failed \ {b}
    /\ UNCHANGED <<future, blocks, batchVars, driverVars, buffers>>

\* StreamSynchronize(): a call that succeeds returns once the operation is over; one that
\* fails may leave it in flight.
Over(b) == b \notin busy
Waits(f, ok) ==
    /\ ok => Over(future[f].block)
    /\ failed' = failed \cup ({future[f].block} \cap busy)

\* check_bytes_done(): _stream_synchronized is set before the wait, and stays set when the
\* wait throws.
CheckBytesDone(f, ok) ==
    /\ future[f].block # NoBlock /\ ~future[f].synced
    /\ Waits(f, ok)
    /\ future' = [future EXCEPT ![f].synced = TRUE]
    /\ UNCHANGED <<blocks, busy, batchVars, driverVars, buffers>>

\* ~StreamFuture(): check_bytes_done(), which skips the wait after an earlier one and whose
\* error is caught, and then free().
DestroyFuture(f, ok) ==
    /\ future[f].block # NoBlock
    /\ IF future[f].synced THEN UNCHANGED failed ELSE Waits(f, ok)
    /\ blocks' = blocks \ {future[f].block}
    /\ future' = [future EXCEPT ![f] = NoFuture]
    /\ UNCHANGED <<busy, batchVars, driverVars, buffers>>

\* StreamFuture(StreamFuture&&) and operator=: the target's own block, if any, is
\* forgotten, neither waited for nor freed; synced comes along.
MovedSyncedStays(f, g) == [block |-> future[g].block, synced |-> future[f].synced]
Moved(f, g) == future[g]
MoveFuture(f, g) ==
    /\ f # g /\ future[g].block # NoBlock
    /\ future' = [future EXCEPT ![f] = Moved(f, g), ![g] = NoFuture]
    /\ UNCHANGED <<blocks, busy, failed, batchVars, driverVars, buffers>>

-------------------------------------------------------------------------------
(* Batches.  submit(), status() and cancel() check their arguments and     *)
(* leave the rest to cuFile: they change nothing here.                     *)

\* BatchHandle::BatchHandle(); an error throws.
OpenBatch(b) ==
    /\ batch[b] = NoBatch
    /\ \E id \in BatchIds \ batchIds :
          /\ batch' = [batch EXCEPT ![b] = [open |-> TRUE, id |-> id]]
          /\ batchIds' = batchIds \cup {id}
    /\ UNCHANGED <<futureVars, driverVars, buffers>>

\* BatchHandle(BatchHandle&&).
MoveBatch(b, c) ==
    /\ batch[b] = NoBatch /\ batch[c].open
    /\ batch' = [batch EXCEPT ![b] = batch[c], ![c] = NoBatch]
    /\ UNCHANGED <<batchIds, futureVars, driverVars, buffers>>

\* close() and ~BatchHandle(): the handle keeps its stale id, and is closed.
CloseBatch(b) ==
    /\ batch[b].open
    /\ batch' = [batch EXCEPT ![b] = NoBatch]
    /\ batchIds' = batchIds \ {batch[b].id}
    /\ UNCHANGED <<futureVars, driverVars, buffers>>

-------------------------------------------------------------------------------
(* Driver properties.                                                      *)

\* lazy_init(), on the first getter or setter: _initialized is set before the call
\* that may throw, so a failure leaves zeros for good.
Initialized(ok) ==
    IF props.initialized THEN props
    ELSE [initialized |-> TRUE, answered |-> ok,
          poll |-> ok /\ driver.poll, thresh |-> IF ok THEN driver.thresh ELSE 0]
LazyInit(ok) ==
    /\ ~props.initialized
    /\ props' = Initialized(ok)
    /\ UNCHANGED <<driver, futureVars, batchVars, buffers>>

\* set_nvfs_poll_mode(), set_nvfs_poll_thresh_size(): the driver is told both values and
\* may refuse; the cached value follows only when it did not.
CachedEvenIfRefused(p, new, accepted) == [p EXCEPT !.poll = new.poll, !.thresh = new.thresh]
CachedProps(p, new, accepted) == IF accepted THEN [p EXCEPT !.poll = new.poll, !.thresh = new.thresh] ELSE p
SetDriver(new, accepted) ==
    /\ props.initialized
    /\ driver' = IF accepted THEN new ELSE driver
    /\ props' = CachedProps(props, new, accepted)
    /\ UNCHANGED <<futureVars, batchVars, buffers>>
SetPollMode(enable, accepted) == SetDriver([poll |-> enable, thresh |-> props.thresh], accepted)
SetPollThreshold(size, accepted) == SetDriver([poll |-> props.poll, thresh |-> size], accepted)

CuFileNext ==
    \/ \E f \in Futures :
          \/ \E queued \in BOOLEAN : StartAsync(f, queued)
          \/ \E ok \in BOOLEAN : CheckBytesDone(f, ok) \/ DestroyFuture(f, ok)
          \/ \E g \in Futures : MoveFuture(f, g)
    \/ \E b \in Blocks : StreamRuns(b)
    \/ \E b \in Batches : OpenBatch(b) \/ CloseBatch(b) \/ \E c \in Batches : MoveBatch(b, c)
    \/ \E ok \in BOOLEAN :
          \/ LazyInit(ok)
          \/ \E enable \in BOOLEAN : SetPollMode(enable, ok)
          \/ \E size \in Thresholds : SetPollThreshold(size, ok)

-------------------------------------------------------------------------------
(* Buffer registration.                                                    *)

\* buffer_register(), memory_register(): nothing to do in compatibility mode; an error
\* of cuFile, a second registration among them, throws unless it is to be ignored.
RegisterBuffer(a, ok, ignored) ==
    /\ ok => a \notin buffers.registered
    /\ ok \/ ignored \/ buffers.preferred
    /\ buffers' = [buffers EXCEPT !.registered = IF ok /\ ~buffers.preferred THEN @ \cup {a} ELSE @,
                                  !.claimed = @ \cup {a}]
    /\ UNCHANGED <<futureVars, batchVars, driverVars>>

\* buffer_deregister(), memory_deregister(): likewise; cuFile refuses a buffer it does
\* not know.
DeregisterBuffer(a) ==
    /\ a \in buffers.claimed
    /\ buffers.preferred \/ a \in buffers.registered
    /\ buffers' = [buffers EXCEPT !.registered = IF buffers.preferred THEN @ ELSE @ \ {a},
                                  !.claimed = @ \ {a}]
    /\ UNCHANGED <<futureVars, batchVars, driverVars>>

SetCompatMode ==
    /\ buffers' = [buffers EXCEPT !.preferred = ~@, !.changed = TRUE]
    /\ UNCHANGED <<futureVars, batchVars, driverVars>>

BufferNext ==
    \/ \E a \in Allocations :
          (\E ok, ignored \in BOOLEAN : RegisterBuffer(a, ok, ignored)) \/ DeregisterBuffer(a)
    \/ SetCompatMode

CuFileSpec == CuFileInit /\ [][CuFileNext \/ BufferNext]_cufileVars

-------------------------------------------------------------------------------
(* Properties.                                                             *)

\* StreamFuture, BatchHandle: through moves, checks and destructions the arguments of
\* an operation in flight are freed only after a wait for it failed, no two futures
\* would free the same ones, and each batch handle of cuFile belongs to exactly one open
\* BatchHandle.  A buffer stays registered no longer than its caller wants, unless the
\* compatibility mode was changed in between.
CuFileObjectsOwned ==
    /\ busy \ failed \subseteq blocks
    /\ \A f, g \in Futures : f # g /\ future[f].block # NoBlock => future[f].block # future[g].block
    /\ \A id \in BatchIds : Cardinality({b \in Batches : batch[b].open /\ batch[b].id = id})
                                = IF id \in batchIds THEN 1 ELSE 0
    /\ buffers.registered \subseteq buffers.claimed \/ buffers.changed

\* DriverProperties: whatever the driver refuses, the cached properties are the
\* driver's, once it has answered the first query.
PropsMirrorDriver ==
    props.answered => props.poll = driver.poll /\ props.thresh = driver.thresh

===============================================================================
