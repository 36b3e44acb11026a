--------------------------- MODULE MultiPollReactor ---------------------------
(***************************************************************************)
(* The MULTI_POLL remote backend of KvikIO: RemoteHandle::pread() splits a *)
(* read into sub-range transfers and hands them to MultiReactorPool, whose *)
(* reactor threads take them off one shared queue, put them on the wire    *)
(* with libcurl's multi interface, retry them, stage device copies, and    *)
(* report each of them to the read's RemoteMultiAggregateContext, which    *)
(* fulfils the caller's promise.  A fatal error of one reactor declares    *)
(* the whole pool dead.                                                    *)
(*                                                                         *)
(* One step is one critical section, one atomic access to shared state or  *)
(* one call into libcurl or CUDA, so that the interleavings of the reactor *)
(* threads, the callers and the CUDA driver are those of the code.  Bytes  *)
(* are counted in received chunks, time is reduced to "the backoff has     *)
(* elapsed", exceptions to whether there is one.                           *)
(***************************************************************************)
EXTENDS Integers, Sequences, FiniteSets

CONSTANTS Reads,                  \* calls of pread(), each on a caller thread of its own
          Transfers,              \* the sub-range transfers of all the reads
          ReadOf,                 \* the read of each transfer
          Subranges,              \* the transfers of each read, in file order
          CtxOf,                  \* the CUDA context of each transfer's destination
          Host,                   \* the "context" of a host destination
          SubrangeSize,           \* chunks in one sub-range
          NumReactors,            \* KVIKIO_REMOTE_IO_NUM_REACTORS
          MaxConcurrentRequests,  \* KVIKIO_REMOTE_IO_MAX_CONCURRENT_REQUESTS, 0 = unlimited
          MaxAttempts,            \* HttpRetryPolicy::max_attempts()
          Faults,                 \* which of the failures below the environment injects
          NoTransfer

Reactors == 0 .. NumReactors - 1
Threads == Reactors \cup Reads
Contexts == {CtxOf[t] : t \in Transfers} \ {Host}
SubrangesOf(a) == {t \in Transfers : ReadOf[t] = a}
IsDevice(t) == CtxOf[t] # Host
Elements(s) == {s[i] : i \in 1..Len(s)}

\* "retry": attempts end with a retryable error.   "fatal": attempts end with another one.
\* "short": a response body ends early.            "overflow": a body is too long.
\* "multi": a libcurl multi call or a buffer allocation fails.
\* "stage": the copy or the event record of stage_device_copy fails.
\* "launch": its LaunchHostFunc fails.            "alloc": putting a transfer back fails.
AllFaults == {"retry", "fatal", "short", "overflow", "multi", "stage", "launch", "alloc"}

ASSUME ConstantsAssumption ==
    /\ NumReactors \in Nat \ {0}
    /\ MaxConcurrentRequests \in Nat
    /\ MaxAttempts \in Nat \ {0}
    /\ SubrangeSize \in Nat \ {0}
    /\ IsFiniteSet(Transfers)
    /\ Faults \subseteq AllFaults
    /\ NoTransfer \notin Transfers
    /\ Reads \cap Reactors = {}

ASSUME SubrangesAssumption ==
    /\ ReadOf \in [Transfers -> Reads]
    /\ Subranges \in [Reads -> Seq(Transfers)]
    /\ \A a \in Reads : /\ Elements(Subranges[a]) = SubrangesOf(a)
                        /\ Len(Subranges[a]) = Cardinality(SubrangesOf(a))
                        /\ \A i, j \in 1..Len(Subranges[a]) :
                             Subranges[a][i] = Subranges[a][j] => i = j
                        /\ Subranges[a] # <<>>
    /\ \A t, u \in Transfers : ReadOf[t] = ReadOf[u] => CtxOf[t] = CtxOf[u]

VARIABLES
    \* MultiReactorPool
    queue,      \* _queue, with _queue_size_hint = Len(queue)
    dead,       \* _dead
    \* RemoteMultiTransfer: who holds the unique_ptr, and what the object holds
    at,         \* "new", "queue", "hand", "pending", "inflight", "gone"
    by,         \* the thread whose local variable or container holds it
    attempt,    \* attempts that have ended
    result,     \* libcurl's result for the attempt on the wire, or "none"
    overflowed, \* transfers with ctx.overflow_error set
    backingOff, \* transfers whose ready_at has not come
    offset,     \* ctx.offset: chunks in the destination
    slotted,    \* transfers that hold a slot of the limiter of reactor by[t]
    buffered,   \* transfers whose `buffer` is not null
    \* the limiter and the bounce-buffer shards of each reactor thread
    inUse,      \* ConcurrentRequestLimiter::_count
    lent,       \* buffers checked out or in flight, named by the transfer they serve
    copying,    \* transfers whose H2D copy is queued on a stream and not done
    recorded,   \* transfers whose copy the read's IoEventBarrier covers
    \* RemoteMultiAggregateContext
    left, total, promise,
    failed,     \* reads whose _first_exception is set
    told,       \* how each transfer has been counted ("open", "ok", "failed"): history
    \* the threads
    pc,         \* where each reactor's I/O thread is
    \* AdmitPass, PassOutcome and `completed` of the reactor's current pass
    todo,       \* transfers a loop over `_pending` or `_in_flight` has still to visit
    budget,     \* what is left of the share of the pool-wide queue
    exhausted,  \* contexts whose shard had no buffer
    deferred,   \* reactors with deferred_for_resource set
    completed,  \* reactors with completed > 0
    timer,      \* reactors whose earliest_ready_at has a value
    woken,      \* reactors with a curl_multi_wakeup() not yet consumed by a poll
    timeout,    \* the timeout of the poll the reactor is in
    cpc,        \* where each caller thread is
    rpc, rt     \* where each thread is in an aggregate report, and of which transfer

poolVars == <<queue, dead>>
xferVars == <<attempt, overflowed, result, backingOff, offset>>
ownVars == <<at, by>>
gateVars == <<slotted, buffered, inUse, lent>>
copyVars == <<copying, recorded>>
aggVars == <<left, total, failed, promise, told>>
passVars == <<todo, budget, exhausted, deferred, completed, timer>>
loopVars == <<pc, passVars, timeout>>
repVars == <<rpc, rt>>
vars == <<poolVars, xferVars, ownVars, gateVars, copyVars, aggVars, loopVars, woken, cpc, repVars>>

Pending(r) == {t \in Transfers : at[t] = "pending" /\ by[t] = r}
InFlight(r) == {t \in Transfers : at[t] = "inflight" /\ by[t] = r}
Hand(th) == {t \in Transfers : at[t] = "hand" /\ by[t] = th}

\* The scratch state of a pass is set up, with the transfers to visit and whether a
\* deadline is known.
SetPass(r, ts, tm) ==
    /\ todo' = [todo EXCEPT ![r] = ts]
    /\ timer' = IF tm THEN timer \cup {r} ELSE timer \ {r}
    /\ budget' = [budget EXCEPT ![r] = 0]
    /\ exhausted' = [exhausted EXCEPT ![r] = {}]
    /\ deferred' = deferred \ {r}
    /\ completed' = completed \ {r}

Init ==
    /\ queue = <<>>
    /\ dead = FALSE
    /\ at = [t \in Transfers |-> "new"]
    /\ by = [t \in Transfers |-> ReadOf[t]]
    /\ attempt = [t \in Transfers |-> 0]
    /\ overflowed = {}
    /\ result = [t \in Transfers |-> "none"]
    /\ backingOff = {}
    /\ offset = [t \in Transfers |-> 0]
    /\ slotted = {}
    /\ buffered = {}
    /\ inUse = [r \in Reactors |-> 0]
    /\ lent = [r \in Reactors |-> {}]
    /\ copying = {}
    /\ recorded = {}
    /\ left = [a \in Reads |-> Len(Subranges[a])]
    /\ total = [a \in Reads |-> 0]
    /\ failed = {}
    /\ promise = [a \in Reads |-> "pending"]
    /\ told = [t \in Transfers |-> "open"]
    /\ pc = [r \in Reactors |-> "top"]
    /\ todo = [r \in Reactors |-> {}]
    /\ budget = [r \in Reactors |-> 0]
    /\ exhausted = [r \in Reactors |-> {}]
    /\ deferred = {}
    /\ completed = {}
    /\ timer = {}
    /\ woken = {}
    /\ timeout = [r \in Reactors |-> "none"]
    /\ cpc = [a \in Reads |-> "start"]
    /\ rpc = [th \in Threads |-> "idle"]
    /\ rt = [th \in Threads |-> NoTransfer]

-------------------------------------------------------------------------------
(* Limits computed from the defaults.                                      *)

\* MultiReactorPool(): the budget is sliced evenly, the remainder spread over
\* the first reactors, and every reactor gets at least one slot.
Slice(r) ==
    LET base == MaxConcurrentRequests \div NumReactors
        extra == IF r < MaxConcurrentRequests % NumReactors THEN 1 ELSE 0
    IN  IF base + extra < 1 THEN 1 ELSE base + extra

Unlimited == MaxConcurrentRequests = 0

\* BounceBufferCachePerThreadAndContext::instance(): twice the even share.
BufferCap ==
    LET base == MaxConcurrentRequests \div NumReactors
    IN  2 * (IF base < 1 THEN 1 ELSE base)

\* queue_share_per_reactor(), on the queue length the hint shows.
QueueShare == (Len(queue) + NumReactors - 1) \div NumReactors

\* ConcurrentRequestLimiter::try_acquire() succeeds.
CanAcquire(r) == Unlimited \/ inUse[r] < Slice(r)

\* BounceBufferCachePerThreadAndContext::try_get() finds or may allocate a buffer.
BufferAvailable(r, t) ==
    Unlimited \/ Cardinality({u \in lent[r] : CtxOf[u] = CtxOf[t]}) < BufferCap

-------------------------------------------------------------------------------
(* RemoteMultiAggregateContext.  A report is a sub-program of the thread   *)
(* that makes it: record the exception, count down, and, for the thread    *)
(* that counts to zero, fulfil the promise.  When it is over the thread    *)
(* destroys the transfer, unless it is still in `_in_flight`.              *)

\* on_subrange_complete() / on_subrange_failed() is called by thread th for t.
Report(th, t, how) ==
    /\ rpc' = [rpc EXCEPT ![th] = how]
    /\ rt' = [rt EXCEPT ![th] = t]

\* Bug: the destructor does not recycle the buffer of a failed device transfer.
DestroyLeaksBuffer(t) ==
    IF at[t] = "inflight"
    THEN UNCHANGED <<ownVars, gateVars>>
    ELSE /\ at' = [at EXCEPT ![t] = "gone"]
         /\ by' = [by EXCEPT ![t] = ReadOf[t]]
         /\ slotted' = slotted \ {t}
         /\ inUse' = [r \in Reactors |->
                        IF t \in slotted /\ by[t] = r THEN inUse[r] - 1 ELSE inUse[r]]
         /\ buffered' = buffered \ {t}
         /\ UNCHANGED lent

\* ~RemoteMultiTransfer, and the destructors of its slot and its attachment.
Destroy(t) ==
    IF at[t] = "inflight"
    THEN UNCHANGED <<ownVars, gateVars>>
    ELSE /\ at' = [at EXCEPT ![t] = "gone"]
         /\ by' = [by EXCEPT ![t] = ReadOf[t]]
         /\ slotted' = slotted \ {t}
         /\ inUse' = [r \in Reactors |->
                        IF t \in slotted /\ by[t] = r THEN inUse[r] - 1 ELSE inUse[r]]
         /\ buffered' = buffered \ {t}
         /\ lent' = IF t \in buffered THEN [r \in Reactors |-> lent[r] \ {t}] ELSE lent

EndReport(th) ==
    /\ rpc' = [rpc EXCEPT ![th] = "idle"]
    /\ rt' = [rt EXCEPT ![th] = NoTransfer]
    /\ Destroy(rt[th])

\* on_subrange_failed(): the first exception is kept, under _exception_mutex.
RecordException(th) ==
    /\ rpc[th] = "failed"
    /\ failed' = failed \cup {ReadOf[rt[th]]}
    /\ rpc' = [rpc EXCEPT ![th] = "countFailed"]
    /\ UNCHANGED <<poolVars, xferVars, ownVars, gateVars, copyVars, left, total, promise, told,
                   loopVars, woken, cpc, rt>>

\* Bug: the first failure already fulfils the promise.
CountsToZeroOrFails(th) == left[ReadOf[rt[th]]] = 1 \/ rpc[th] = "countFailed"

\* This thread's fetch_sub on _subranges_left takes it to zero.
CountsToZero(th) == left[ReadOf[rt[th]]] = 1

\* The fetch_sub on _subranges_left, with the fetch_add on _total_bytes before it.
CountDown(th) ==
    LET t == rt[th]
        a == ReadOf[t]
        ok == rpc[th] = "complete"
    IN  /\ rpc[th] \in {"complete", "countFailed"}
        /\ total' = IF ok THEN [total EXCEPT ![a] = @ + SubrangeSize] ELSE total
        /\ left' = [left EXCEPT ![a] = @ - 1]
        /\ told' = [told EXCEPT ![t] = IF ok THEN "ok" ELSE "failed"]
        /\ IF CountsToZero(th)
           THEN /\ rpc' = [rpc EXCEPT ![th] = "fulfil"]
                /\ UNCHANGED <<rt, ownVars, gateVars>>
           ELSE EndReport(th)
        /\ UNCHANGED <<poolVars, xferVars, copyVars, failed, promise, loopVars, woken, cpc>>

\* set_exception() or set_value() by the thread that counted to zero.
Fulfil(th) ==
    LET a == ReadOf[rt[th]]
    IN  /\ rpc[th] = "fulfil"
        /\ promise' = [promise EXCEPT ![a] = IF a \in failed THEN "exception" ELSE "value"]
        /\ EndReport(th)
        /\ UNCHANGED <<poolVars, xferVars, copyVars, left, total, failed, told, loopVars, woken,
                       cpc>>

-------------------------------------------------------------------------------
(* The caller's thread: RemoteHandle::pread() up to the future's get().    *)

\* Bug: is_dead() is not checked under _queue_mutex.
SubmitUnchecked(a) ==
    /\ cpc[a] = "start"
    /\ at' = [t \in Transfers |-> IF ReadOf[t] = a THEN "queue" ELSE at[t]]
    /\ cpc' = [cpc EXCEPT ![a] = "wake"]
    /\ queue' = queue \o Subranges[a]
    /\ UNCHANGED <<dead, by, xferVars, gateVars, copyVars, aggVars, loopVars, woken, repVars>>

\* submit_pread() under _queue_mutex: queue the transfers, or keep them to fail
\* them if the pool is already dead.
SubmitPread(a) ==
    /\ cpc[a] = "start"
    /\ IF dead
       THEN /\ at' = [t \in Transfers |-> IF ReadOf[t] = a THEN "hand" ELSE at[t]]
            /\ cpc' = [cpc EXCEPT ![a] = "failing"]
            /\ UNCHANGED queue
       ELSE /\ at' = [t \in Transfers |-> IF ReadOf[t] = a THEN "queue" ELSE at[t]]
            /\ cpc' = [cpc EXCEPT ![a] = "wake"]
            /\ queue' = queue \o Subranges[a]
    /\ UNCHANGED <<dead, by, xferVars, gateVars, copyVars, aggVars, loopVars, woken, repVars>>

\* submit_pread() on a dead pool: every transfer is failed, one after the other.
FailSubmitted(a) ==
    /\ cpc[a] = "failing"
    /\ rpc[a] = "idle"
    /\ \/ /\ \E t \in Hand(a) : Report(a, t, "failed")
          /\ UNCHANGED cpc
       \/ /\ Hand(a) = {}
          /\ cpc' = [cpc EXCEPT ![a] = "get"]
          /\ UNCHANGED repVars
    /\ UNCHANGED <<poolVars, ownVars, xferVars, gateVars, copyVars, aggVars, loopVars, woken>>

\* Bug: submit_pread() leaves the new work to the next poll timeout.
SubmitWithoutWakeup(a) ==
    /\ cpc[a] = "wake"
    /\ cpc' = [cpc EXCEPT ![a] = "get"]
    /\ UNCHANGED <<poolVars, ownVars, xferVars, gateVars, copyVars, aggVars, loopVars, woken,
                   repVars>>

\* submit_pread() ends with wake_all_reactors().
WakeAllReactors(a) ==
    /\ cpc[a] = "wake"
    /\ woken' = Reactors
    /\ cpc' = [cpc EXCEPT ![a] = "get"]
    /\ UNCHANGED <<poolVars, ownVars, xferVars, gateVars, copyVars, aggVars, loopVars, repVars>>

\* Bug: a device read returns without waiting for its copies.
GetWithoutSync(a) ==
    /\ cpc[a] = "get"
    /\ promise[a] # "pending"
    /\ cpc' = [cpc EXCEPT ![a] = "done"]
    /\ UNCHANGED <<poolVars, ownVars, xferVars, gateVars, copyVars, aggVars, loopVars, woken,
                   repVars>>

\* future.get(): an exception leaves at once; a device read goes on to the barrier.
Get(a) ==
    /\ cpc[a] = "get"
    /\ promise[a] # "pending"
    /\ cpc' = [cpc EXCEPT ![a] =
                 IF promise[a] = "value" /\ \E t \in SubrangesOf(a) : IsDevice(t)
                 THEN "sync" ELSE "done"]
    /\ UNCHANGED <<poolVars, ownVars, xferVars, gateVars, copyVars, aggVars, loopVars, woken,
                   repVars>>

\* IoEventBarrier::sync_all_events().
SyncAllEvents(a) ==
    /\ cpc[a] = "sync"
    /\ copying \cap recorded \cap SubrangesOf(a) = {}
    /\ cpc' = [cpc EXCEPT ![a] = "done"]
    /\ UNCHANGED <<poolVars, ownVars, xferVars, gateVars, copyVars, aggVars, loopVars, woken,
                   repVars>>

-------------------------------------------------------------------------------
(* The reactor: io_thread_main() and the admission pass.                   *)

\* Reactor r is at label l and not inside an aggregate report.
At(r, l) == pc[r] = l /\ rpc[r] = "idle"

Goto(r, l) == pc' = [pc EXCEPT ![r] = l]

\* Bug: the deadlines of the retries held back are not recorded.
NewPassWithoutTimer(r) == SetPass(r, Pending(r) \ backingOff, FALSE)

\* The pass considers the retries whose backoff has elapsed when it starts; the
\* deadlines of the others go into the pass outcome (record_ready_at).
NewPass(r) == SetPass(r, Pending(r) \ backingOff, Pending(r) \cap backingOff # {})

\* The loop head.
LoopTop(r) ==
    /\ At(r, "top")
    /\ IF dead
       THEN /\ Goto(r, "fail")
            /\ UNCHANGED passVars
       ELSE /\ Goto(r, "retries")
            /\ NewPass(r)
    /\ UNCHANGED <<poolVars, ownVars, xferVars, gateVars, copyVars, aggVars, timeout, woken,
                   cpc, repVars>>

\* try_admit(), gate by gate.
ContextMissed(r, t) == IsDevice(t) /\ CtxOf[t] \in exhausted[r]
SlotRefused(r, t) == t \notin slotted /\ ~CanAcquire(r)
BufferRefused(r, t) == IsDevice(t) /\ ~BufferAvailable(r, t)

TakeBuffer(r, t) ==
    IF IsDevice(t)
    THEN /\ buffered' = buffered \cup {t}
         /\ lent' = [lent EXCEPT ![r] = @ \cup {t}]
    ELSE UNCHANGED <<buffered, lent>>

\* Bug: the slot is dropped without being returned to the limiter.
DropSlotUnreturned(r, t) == slotted' = slotted \ {t} /\ UNCHANGED inUse

\* Bug: the limiter's count is decremented although there may be no slot.
DropSlotAlways(r, t) ==
    /\ slotted' = slotted \ {t}
    /\ inUse' = [inUse EXCEPT ![r] = @ - 1]

\* The slot the transfer arrived with goes out of scope.
DropSlot(r, t) ==
    /\ slotted' = slotted \ {t}
    /\ inUse' = [inUse EXCEPT ![r] = IF t \in slotted THEN @ - 1 ELSE @]

\* try_admit() returns true: the transfer is attached and in `_in_flight`.
Admitted(r, t) ==
    /\ ~ContextMissed(r, t) /\ ~SlotRefused(r, t) /\ ~BufferRefused(r, t)
    /\ slotted' = slotted \cup {t}
    /\ inUse' = [inUse EXCEPT ![r] = IF t \in slotted THEN @ ELSE @ + 1]
    /\ TakeBuffer(r, t)
    /\ at' = [at EXCEPT ![t] = "inflight"]
    /\ UNCHANGED by

\* try_admit() returns false: the slot is dropped and the reason noted.
Refused(r, t) ==
    /\ ContextMissed(r, t) \/ SlotRefused(r, t) \/ BufferRefused(r, t)
    /\ DropSlot(r, t)
    /\ deferred' = deferred \cup {r}
    /\ exhausted' = [exhausted EXCEPT ![r] = IF ContextMissed(r, t) \/ SlotRefused(r, t)
                                            THEN @ ELSE @ \cup {CtxOf[t]}]
    /\ UNCHANGED <<buffered, lent, ownVars, budget, completed, timer>>

\* try_admit() throws: allocating the buffer failed, or curl_multi_add_handle did,
\* after the buffer was taken.  The transfer is, or is put, in `_pending`.
AdmissionThrows(r, t) ==
    /\ "multi" \in Faults
    /\ ~ContextMissed(r, t) /\ ~SlotRefused(r, t)
    /\ DropSlot(r, t)
    /\ \/ ~BufferRefused(r, t) /\ TakeBuffer(r, t)
       \/ IsDevice(t) /\ UNCHANGED <<buffered, lent>>
    /\ at' = [at EXCEPT ![t] = "pending"]
    /\ Goto(r, "signal")
    /\ UNCHANGED by

\* admit_pending(): the retries, in the order of `_pending` (left open here).
AdmitRetry(r) ==
    /\ At(r, "retries")
    /\ \E t \in todo[r] :
         /\ todo' = [todo EXCEPT ![r] = @ \ {t}]
         /\ \/ /\ Admitted(r, t)
               /\ UNCHANGED <<pc, budget, exhausted, deferred, completed, timer>>
            \/ Refused(r, t) /\ UNCHANGED pc
            \/ /\ AdmissionThrows(r, t)
               /\ UNCHANGED <<budget, exhausted, deferred, completed, timer>>
    /\ UNCHANGED <<poolVars, xferVars, copyVars, aggVars, timeout, woken, cpc, repVars>>

\* admit_from_pool(): the share is read once, before the first pop.
ReadQueueShare(r) ==
    /\ At(r, "retries")
    /\ todo[r] = {}
    /\ budget' = [budget EXCEPT ![r] = QueueShare]
    /\ Goto(r, "pool")
    /\ UNCHANGED <<todo, exhausted, deferred, completed, timer, poolVars, ownVars, xferVars,
                   gateVars, copyVars, aggVars, timeout, woken, cpc, repVars>>

\* One round of admit_from_pool() up to try_pop_queued(), which does not look at
\* `_dead`: reserve a slot, then pop under _queue_mutex.
TryPopQueued(r) ==
    /\ At(r, "pool")
    /\ IF budget[r] = 0 \/ ~CanAcquire(r) \/ queue = <<>>
       THEN /\ Goto(r, "perform")
            /\ deferred' = IF budget[r] # 0 /\ ~CanAcquire(r) THEN deferred \cup {r} ELSE deferred
            /\ UNCHANGED <<queue, ownVars, slotted, inUse, budget>>
       ELSE /\ Goto(r, "popped")
            /\ budget' = [budget EXCEPT ![r] = @ - 1]
            /\ queue' = Tail(queue)
            /\ at' = [at EXCEPT ![Head(queue)] = "hand"]
            /\ by' = [by EXCEPT ![Head(queue)] = r]
            /\ slotted' = slotted \cup {Head(queue)}
            /\ inUse' = [inUse EXCEPT ![r] = @ + 1]
            /\ UNCHANGED deferred
    /\ UNCHANGED <<dead, xferVars, todo, exhausted, completed, timer, buffered, lent, copyVars,
                   aggVars, timeout, woken, cpc, repVars>>

AdmitPopped(r) ==
    /\ At(r, "popped")
    /\ \E t \in Hand(r) :
         \/ /\ Admitted(r, t)
            /\ Goto(r, "pool")
            /\ UNCHANGED <<exhausted, deferred, budget, completed, timer>>
         \/ Refused(r, t) /\ Goto(r, "return")
         \/ AdmissionThrows(r, t) /\ UNCHANGED <<exhausted, deferred, budget, completed, timer>>
    /\ UNCHANGED <<todo, poolVars, xferVars, copyVars, aggVars, timeout, woken, cpc, repVars>>

\* return_to_queue() under _queue_mutex: back to the head, or failed if the pool is
\* dead or the push throws.  The pass then goes on to perform().
ReturnToQueue(r) ==
    /\ At(r, "return")
    /\ Goto(r, "perform")
    /\ \E t \in Hand(r) :
         \/ /\ dead \/ "alloc" \in Faults
            /\ Report(r, t, "failed")
            /\ UNCHANGED <<queue, ownVars>>
         \/ /\ ~dead
            /\ queue' = <<t>> \o queue
            /\ at' = [at EXCEPT ![t] = "queue"]
            /\ by' = [by EXCEPT ![t] = ReadOf[t]]
            /\ UNCHANGED repVars
    /\ UNCHANGED <<dead, xferVars, gateVars, copyVars, aggVars, passVars, timeout, woken, cpc>>

-------------------------------------------------------------------------------
(* perform(): what one curl_multi_perform() may do to the attached easy    *)
(* handles.  libcurl is external; the write callback is KvikIO's.          *)

\* callback_host_memory() / callback_pinned_buffer() for one received chunk.
WriteCallback(r, t) ==
    /\ At(r, "perform")
    /\ t \in InFlight(r)
    /\ result[t] = "none"
    /\ IF offset[t] < SubrangeSize
       THEN /\ offset' = [offset EXCEPT ![t] = @ + 1]
            /\ UNCHANGED <<overflowed, result>>
       ELSE /\ "overflow" \in Faults
            /\ overflowed' = overflowed \cup {t}
            /\ result' = [result EXCEPT ![t] = "fatal"]    \* CURLE_WRITE_ERROR
            /\ UNCHANGED offset
    /\ UNCHANGED <<poolVars, attempt, backingOff, ownVars, gateVars, copyVars, aggVars,
                   loopVars, woken, cpc, repVars>>

\* libcurl ends the attempt and queues a CURLMSG_DONE for it.
AttemptEnds(r, t) ==
    /\ At(r, "perform")
    /\ t \in InFlight(r)
    /\ result[t] = "none"
    /\ \E res \in {"ok", "retryable", "fatal"} :
         /\ res = "ok" => offset[t] = SubrangeSize \/ "short" \in Faults
         /\ res = "retryable" => "retry" \in Faults
         /\ res = "fatal" => "fatal" \in Faults
         /\ result' = [result EXCEPT ![t] = res]
    /\ UNCHANGED <<poolVars, attempt, overflowed, backingOff, offset, ownVars, gateVars,
                   copyVars, aggVars, loopVars, woken, cpc, repVars>>

PerformReturns(r) ==
    /\ At(r, "perform")
    /\ Goto(r, "reap")
    /\ UNCHANGED <<poolVars, xferVars, ownVars, gateVars, copyVars, aggVars, passVars, timeout,
                   woken, cpc, repVars>>

-------------------------------------------------------------------------------
(* reap_completions() and settle_transfer().                               *)

\* The next message: its transfer leaves `_in_flight`.
ReapCompletion(r) ==
    /\ At(r, "reap")
    /\ \E t \in InFlight(r) :
         /\ result[t] # "none"
         /\ at' = [at EXCEPT ![t] = "hand"]
    /\ completed' = completed \cup {r}
    /\ Goto(r, "settle")
    /\ UNCHANGED <<todo, budget, exhausted, deferred, timer, poolVars, by, xferVars, gateVars,
                   copyVars, aggVars, timeout, woken, cpc, repVars>>

Succeeded(t) == result[t] = "ok" /\ t \notin overflowed

\* A finished host transfer is reported.
SettleHost(r) ==
    /\ At(r, "settle")
    /\ \E t \in Hand(r) : Succeeded(t) /\ ~IsDevice(t) /\ Report(r, t, "complete")
    /\ Goto(r, "reap")
    /\ UNCHANGED <<poolVars, xferVars, ownVars, gateVars, copyVars, aggVars, passVars, timeout,
                   woken, cpc>>

\* stage_device_copy(): the copy is queued, its event recorded and the buffer
\* moved into the recycle callback; the transfer is reported while it runs.
StageDeviceCopy(r) ==
    /\ At(r, "settle")
    /\ \E t \in Hand(r) :
         /\ Succeeded(t) /\ IsDevice(t)
         /\ copying' = copying \cup {t}
         /\ recorded' = recorded \cup {t}
         /\ buffered' = buffered \ {t}
         /\ Report(r, t, "complete")
    /\ Goto(r, "reap")
    /\ UNCHANGED <<poolVars, xferVars, ownVars, slotted, inUse, lent, aggVars, passVars,
                   timeout, woken, cpc>>

\* A CUDA call of stage_device_copy() fails: the copy itself; record_event(), with
\* the copy queued and the buffer still the transfer's; or LaunchHostFunc, after
\* which the buffer has left the shard.
StageFails(r) ==
    /\ At(r, "settle")
    /\ \E t \in Hand(r) :
         /\ Succeeded(t) /\ IsDevice(t)
         /\ \/ "stage" \in Faults /\ UNCHANGED <<copyVars, buffered, lent>>
            \/ /\ "stage" \in Faults
               /\ copying' = copying \cup {t}
               /\ UNCHANGED <<recorded, buffered, lent>>
            \/ /\ "launch" \in Faults
               /\ copying' = copying \cup {t}
               /\ recorded' = recorded \cup {t}
               /\ buffered' = buffered \ {t}
               /\ lent' = [lent EXCEPT ![r] = @ \ {t}]
         /\ Report(r, t, "failed")
    /\ Goto(r, "reap")
    /\ UNCHANGED <<poolVars, xferVars, ownVars, slotted, inUse, aggVars, passVars, timeout,
                   woken, cpc>>

\* HttpRetryPolicy::evaluate() of the attempt that just ended answers RETRY.
ShouldRetry(t) == t \notin overflowed /\ result[t] = "retryable" /\ attempt[t] + 1 < MaxAttempts

\* Overflow, a fatal error, or the attempts are used up.
SettleFailed(r) ==
    /\ At(r, "settle")
    /\ \E t \in Hand(r) :
         /\ ~Succeeded(t) /\ ~ShouldRetry(t)
         /\ attempt' = [attempt EXCEPT ![t] = IF t \in overflowed THEN @ ELSE @ + 1]
         /\ Report(r, t, "failed")
    /\ Goto(r, "reap")
    /\ UNCHANGED <<poolVars, overflowed, result, backingOff, offset, ownVars, gateVars, copyVars,
                   aggVars, passVars, timeout, woken, cpc>>

\* Bug: the offset of the failed attempt is kept.
ResetOverflowOnly(t) == overflowed' = overflowed \ {t} /\ UNCHANGED offset

\* CallbackContext::reset_for_retry().
ResetForRetry(t) ==
    /\ offset' = [offset EXCEPT ![t] = 0]
    /\ overflowed' = overflowed \ {t}

\* The push into `_pending`; the transfer is failed if it throws.
PushPending(r, t) ==
    \/ at' = [at EXCEPT ![t] = "pending"] /\ UNCHANGED repVars
    \/ "alloc" \in Faults /\ Report(r, t, "failed") /\ UNCHANGED at

\* requeue_for_retry(): detach, drop the slot and the buffer, rewind the callback
\* context, and wait in `_pending` for the backoff.
RequeueForRetry(r) ==
    /\ At(r, "settle")
    /\ \E t \in Hand(r) :
         /\ ShouldRetry(t)
         /\ attempt' = [attempt EXCEPT ![t] = @ + 1]
         /\ DropSlot(r, t)
         /\ buffered' = buffered \ {t}
         /\ lent' = [lent EXCEPT ![r] = @ \ {t}]
         /\ ResetForRetry(t)
         /\ result' = [result EXCEPT ![t] = "none"]
         /\ backingOff' = backingOff \cup {t}
         /\ PushPending(r, t)
    /\ timer' = timer \cup {r}
    /\ Goto(r, "reap")
    /\ UNCHANGED <<todo, budget, exhausted, deferred, completed, poolVars, by, copyVars,
                   aggVars, timeout, woken, cpc>>

-------------------------------------------------------------------------------
(* poll().                                                                 *)

\* poll_timeout_ms(): "idle" is 1000 ms, "busy" 10 ms, "backoff" no later than
\* the earliest ready_at, "zero" none.
PollTimeout(r) ==
    LET idle == Pending(r) = {} /\ queue = <<>>
        refused == Pending(r) = {} /\ r \in deferred
    IN  CASE idle -> "idle"
          [] ~idle /\ r \in completed -> "zero"
          [] ~idle /\ r \notin completed /\ refused -> "idle"
          [] ~idle /\ r \notin completed /\ ~refused ->
               IF r \in timer THEN "backoff"
               ELSE IF r \in deferred \/ queue # <<>> THEN "busy" ELSE "idle"

\* No message is left: the reactor enters curl_multi_poll().
EnterPoll(r) ==
    /\ At(r, "reap")
    /\ \A t \in InFlight(r) : result[t] = "none"
    /\ timeout' = [timeout EXCEPT ![r] = PollTimeout(r)]
    /\ SetPass(r, {}, FALSE)
    /\ Goto(r, "poll")
    /\ UNCHANGED <<poolVars, xferVars, ownVars, gateVars, copyVars, aggVars, woken, cpc,
                   repVars>>

\* curl_multi_poll() returns, for a wakeup, for socket activity or at its timeout.
PollReturns(r) ==
    /\ At(r, "poll")
    /\ woken' = woken \ {r}
    /\ timeout' = [timeout EXCEPT ![r] = "none"]
    /\ Goto(r, "top")
    /\ UNCHANGED <<poolVars, xferVars, ownVars, gateVars, copyVars, aggVars, passVars, cpc,
                   repVars>>

-------------------------------------------------------------------------------
(* Pool death.                                                             *)

\* curl_multi_perform() or curl_multi_poll() reports an error.
MultiCallFails(r) ==
    /\ At(r, "perform") \/ At(r, "poll")
    /\ "multi" \in Faults
    /\ Goto(r, "signal")
    /\ timeout' = [timeout EXCEPT ![r] = "none"]
    /\ UNCHANGED <<passVars, poolVars, xferVars, ownVars, gateVars, copyVars, aggVars, woken,
                   cpc, repVars>>

\* signal_death() under _death_mutex: the first caller wins.
SignalDeath(r) ==
    /\ At(r, "signal")
    /\ dead' = TRUE
    /\ Goto(r, IF dead THEN "fail" ELSE "swap")
    /\ SetPass(r, {}, FALSE)
    /\ UNCHANGED <<queue, xferVars, ownVars, gateVars, copyVars, aggVars, timeout, woken, cpc,
                   repVars>>

\* signal_death() under _queue_mutex: the queue is swapped into a local variable.
SwapQueue(r) ==
    /\ At(r, "swap")
    /\ queue' = <<>>
    /\ at' = [t \in Transfers |-> IF at[t] = "queue" THEN "hand" ELSE at[t]]
    /\ by' = [t \in Transfers |-> IF at[t] = "queue" THEN r ELSE by[t]]
    /\ Goto(r, "drain")
    /\ UNCHANGED <<dead, xferVars, gateVars, copyVars, aggVars, passVars, timeout, woken, cpc,
                   repVars>>

\* ... and failed transfer by transfer, after which every reactor is woken.
DrainQueue(r) ==
    /\ At(r, "drain")
    /\ \/ /\ \E t \in Hand(r) : Report(r, t, "failed")
          /\ UNCHANGED <<pc, woken>>
       \/ /\ Hand(r) = {}
          /\ Goto(r, "fail")
          /\ woken' = Reactors
          /\ UNCHANGED repVars
    /\ UNCHANGED <<poolVars, xferVars, ownVars, gateVars, copyVars, aggVars, passVars, timeout,
                   cpc>>

\* fail_all_pending(), first loop: `_pending` is drained; then `_in_flight` is visited.
FailPending(r) ==
    /\ At(r, "fail")
    /\ \/ /\ \E t \in Pending(r) :
               /\ at' = [at EXCEPT ![t] = "hand"]
               /\ Report(r, t, "failed")
          /\ UNCHANGED <<pc, todo>>
       \/ /\ Pending(r) = {}
          /\ todo' = [todo EXCEPT ![r] = InFlight(r)]
          /\ Goto(r, "failInFlight")
          /\ UNCHANGED <<at, repVars>>
    /\ UNCHANGED <<poolVars, xferVars, by, gateVars, copyVars, aggVars, timeout, woken, cpc,
                   budget, exhausted, deferred, completed, timer>>

\* Bug: the loop does not advance past a transfer it has failed.
FailInFlightAgain(r) ==
    /\ At(r, "failInFlight")
    /\ \E t \in todo[r] : Report(r, t, "failed")
    /\ UNCHANGED <<passVars, poolVars, xferVars, ownVars, gateVars, copyVars, aggVars, pc,
                   timeout, woken, cpc>>

\* Second loop: the transfers in flight are failed where they are ...
FailInFlight(r) ==
    /\ At(r, "failInFlight")
    /\ \E t \in todo[r] :
         /\ Report(r, t, "failed")
         /\ todo' = [todo EXCEPT ![r] = @ \ {t}]
    /\ UNCHANGED <<budget, exhausted, deferred, completed, timer, poolVars, xferVars, ownVars,
                   gateVars, copyVars, aggVars, pc, timeout, woken, cpc>>

\* ... and destroyed, hence detached, only by the final clear(); the thread ends.
ClearInFlight(r) ==
    /\ At(r, "failInFlight")
    /\ todo[r] = {}
    /\ Goto(r, "exited")
    /\ at' = [t \in Transfers |-> IF t \in InFlight(r) THEN "gone" ELSE at[t]]
    /\ by' = [t \in Transfers |-> IF t \in InFlight(r) THEN ReadOf[t] ELSE by[t]]
    /\ slotted' = slotted \ InFlight(r)
    /\ inUse' = [inUse EXCEPT ![r] = @ - Cardinality(InFlight(r) \cap slotted)]
    /\ buffered' = buffered \ InFlight(r)
    /\ lent' = [lent EXCEPT ![r] = @ \ (buffered \cap InFlight(r))]
    /\ UNCHANGED <<poolVars, xferVars, copyVars, aggVars, passVars, timeout, woken, cpc,
                   repVars>>

-------------------------------------------------------------------------------
(* The environment.                                                        *)

\* A retry's ready_at passes.
BackoffElapses(t) ==
    /\ t \in backingOff /\ at[t] = "pending"
    /\ backingOff' = backingOff \ {t}
    /\ UNCHANGED <<poolVars, attempt, overflowed, result, offset, ownVars, gateVars, copyVars,
                   aggVars, loopVars, woken, cpc, repVars>>

\* Bug: the recycle callback does not wake the reactor.
CopyCompletesSilently(t) ==
    /\ t \in copying
    /\ copying' = copying \ {t}
    /\ lent' = IF t \in buffered THEN lent ELSE [r \in Reactors |-> lent[r] \ {t}]
    /\ UNCHANGED <<poolVars, xferVars, ownVars, slotted, buffered, inUse, recorded, aggVars,
                   loopVars, woken, cpc, repVars>>

\* The H2D copy is done; the stream then runs recycle_callback(), if it was
\* launched, which returns the buffer and wakes the reactor it belongs to.
CopyCompletes(t) ==
    /\ t \in copying
    /\ copying' = copying \ {t}
    /\ IF t \in buffered
       THEN UNCHANGED <<lent, woken>>
       ELSE /\ lent' = [r \in Reactors |-> lent[r] \ {t}]
            /\ woken' = woken \cup {r \in Reactors : t \in lent[r]}
    /\ UNCHANGED <<poolVars, xferVars, ownVars, slotted, buffered, inUse, recorded, aggVars,
                   loopVars, cpc, repVars>>

-------------------------------------------------------------------------------
ReportStep(th) == RecordException(th) \/ CountDown(th) \/ Fulfil(th)

CallerStep(a) == \/ SubmitPread(a) \/ FailSubmitted(a) \/ WakeAllReactors(a)
                 \/ Get(a) \/ SyncAllEvents(a)

\* The steps of the I/O thread itself, outside libcurl and without injected errors.
LoopStep(r) == \/ LoopTop(r) \/ AdmitRetry(r) \/ ReadQueueShare(r) \/ TryPopQueued(r)
               \/ AdmitPopped(r) \/ ReturnToQueue(r) \/ PerformReturns(r)
               \/ ReapCompletion(r) \/ SettleHost(r) \/ StageDeviceCopy(r) \/ StageFails(r)
               \/ SettleFailed(r) \/ RequeueForRetry(r) \/ EnterPoll(r) \/ PollReturns(r)
               \/ SignalDeath(r) \/ SwapQueue(r) \/ DrainQueue(r)
               \/ FailPending(r) \/ FailInFlight(r) \/ ClearInFlight(r)

Next == \/ \E th \in Threads : ReportStep(th)
        \/ \E a \in Reads : CallerStep(a)
        \/ \E r \in Reactors : LoopStep(r) \/ MultiCallFails(r)
        \/ \E r \in Reactors, t \in Transfers : WriteCallback(r, t) \/ AttemptEnds(r, t)
        \/ \E t \in Transfers : BackoffElapses(t) \/ CopyCompletes(t)

Spec == Init /\ [][Next]_vars

\* Threads are scheduled; a poll returns at its timeout at the latest; a backoff
\* elapses; the CUDA driver finishes what is queued.  An attempt gets its data or
\* ends, by CURLOPT_TIMEOUT if by nothing else, although libcurl only sees it in
\* the passes that call perform(): hence strong fairness.
Fairness ==
    /\ \A th \in Threads : WF_vars(ReportStep(th))
    /\ \A a \in Reads : WF_vars(CallerStep(a) /\ ~SubmitPread(a))
    /\ \A r \in Reactors : WF_vars(LoopStep(r))
    /\ \A r \in Reactors, t \in Transfers : SF_vars(WriteCallback(r, t) \/ AttemptEnds(r, t))
    /\ \A t \in Transfers : WF_vars(BackoffElapses(t)) /\ WF_vars(CopyCompletes(t))

FairSpec == Spec /\ Fairness

-------------------------------------------------------------------------------
(* Properties.                                                             *)

Labels == {"top", "retries", "pool", "popped", "return", "perform", "reap", "settle", "poll",
           "signal", "swap", "drain", "fail", "failInFlight", "exited"}

\* Every variable has its type; in particular _subranges_left and the limiter's
\* count, unsigned in the code, never go below zero.
TypeOK ==
    /\ queue \in Seq(Transfers)
    /\ dead \in BOOLEAN
    /\ at \in [Transfers -> {"new", "queue", "hand", "pending", "inflight", "gone"}]
    /\ by \in [Transfers -> Threads]
    /\ attempt \in [Transfers -> Nat]
    /\ overflowed \subseteq Transfers
    /\ result \in [Transfers -> {"none", "ok", "retryable", "fatal"}]
    /\ backingOff \subseteq Transfers
    /\ offset \in [Transfers -> 0..SubrangeSize]
    /\ slotted \subseteq Transfers
    /\ buffered \subseteq Transfers
    /\ inUse \in [Reactors -> Nat]
    /\ lent \in [Reactors -> SUBSET Transfers]
    /\ copying \subseteq Transfers
    /\ recorded \subseteq Transfers
    /\ left \in [Reads -> Nat]
    /\ total \in [Reads -> Nat]
    /\ failed \subseteq Reads
    /\ promise \in [Reads -> {"pending", "value", "exception"}]
    /\ told \in [Transfers -> {"open", "ok", "failed"}]
    /\ pc \in [Reactors -> Labels]
    /\ todo \in [Reactors -> SUBSET Transfers]
    /\ budget \in [Reactors -> Nat]
    /\ exhausted \in [Reactors -> SUBSET Contexts]
    /\ deferred \subseteq Reactors
    /\ completed \subseteq Reactors
    /\ timer \subseteq Reactors
    /\ woken \subseteq Reactors
    /\ timeout \in [Reactors -> {"none", "zero", "busy", "backoff", "idle"}]
    /\ cpc \in [Reads -> {"start", "failing", "wake", "get", "sync", "done"}]
    /\ rpc \in [Threads -> {"idle", "failed", "countFailed", "complete", "fulfil"}]
    /\ rt \in [Threads -> Transfers \cup {NoTransfer}]

\* What the reports rest on, strong enough to be inductive.  A transfer is counted
\* once, by the thread that holds it; left is the number not yet counted; only the
\* thread that counts the last one fulfils the promise.
QueueHolds ==
    /\ \A i \in 1..Len(queue) : at[queue[i]] = "queue"
    /\ \A i, j \in 1..Len(queue) : queue[i] = queue[j] => i = j
    /\ \A a \in Reads : cpc[a] = "start" => \A t \in SubrangesOf(a) : at[t] = "new"

TodoHeld ==
    \A r \in Reactors : /\ pc[r] = "retries" => todo[r] \subseteq Pending(r)
                        /\ pc[r] = "failInFlight" => todo[r] \subseteq InFlight(r)

CountedOnce ==
    \A t \in Transfers : told[t] # "open" =>
        \/ at[t] = "gone"
        \/ at[t] = "hand" /\ rpc[by[t]] = "fulfil" /\ rt[by[t]] = t
        \/ /\ at[t] = "inflight" /\ by[t] \in Reactors
           /\ pc[by[t]] = "failInFlight" /\ t \notin todo[by[t]]

ReportsHeld ==
    \A th \in Threads : rpc[th] # "idle" =>
        /\ rt[th] \in Transfers
        /\ by[rt[th]] = th
        /\ \/ at[rt[th]] = "hand"
           \/ /\ at[rt[th]] = "inflight" /\ th \in Reactors
              /\ pc[th] = "failInFlight" /\ rt[th] \notin todo[th]
        /\ rpc[th] # "fulfil" => told[rt[th]] = "open"
        /\ rpc[th] = "countFailed" => ReadOf[rt[th]] \in failed

LeftIsOpen ==
    \A a \in Reads : left[a] = Cardinality({t \in SubrangesOf(a) : told[t] = "open"})

FulfilledByLast ==
    /\ \A th \in Threads : rpc[th] = "fulfil" =>
         left[ReadOf[rt[th]]] = 0 /\ promise[ReadOf[rt[th]]] = "pending"
    /\ \A th, th2 \in Threads :
         rpc[th] = "fulfil" /\ rpc[th2] = "fulfil" /\ ReadOf[rt[th]] = ReadOf[rt[th2]] => th = th2
    /\ \A a \in Reads : promise[a] # "pending" => left[a] = 0

FailuresRecorded ==
    \A a \in Reads : a \in failed <=>
        \/ \E t \in SubrangesOf(a) : told[t] = "failed"
        \/ \E th \in Threads : rpc[th] = "countFailed" /\ ReadOf[rt[th]] = a

ReportInv == /\ QueueHolds /\ TodoHeld /\ CountedOnce /\ ReportsHeld
             /\ LeftIsOpen /\ FulfilledByLast /\ FailuresRecorded

Contract == INSTANCE ParallelRead WITH filled <- offset, verdict <- told, outcome <- promise

\* The backend keeps the contract of pread(): every sub-range is counted once, the
\* promise is fulfilled once, after the last of them and with a value only if none
\* failed, and no write callback or rewind touches a sub-range already counted.
Implements == Contract!ReadSpec

\* The limiter's count is the number of transfers that hold one of its slots, it
\* stays within the reactor's slice, a transfer on the wire always has one, and
\* none is kept while waiting in the queue or in `_pending` or after destruction.
SlotsConserved ==
    /\ \A r \in Reactors :
         /\ inUse[r] = Cardinality({t \in slotted : by[t] = r})
         /\ Unlimited \/ inUse[r] <= Slice(r)
    /\ \A t \in Transfers :
         /\ at[t] = "inflight" => t \in slotted
         /\ at[t] \in {"new", "queue", "pending", "gone"} => t \notin slotted

\* A bounce buffer counts against its reactor's shard exactly as long as a transfer
\* of that reactor or a running copy uses it, and a shard never exceeds its cap.
BuffersConserved ==
    /\ \A r \in Reactors :
         /\ lent[r] = {t \in Transfers : t \in buffered /\ by[t] = r}
                        \cup {t \in lent[r] : t \in copying}
         /\ \/ Unlimited
            \/ \A c \in Contexts : Cardinality({t \in lent[r] : CtxOf[t] = c}) <= BufferCap
    /\ \A r, s \in Reactors : r # s => lent[r] \cap lent[s] = {}

\* A reactor asleep for the full idle timeout with no wakeup on its way.
FastAsleep(r) ==
    /\ pc[r] = "poll" /\ timeout[r] = "idle" /\ r \notin woken
    /\ InFlight(r) = {}
    /\ copying \cap lent[r] = {}

\* Work in the shared queue is never left to reactors that all sleep their idle
\* timeout with nothing to wake them, nor to reactors that have left their loop.
NoStrandedWork ==
    queue # <<>> => \/ \E a \in Reads : cpc[a] = "wake"
                    \/ \E r \in Reactors : /\ ~FastAsleep(r)
                                           /\ pc[r] \notin {"fail", "failInFlight", "exited"}

\* A reactor with retries waiting never polls past the earliest of their deadlines,
\* nor for longer than the busy timeout when one of them waits for a resource.
RetriesNotOverslept ==
    \A r \in Reactors : pc[r] = "poll" /\ Pending(r) # {} => timeout[r] # "idle"

\* Each attempt goes on the wire with a rewound callback context, after its backoff,
\* and within the number of attempts the retry policy allows.
AttemptsStartClean ==
    [][\A t \in Transfers : at[t] # "inflight" /\ at'[t] = "inflight" =>
         /\ offset[t] = 0 /\ t \notin overflowed /\ result[t] = "none" /\ t \notin backingOff
         /\ attempt[t] < MaxAttempts]_vars

\* A device read that returns a value has all its data on the device.
ReturnedDataIsOnDevice ==
    \A a \in Reads : cpc[a] = "done" /\ promise[a] = "value" => copying \cap SubrangesOf(a) = {}

\* Every read that was submitted returns to its caller, also when the pool dies.
ReadsReturn == \A a \in Reads : cpc[a] # "start" ~> cpc[a] = "done"

\* io_event_barrier.hpp says that once all sub-ranges report completion the caller
\* synchronizes, so that each thread's last H2D copy has drained.
ReturnedReadIsDrained ==
    \A a \in Reads : cpc[a] = "done" => copying \cap SubrangesOf(a) = {}

\* bounce_buffer_cache.hpp says recycle_now() is used on failure paths where no CUDA
\* work was submitted with the buffer.
CopiedBuffersAreHeld == \A t \in copying : \E r \in Reactors : t \in lent[r]

===============================================================================
