---------------------------- MODULE BounceBuffers ----------------------------
(***************************************************************************)
(* The bounce buffers of KvikIO: the process-wide BounceBufferPool that    *)
(* every thread may use, the cache of buffers that each reactor thread     *)
(* keeps in front of it, and the setting bounce_buffer_size(), which any   *)
(* thread may change at any time.                                          *)
(*                                                                         *)
(* A step is one critical section, one allocation, or one batch of         *)
(* deallocations outside the lock.  The driver may refuse an allocation or *)
(* a host callback; freeing is taken to succeed.                           *)
(***************************************************************************)
EXTENDS Integers, Sequences, FiniteSets, SequencesExt

CONSTANTS Users,      \* threads that take buffers straight from the pool
          Reactors,   \* threads that go through their shard of the cache
          Buffers,    \* allocations the driver can hand out
          Sizes,      \* values of bounce_buffer_size()
          Cap         \* the cap of a shard

Threads == Users \cup Reactors

ASSUME BounceAssumption ==
    /\ Users \cap Reactors = {}
    /\ Sizes \subseteq Nat \ {0} /\ Sizes # {}
    /\ Cap \in Nat \ {0}

VARIABLES
    setting,    \* defaults::bounce_buffer_size()
    poolSize,   \* _buffer_size
    poolFree,   \* _free_buffers
    bytes,      \* the true size of each allocation, 0 when it is not allocated
    asked,      \* the size each thread is about to allocate, 0 if none
    held,       \* the Buffers a thread has taken: memory, claimed size, task
    stale,      \* buffers it has detached and has still to free
    returning,  \* Buffers it has still to return to the pool
    shard,      \* the shard of each reactor: free list, checked_out, in_flight
    recycling,  \* Buffers of each reactor with a recycle callback enqueued
    task        \* the task each reactor finds a buffer for, NoTask if it has none

poolVars == <<poolSize, poolFree>>
threadVars == <<asked, held, stale, returning>>
cacheVars == <<shard, recycling, task>>
bounceVars == <<setting, poolVars, bytes, threadVars, cacheVars>>

\* A task: the bytes it puts into its buffer, and, as history, the least of them and of
\* every setting in force since pread() checked them.
NoTask == [size |-> 0, floor |-> 0]
Checked(n) == [size |-> n, floor |-> n]

\* A Buffer: its memory, the size it claims, the task it was given to.
Holding(b, n, need) == [mem |-> b, size |-> n, need |-> need]

BounceInit ==
    /\ setting \in Sizes
    /\ poolSize = setting /\ poolFree = {}
    /\ bytes = [b \in Buffers |-> 0]
    /\ asked = [t \in Threads |-> 0]
    /\ held = [t \in Threads |-> {}]
    /\ stale = [t \in Threads |-> {}]
    /\ returning = [t \in Threads |-> {}]
    /\ shard = [r \in Reactors |-> [free |-> <<>>, out |-> 0, flying |-> 0]]
    /\ recycling = [r \in Reactors |-> {}]
    /\ task = [r \in Reactors |-> NoTask]

\* defaults::set_bounce_buffer_size().  A task that was checked keeps its size; only the
\* history of what the settings allowed it takes note.
SetBounceBufferSize(n) ==
    /\ setting # n
    /\ setting' = n
    /\ task' = [r \in Reactors |-> [task[r] EXCEPT !.floor = Min({@, n})]]
    /\ UNCHANGED <<poolVars, bytes, threadVars, shard, recycling>>

-------------------------------------------------------------------------------
(* BounceBufferPool.                                                       *)

\* _ensure_buffer_size(), under the lock: what is detached, and what stays.
Detached == IF poolSize = setting THEN {} ELSE poolFree
RetainedAnyway == poolFree
Retained == poolFree \ Detached

Need(t) == IF t \in Reactors THEN task[t] ELSE NoTask

\* A thread has taken buf: its task, if it is a reactor, has found a buffer.
Take(t, buf) ==
    /\ held' = [held EXCEPT ![t] = @ \cup {buf}]
    /\ task' = [r \in Reactors |-> IF r = t THEN NoTask ELSE task[r]]

\* The critical section of get(): reuse a buffer of the current size if there is
\* one, otherwise leave the lock and allocate that many bytes.
LockedGet(t) ==
    /\ poolSize' = setting
    /\ stale' = [stale EXCEPT ![t] = @ \cup Detached]
    /\ \/ /\ Retained # {}
          /\ \E b \in Retained : /\ Take(t, Holding(b, setting, Need(t)))
                                 /\ poolFree' = Retained \ {b}
          /\ asked' = [asked EXCEPT ![t] = 0]
       \/ /\ Retained = {}
          /\ poolFree' = {}
          /\ asked' = [asked EXCEPT ![t] = setting]
          /\ UNCHANGED <<held, task>>

\* The critical section of put(): a buffer whose size is no longer the pool's is
\* freed outside the lock.
Accepts(n) == n = setting
LockedPut(t, buf) ==
    /\ poolSize' = setting
    /\ poolFree' = Retained \cup IF Accepts(buf.size) THEN {buf.mem} ELSE {}
    /\ stale' = [stale EXCEPT ![t] = @ \cup Detached \cup
                                     IF Accepts(buf.size) THEN {} ELSE {buf.mem}]

\* _deallocate_buffers(), outside the lock, before anything else the thread does.
Deallocate(t) ==
    /\ stale[t] # {}
    /\ bytes' = [b \in Buffers |-> IF b \in stale[t] THEN 0 ELSE bytes[b]]
    /\ stale' = [stale EXCEPT ![t] = {}]
    /\ UNCHANGED <<setting, poolVars, asked, held, returning, cacheVars>>

\* A reactor's try_get() has counted a buffer and is asking the pool for it.
Asking == -1

\* A thread with no call of the pool under way.
AtRest(t) == asked[t] = 0 /\ stale[t] = {} /\ returning[t] = {}

\* allocate(): the size was read under the lock.  A failure is thrown to the
\* caller; through the cache it first gives the place in the shard back.
GiveBack(s) == [s EXCEPT !.out = @ - 1]
Allocate(t) ==
    /\ asked[t] > 0 /\ stale[t] = {}
    /\ asked' = [asked EXCEPT ![t] = 0]
    /\ \/ \E b \in Buffers : /\ bytes[b] = 0
                             /\ bytes' = [bytes EXCEPT ![b] = asked[t]]
                             /\ Take(t, Holding(b, asked[t], Need(t)))
                             /\ UNCHANGED shard
       \/ /\ shard' = [r \in Reactors |-> IF r = t THEN GiveBack(shard[r]) ELSE shard[r]]
          /\ task' = [r \in Reactors |-> IF r = t THEN NoTask ELSE task[r]]
          /\ UNCHANGED <<bytes, held>>
    /\ UNCHANGED <<setting, poolVars, stale, returning, recycling>>

\* A thread of the application takes a buffer, uses it and returns it.
UserGet(t) ==
    /\ AtRest(t) /\ held[t] = {}
    /\ LockedGet(t)
    /\ UNCHANGED <<setting, bytes, returning, shard, recycling>>

UserPut(t) ==
    /\ AtRest(t)
    /\ \E buf \in held[t] : /\ LockedPut(t, buf)
                            /\ held' = [held EXCEPT ![t] = @ \ {buf}]
    /\ UNCHANGED <<setting, bytes, asked, returning, cacheVars>>

\* clear(): the free buffers leave under the lock, the size stays.
Clear(t) ==
    /\ AtRest(t) /\ held[t] = {} /\ poolFree # {}
    /\ stale' = [stale EXCEPT ![t] = poolFree]
    /\ poolFree' = {}
    /\ UNCHANGED <<setting, poolSize, bytes, asked, held, returning, cacheVars>>

-------------------------------------------------------------------------------
(* BounceBufferCachePerThreadAndContext, on a reactor thread with one CUDA *)
(* context, which is one shard.                                            *)

\* RemoteHandle::pread() refuses a task larger than the buffers are now.
Submit(r, n) ==
    /\ AtRest(r) /\ task[r] = NoTask
    /\ n <= setting
    /\ task' = [task EXCEPT ![r] = Checked(n)]
    /\ UNCHANGED <<setting, poolVars, bytes, threadVars, shard, recycling>>

\* Buffers at the end of the free list whose size is no longer the setting.
NoStaleTail(free) == {}
StaleTail(free) ==
    {i \in 1..Len(free) : \A j \in i..Len(free) : free[j].size # setting}
Usable(free) == SubSeq(free, 1, Len(free) - Cardinality(StaleTail(free)))
Total(s) == Len(s.free) + s.out + s.flying
CapReachedByOut(s, free) == s.out >= Cap
CapReached(s, free) == Total([s EXCEPT !.free = free]) >= Cap

\* try_get(): stale buffers at the end of the free list go back to the pool, then
\* a free buffer is reused, or the pool is asked for one, or the cap is reached
\* and the task waits.
TryGet(r) ==
    LET free == Usable(shard[r].free)
    IN  /\ AtRest(r) /\ task[r] # NoTask
        /\ returning' = [returning EXCEPT ![r] =
                            {shard[r].free[i] : i \in StaleTail(shard[r].free)}]
        /\ \/ /\ free # <<>>
              /\ Take(r, [Last(free) EXCEPT !.need = task[r]])
              /\ shard' = [shard EXCEPT ![r].free = Front(free), ![r].out = @ + 1]
              /\ UNCHANGED asked
           \/ /\ free = <<>> /\ ~CapReached(shard[r], free)
              /\ shard' = [shard EXCEPT ![r].free = free, ![r].out = @ + 1]
              /\ asked' = [asked EXCEPT ![r] = Asking]
              /\ UNCHANGED <<held, task>>
           \/ /\ free = <<>> /\ CapReached(shard[r], free)
              /\ shard' = [shard EXCEPT ![r].free = free]
              /\ UNCHANGED <<asked, held, task>>
        /\ UNCHANGED <<setting, poolVars, bytes, stale, recycling>>

\* The Buffers a reactor lets go of return to the pool one by one.
ReturnOne(r) ==
    /\ returning[r] # {} /\ stale[r] = {}
    /\ \E buf \in returning[r] : /\ LockedPut(r, buf)
                                 /\ returning' = [returning EXCEPT ![r] = @ \ {buf}]
    /\ UNCHANGED <<setting, bytes, asked, held, cacheVars>>

AskPool(r) ==
    /\ asked[r] = Asking /\ returning[r] = {} /\ stale[r] = {}
    /\ LockedGet(r)
    /\ UNCHANGED <<setting, bytes, returning, shard, recycling>>

Free(buf) == [buf EXCEPT !.need = NoTask]

\* recycle_now(): the transfer failed or was refused, nothing was copied.
RecycleNow(r) ==
    /\ AtRest(r)
    /\ \E buf \in held[r] :
          /\ shard' = [shard EXCEPT ![r].out = @ - 1, ![r].free = Append(@, Free(buf))]
          /\ held' = [held EXCEPT ![r] = @ \ {buf}]
    /\ UNCHANGED <<setting, poolVars, bytes, asked, stale, returning, recycling, task>>

\* recycle_after(): the buffer is in flight until the driver runs the callback.
\* If the callback cannot be enqueued the buffer leaves the shard for the pool;
\* in_flight, raised before the call, is lowered again.
RecycleAfter(r) ==
    /\ AtRest(r)
    /\ \E buf \in held[r] :
          /\ held' = [held EXCEPT ![r] = @ \ {buf}]
          /\ \/ /\ shard' = [shard EXCEPT ![r].out = @ - 1, ![r].flying = @ + 1]
                /\ recycling' = [recycling EXCEPT ![r] = @ \cup {Free(buf)}]
                /\ UNCHANGED returning
             \/ /\ shard' = [shard EXCEPT ![r] = GiveBack(@)]
                /\ returning' = [returning EXCEPT ![r] = {Free(buf)}]
                /\ UNCHANGED recycling
    /\ UNCHANGED <<setting, poolVars, bytes, asked, stale, task>>

\* recycle_callback(), on a thread of the driver.
RecycleCallback(r) ==
    /\ \E buf \in recycling[r] :
          /\ recycling' = [recycling EXCEPT ![r] = @ \ {buf}]
          /\ shard' = [shard EXCEPT ![r].flying = @ - 1, ![r].free = Append(@, buf)]
    /\ UNCHANGED <<setting, poolVars, bytes, threadVars, task>>

-------------------------------------------------------------------------------

UserStep(t) == UserGet(t) \/ UserPut(t) \/ Clear(t)
ReactorStep(r) == \/ \E n \in Sizes : Submit(r, n)
                  \/ TryGet(r) \/ ReturnOne(r) \/ AskPool(r)
                  \/ RecycleNow(r) \/ RecycleAfter(r) \/ RecycleCallback(r)

BounceNext == \/ \E n \in Sizes : SetBounceBufferSize(n)
              \/ \E t \in Threads : Deallocate(t) \/ Allocate(t)
              \/ \E t \in Users : UserStep(t)
              \/ \E r \in Reactors : ReactorStep(r)

BounceSpec == BounceInit /\ [][BounceNext]_bounceVars

-------------------------------------------------------------------------------
(* Properties.                                                             *)

\* The Buffers a thread or its shard owns.
OwnedBy(t) == held[t] \cup returning[t] \cup
    IF t \in Reactors THEN ToSet(shard[t].free) \cup recycling[t] ELSE {}

\* BounceBufferPool, Buffer::size(), try_get(): "All buffers in the pool have the same
\* size", however the setting changed while some of them were out; a Buffer claims what
\* was allocated; and a buffer cached under a smaller setting goes to a task checked
\* against a larger one only if the setting was smaller again after the check.
BufferSizesHold ==
    /\ \A b \in poolFree : bytes[b] = poolSize
    /\ \A t \in Threads : \A buf \in OwnedBy(t) :
          bytes[buf.mem] = buf.size /\ buf.need.floor <= buf.size

\* RemoteHandle::pread(): a device read "requires task_size <= KVIKIO_BOUNCE_BUFFER_SIZE",
\* so that a sub-range fits the one buffer its bytes are staged in.
TasksFitTheirBuffers ==
    \A r \in Reactors : \A buf \in held[r] : buf.need.size <= buf.size

\* Buffer, put(), _deallocate_buffers(): an allocation has exactly one owner until
\* it is freed: none is lost, none is freed or handed out twice.
OneOwner ==
    \A b \in Buffers :
        LET owners == (IF b \in poolFree THEN 1 ELSE 0)
                      + Cardinality({t \in Threads : b \in stale[t]})
                      + Cardinality({o \in Threads \X UNION {OwnedBy(t) : t \in Threads} :
                                        o[2] \in OwnedBy(o[1]) /\ o[2].mem = b})
        IN  owners = IF bytes[b] = 0 THEN 0 ELSE 1

\* Shard: free, checked-out and in-flight buffers together stay within the cap,
\* and the two counters say how many there really are, whatever was refused.
ShardIsCounted ==
    \A r \in Reactors :
        LET s == shard[r]
        IN  /\ Total(s) <= Cap
            /\ s.flying = Cardinality(recycling[r])
            /\ s.out = Cardinality(held[r]) + IF asked[r] = 0 THEN 0 ELSE 1

===============================================================================
