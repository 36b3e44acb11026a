----------------------------- MODULE LocalProofs -----------------------------
(***************************************************************************)
(* Proofs about the parts of local I/O besides the thread pool: each       *)
(* invariant of its component's specification, for every instance.         *)
(***************************************************************************)
EXTENDS BounceBuffers, CudaPools, PosixIo, Mmap, FileLifecycle, CuFileObjects,
        FiniteSetTheorems, TLAPS

-------------------------------------------------------------------------------
(* Counting owners.                                                        *)

\* A set with exactly one element, and one with none, counted.
LEMMA CountOne ==
    ASSUME NEW S, NEW x \in S, \A y \in S : y = x
    PROVE  Cardinality(S) = 1
  <1>1. S = {x}
    OBVIOUS
  <1> QED
    BY <1>1, FS_Singleton

LEMMA CountNone ==
    ASSUME NEW S, \A y \in S : FALSE
    PROVE  Cardinality(S) = 0
  <1>1. S = {}
    OBVIOUS
  <1> QED
    BY <1>1, FS_EmptySet

-------------------------------------------------------------------------------
(* Arithmetic.                                                             *)

LEMMA MinOfTwo ==
    ASSUME NEW a \in Int, NEW b \in Int
    PROVE  Min({a, b}) = IF a <= b THEN a ELSE b
  <1>1. PICK x \in {a, b} : \A y \in {a, b} : x <= y
    OBVIOUS
  <1>2. Min({a, b}) \in {a, b} /\ \A y \in {a, b} : Min({a, b}) <= y
    BY <1>1 DEF Min
  <1> QED
    BY <1>2

LEMMA DivMod ==
    ASSUME NEW n \in Nat, NEW d \in Nat \ {0}
    PROVE  /\ n \div d \in Nat /\ n % d \in 0..(d - 1)
           /\ d * (n \div d) <= n /\ n < d * (n \div d) + d
  <1>1. n \div d \in Nat
    OBVIOUS
  <1>2. n % d \in 0..(d - 1)
    OBVIOUS
  <1>3. d * (n \div d) <= n /\ n < d * (n \div d) + d
    OBVIOUS
  <1> QED
    BY <1>1, <1>2, <1>3

\* A multiple of d with a factor up to n \div d is at most n.
LEMMA MultipleBound ==
    ASSUME NEW n \in Nat, NEW d \in Nat \ {0}, NEW k \in 0..(n \div d)
    PROVE  k * d \in Nat /\ k * d <= n
  <1>1. n \div d \in Nat /\ d * (n \div d) <= n
    BY DivMod
  <1>2. k * d <= (n \div d) * d
    BY <1>1
  <1> QED
    BY <1>1, <1>2

LEMMA DivMonotonic ==
    ASSUME NEW n \in Nat, NEW m \in Nat, NEW d \in Nat \ {0}, m <= n
    PROVE  m \div d <= n \div d
  <1>1. m \div d \in Nat /\ n \div d \in Nat
    BY DivMod
  <1>2. SUFFICES ASSUME m \div d >= n \div d + 1 PROVE FALSE
    BY <1>1
  <1>3. d * (m \div d) >= d * (n \div d + 1)
    BY <1>1, <1>2
  <1> QED
    BY <1>1, <1>3, DivMod

-------------------------------------------------------------------------------
(* CuFileObjects: futures, batches and driver properties.                  *)

USE DEF futureVars, batchVars, driverVars

FuturesTyped ==
    /\ future \in [Futures -> [block : Blocks \cup {NoBlock}, synced : BOOLEAN]]
    /\ blocks \subseteq Blocks /\ busy \subseteq Blocks /\ failed \subseteq busy

\* The block of a future is allocated and nobody else's, and once the future has
\* waited for it, no operation uses it unless that wait failed: that is what lets a moved,
\* checked future be destroyed without a second wait.
FuturesOwn ==
    /\ busy \ failed \subseteq blocks
    /\ \A f \in Futures : future[f].block # NoBlock =>
          /\ future[f].block \in blocks
          /\ future[f].synced => future[f].block \notin busy \ failed
          /\ \A g \in Futures : f # g => future[f].block # future[g].block

BatchesTyped ==
    /\ batch \in [Batches -> [open : BOOLEAN, id : BatchIds \cup {NoBatchId}]]
    /\ batchIds \subseteq BatchIds
    /\ \A b \in Batches : batch[b].open => batch[b].id \in BatchIds

BatchesOwn ==
    /\ \A b \in Batches : batch[b].open =>
          /\ batch[b].id \in batchIds
          /\ \A c \in Batches : batch[c].open /\ batch[c].id = batch[b].id => b = c
    /\ \A id \in batchIds : \E b \in Batches : batch[b].open /\ batch[b].id = id

\* In compatibility mode from the start nothing is registered, so that a deregistration
\* that does nothing leaves nothing behind.
RegistrationsClaimed ==
    /\ buffers \in [registered : SUBSET Allocations, claimed : SUBSET Allocations,
                    preferred : BOOLEAN, changed : BOOLEAN]
    /\ buffers.registered \subseteq buffers.claimed \/ buffers.changed
    /\ buffers.preferred => buffers.registered = {} \/ buffers.changed

\* After an answered query the cache is initialised, so that no second query overwrites
\* it, and it holds the driver's values.
PropsTyped ==
    /\ props \in [initialized : BOOLEAN, answered : BOOLEAN, poll : BOOLEAN, thresh : Thresholds]
    /\ driver \in [poll : BOOLEAN, thresh : Thresholds]
PropsInv ==
    /\ PropsTyped
    /\ props.answered => props.initialized
    /\ PropsMirrorDriver

CuFileInv == FuturesTyped /\ FuturesOwn /\ BatchesTyped /\ BatchesOwn
             /\ RegistrationsClaimed /\ PropsInv

LEMMA CuFileInit_Inv == ASSUME CuFileInit PROVE CuFileInv
  <1>1. FuturesTyped /\ FuturesOwn
    BY DEF CuFileInit, FuturesTyped, FuturesOwn, NoFuture
  <1>2. BatchesTyped /\ BatchesOwn
    BY DEF CuFileInit, BatchesTyped, BatchesOwn, NoBatch
  <1>3. RegistrationsClaimed
    BY DEF CuFileInit, RegistrationsClaimed
  <1>4. PropsInv
    BY CuFileAssumption DEF CuFileInit, PropsInv, PropsTyped, PropsMirrorDriver, NoProps
  <1> QED
    BY <1>1, <1>2, <1>3, <1>4 DEF CuFileInv

LEMMA StartAsync_Inv ==
    ASSUME CuFileInv, NEW f \in Futures, NEW queued \in BOOLEAN, StartAsync(f, queued)
    PROVE  FuturesTyped' /\ FuturesOwn'
  <1>1. PICK b \in Blocks \ blocks :
          /\ blocks' = blocks \cup {b}
          /\ busy' = IF queued THEN busy \cup {b} ELSE busy
          /\ future' = [future EXCEPT ![f] = [block |-> b, synced |-> FALSE]]
          /\ failed' = failed
    BY DEF StartAsync
  <1>2. FuturesTyped'
    BY <1>1 DEF CuFileInv, FuturesTyped
  <1>3. FuturesOwn'
    BY <1>1 DEF CuFileInv, FuturesTyped, FuturesOwn
  <1> QED
    BY <1>2, <1>3

LEMMA StreamRuns_Inv ==
    ASSUME CuFileInv, NEW b \in Blocks, StreamRuns(b)
    PROVE  FuturesTyped' /\ FuturesOwn'
  BY DEF CuFileInv, FuturesTyped, FuturesOwn, StreamRuns

LEMMA CheckBytesDone_Inv ==
    ASSUME CuFileInv, NEW f \in Futures, NEW ok \in BOOLEAN, CheckBytesDone(f, ok)
    PROVE  FuturesTyped' /\ FuturesOwn'
  BY DEF CuFileInv, FuturesTyped, FuturesOwn, CheckBytesDone, Waits, Over

LEMMA DestroyFuture_Inv ==
    ASSUME CuFileInv, NEW f \in Futures, NEW ok \in BOOLEAN, DestroyFuture(f, ok)
    PROVE  FuturesTyped' /\ FuturesOwn'
  BY DEF CuFileInv, FuturesTyped, FuturesOwn, DestroyFuture, Waits, Over, NoFuture

LEMMA MoveFuture_Inv ==
    ASSUME CuFileInv, NEW f \in Futures, NEW g \in Futures, MoveFuture(f, g)
    PROVE  FuturesTyped' /\ FuturesOwn'
  BY DEF CuFileInv, FuturesTyped, FuturesOwn, MoveFuture, Moved, NoFuture

LEMMA OpenBatch_Inv ==
    ASSUME CuFileInv, NEW b \in Batches, OpenBatch(b)
    PROVE  BatchesTyped' /\ BatchesOwn'
  <1>1. PICK id \in BatchIds \ batchIds :
          /\ batch' = [batch EXCEPT ![b] = [open |-> TRUE, id |-> id]]
          /\ batchIds' = batchIds \cup {id}
    BY DEF OpenBatch
  <1>2. ~batch[b].open
    BY DEF OpenBatch, NoBatch
  <1>3. BatchesTyped'
    BY <1>1 DEF CuFileInv, BatchesTyped
  <1>4. BatchesOwn'
    BY <1>1, <1>2 DEF CuFileInv, BatchesTyped, BatchesOwn
  <1> QED
    BY <1>3, <1>4

LEMMA MoveBatch_Inv ==
    ASSUME CuFileInv, NEW b \in Batches, NEW c \in Batches, MoveBatch(b, c)
    PROVE  BatchesTyped' /\ BatchesOwn'
  <1>1. ~batch[b].open /\ batch[c].open /\ b # c
    BY DEF MoveBatch, NoBatch
  <1>2. /\ batch' \in [Batches -> [open : BOOLEAN, id : BatchIds \cup {NoBatchId}]]
        /\ batch'[b] = batch[c] /\ ~batch'[c].open
        /\ \A d \in Batches \ {b, c} : batch'[d] = batch[d]
        /\ batchIds' = batchIds
    BY <1>1 DEF CuFileInv, BatchesTyped, MoveBatch, NoBatch
  <1>3. BatchesTyped'
    BY <1>1, <1>2 DEF CuFileInv, BatchesTyped
  <1>4. BatchesOwn'
    BY <1>1, <1>2 DEF CuFileInv, BatchesOwn
  <1> QED
    BY <1>3, <1>4

LEMMA CloseBatch_Inv ==
    ASSUME CuFileInv, NEW b \in Batches, CloseBatch(b)
    PROVE  BatchesTyped' /\ BatchesOwn'
  <1>1. /\ batch' \in [Batches -> [open : BOOLEAN, id : BatchIds \cup {NoBatchId}]]
        /\ ~batch'[b].open
        /\ \A d \in Batches \ {b} : batch'[d] = batch[d]
        /\ batchIds' = batchIds \ {batch[b].id}
    BY DEF CuFileInv, BatchesTyped, CloseBatch, NoBatch
  <1>2. BatchesTyped'
    BY <1>1 DEF CuFileInv, BatchesTyped
  <1>3. BatchesOwn'
    BY <1>1 DEF CuFileInv, BatchesOwn, CloseBatch
  <1> QED
    BY <1>2, <1>3

LEMMA LazyInit_Inv ==
    ASSUME CuFileInv, NEW ok \in BOOLEAN, LazyInit(ok)
    PROVE  PropsInv'
  BY CuFileAssumption DEF CuFileInv, PropsInv, PropsTyped, PropsMirrorDriver, LazyInit, Initialized

LEMMA SetDriver_Inv ==
    ASSUME CuFileInv, NEW new \in [poll : BOOLEAN, thresh : Thresholds], NEW ok \in BOOLEAN,
           SetDriver(new, ok)
    PROVE  PropsInv'
  BY DEF CuFileInv, PropsInv, PropsTyped, PropsMirrorDriver, SetDriver, CachedProps

LEMMA RegisterBuffer_Inv ==
    ASSUME CuFileInv, NEW a \in Allocations, NEW ok \in BOOLEAN, NEW ignored \in BOOLEAN,
           RegisterBuffer(a, ok, ignored)
    PROVE  RegistrationsClaimed'
  BY DEF CuFileInv, RegistrationsClaimed, RegisterBuffer

LEMMA DeregisterBuffer_Inv ==
    ASSUME CuFileInv, NEW a \in Allocations, DeregisterBuffer(a)
    PROVE  RegistrationsClaimed'
  BY DEF CuFileInv, RegistrationsClaimed, DeregisterBuffer

LEMMA SetCompatMode_Inv ==
    ASSUME CuFileInv, SetCompatMode
    PROVE  RegistrationsClaimed'
  BY DEF CuFileInv, RegistrationsClaimed, SetCompatMode

\* What a step leaves alone stays as it should be.
LEMMA CuFileUnchanged ==
    ASSUME CuFileInv
    PROVE  /\ UNCHANGED futureVars => FuturesTyped' /\ FuturesOwn'
           /\ UNCHANGED batchVars => BatchesTyped' /\ BatchesOwn'
           /\ UNCHANGED driverVars => PropsInv'
           /\ UNCHANGED buffers => RegistrationsClaimed'
  <1>1. UNCHANGED futureVars => FuturesTyped' /\ FuturesOwn'
    BY DEF CuFileInv, FuturesTyped, FuturesOwn
  <1>2. UNCHANGED batchVars => BatchesTyped' /\ BatchesOwn'
    BY DEF CuFileInv, BatchesTyped, BatchesOwn
  <1>3. UNCHANGED driverVars => PropsInv'
    BY DEF CuFileInv, PropsInv, PropsTyped, PropsMirrorDriver
  <1>4. UNCHANGED buffers => RegistrationsClaimed'
    BY DEF CuFileInv, RegistrationsClaimed
  <1> QED
    BY <1>1, <1>2, <1>3, <1>4

LEMMA CuFileStep_Inv ==
    ASSUME CuFileInv, [CuFileNext \/ BufferNext]_cufileVars
    PROVE  CuFileInv'
  <1>1. ASSUME NEW f \in Futures, NEW queued \in BOOLEAN, StartAsync(f, queued) PROVE CuFileInv'
    BY <1>1, StartAsync_Inv, CuFileUnchanged DEF StartAsync, CuFileInv
  <1>2. ASSUME NEW f \in Futures, NEW ok \in BOOLEAN, CheckBytesDone(f, ok) PROVE CuFileInv'
    BY <1>2, CheckBytesDone_Inv, CuFileUnchanged DEF CheckBytesDone, CuFileInv
  <1>3. ASSUME NEW f \in Futures, NEW ok \in BOOLEAN, DestroyFuture(f, ok) PROVE CuFileInv'
    BY <1>3, DestroyFuture_Inv, CuFileUnchanged DEF DestroyFuture, CuFileInv
  <1>4. ASSUME NEW f \in Futures, NEW g \in Futures, MoveFuture(f, g) PROVE CuFileInv'
    BY <1>4, MoveFuture_Inv, CuFileUnchanged DEF MoveFuture, CuFileInv
  <1>5. ASSUME NEW b \in Blocks, StreamRuns(b) PROVE CuFileInv'
    BY <1>5, StreamRuns_Inv, CuFileUnchanged DEF StreamRuns, CuFileInv
  <1>6. ASSUME NEW b \in Batches, OpenBatch(b) PROVE CuFileInv'
    BY <1>6, OpenBatch_Inv, CuFileUnchanged DEF OpenBatch, CuFileInv
  <1>7. ASSUME NEW b \in Batches, CloseBatch(b) PROVE CuFileInv'
    BY <1>7, CloseBatch_Inv, CuFileUnchanged DEF CloseBatch, CuFileInv
  <1>8. ASSUME NEW b \in Batches, NEW c \in Batches, MoveBatch(b, c) PROVE CuFileInv'
    BY <1>8, MoveBatch_Inv, CuFileUnchanged DEF MoveBatch, CuFileInv
  <1>9. ASSUME NEW ok \in BOOLEAN, LazyInit(ok) PROVE CuFileInv'
    BY <1>9, LazyInit_Inv, CuFileUnchanged DEF LazyInit, CuFileInv
  <1>10. ASSUME NEW new \in [poll : BOOLEAN, thresh : Thresholds], NEW ok \in BOOLEAN,
                SetDriver(new, ok)
         PROVE  CuFileInv'
    BY <1>10, SetDriver_Inv, CuFileUnchanged DEF SetDriver, CuFileInv
  <1>11. ASSUME NEW ok \in BOOLEAN, NEW enable \in BOOLEAN, SetPollMode(enable, ok)
         PROVE  CuFileInv'
    <2>1. [poll |-> enable, thresh |-> props.thresh] \in [poll : BOOLEAN, thresh : Thresholds]
      BY DEF CuFileInv, PropsInv, PropsTyped
    <2> QED
      BY <1>10, <1>11, <2>1 DEF SetPollMode
  <1>12. ASSUME NEW ok \in BOOLEAN, NEW size \in Thresholds, SetPollThreshold(size, ok)
         PROVE  CuFileInv'
    <2>1. [poll |-> props.poll, thresh |-> size] \in [poll : BOOLEAN, thresh : Thresholds]
      BY DEF CuFileInv, PropsInv, PropsTyped
    <2> QED
      BY <1>10, <1>12, <2>1 DEF SetPollThreshold
  <1>13. CASE BufferNext
    <2>1. ASSUME NEW a \in Allocations, NEW ok \in BOOLEAN, NEW ignored \in BOOLEAN,
                 RegisterBuffer(a, ok, ignored)
          PROVE  CuFileInv'
      BY <2>1, RegisterBuffer_Inv, CuFileUnchanged DEF RegisterBuffer, CuFileInv
    <2>2. ASSUME NEW a \in Allocations, DeregisterBuffer(a) PROVE CuFileInv'
      BY <2>2, DeregisterBuffer_Inv, CuFileUnchanged DEF DeregisterBuffer, CuFileInv
    <2>3. CASE SetCompatMode
      BY <2>3, SetCompatMode_Inv, CuFileUnchanged DEF SetCompatMode, CuFileInv
    <2> QED
      BY <1>13, <2>1, <2>2, <2>3 DEF BufferNext
  <1>14. CASE UNCHANGED cufileVars
    BY <1>14, CuFileUnchanged DEF cufileVars, CuFileInv
  <1> QED
    BY <1>1, <1>2, <1>3, <1>4, <1>5, <1>6, <1>7, <1>8, <1>9, <1>11, <1>12, <1>13, <1>14
    DEF CuFileNext

LEMMA CuFileInvariant == CuFileSpec => []CuFileInv
  BY CuFileInit_Inv, CuFileStep_Inv, PTL DEF CuFileSpec

LEMMA BatchesCounted ==
    ASSUME BatchesOwn, NEW id \in BatchIds
    PROVE  Cardinality({b \in Batches : batch[b].open /\ batch[b].id = id})
               = IF id \in batchIds THEN 1 ELSE 0
  <1> DEFINE S == {b \in Batches : batch[b].open /\ batch[b].id = id}
  <1>1. CASE id \in batchIds
    <2>1. PICK b \in Batches : batch[b].open /\ batch[b].id = id
      BY <1>1 DEF BatchesOwn
    <2>2. b \in S /\ \A c \in S : c = b
      BY <2>1 DEF BatchesOwn
    <2> HIDE DEF S
    <2>3. Cardinality(S) = 1
      BY <2>2, CountOne
    <2> QED
      BY <1>1, <2>3 DEF S
  <1>2. CASE id \notin batchIds
    <2>1. \A c \in S : FALSE
      BY <1>2 DEF BatchesOwn
    <2> HIDE DEF S
    <2>2. Cardinality(S) = 0
      BY <2>1, CountNone
    <2> QED
      BY <1>2, <2>2 DEF S
  <1> QED
    BY <1>1, <1>2

\* StreamFuture, BatchHandle and buffer registration, for any number of futures, blocks,
\* batches and allocations: nothing in flight is freed unless the wait for it failed, nothing
\* is owned twice.
THEOREM CuFileObjectsAreOwned == CuFileSpec => []CuFileObjectsOwned
  <1>1. CuFileInv => CuFileObjectsOwned
    BY BatchesCounted DEF CuFileInv, FuturesOwn, RegistrationsClaimed, CuFileObjectsOwned
  <1> QED
    BY <1>1, CuFileInvariant, PTL

\* DriverProperties, for any driver settings: what the cache answers is what the driver
\* uses, whatever was refused, once the driver has answered the first query.
THEOREM PropertiesMirrorDriver == CuFileSpec => []PropsMirrorDriver
  <1>1. CuFileInv => PropsMirrorDriver
    BY DEF CuFileInv, PropsInv
  <1> QED
    BY <1>1, CuFileInvariant, PTL

-------------------------------------------------------------------------------
(* CudaPools: events and streams.                                          *)

CudaTyped ==
    /\ current \in [CudaThreads -> Contexts \cup {NoContext}]
    /\ home \in [Events -> Contexts \cup {NoContext}]
    /\ pools \in [Contexts -> Seq(Events)]
    /\ events \in [CudaThreads -> SUBSET (Events \X Contexts)]
    /\ creating \in [CudaThreads -> SUBSET ((Contexts \cup {NoContext}) \X CudaThreads)]

\* A held event is at home where it was taken, is free nowhere, and has one holder: the
\* last is what keeps it in one place when it is put back.
HeldAtHome == \A t \in CudaThreads : \A ev \in events[t] : home[ev[1]] = ev[2]
HeldNotFree ==
    \A t \in CudaThreads : \A ev \in events[t] :
        \A i \in DOMAIN pools[ev[2]] : pools[ev[2]][i] # ev[1]
HeldByOne ==
    \A t, u \in CudaThreads : \A ev \in events[t], ew \in events[u] :
        ew[1] = ev[1] => u = t /\ ew = ev
EventsHeldOnce == HeldAtHome /\ HeldNotFree /\ HeldByOne

EventsFreeOnce ==
    \A c \in Contexts : \A i \in DOMAIN pools[c] :
        /\ home[pools[c][i]] = c
        /\ \A j \in DOMAIN pools[c] : pools[c][j] = pools[c][i] => i = j

\* A thread creates a stream for the key it missed, which stays missing: only the
\* thread itself inserts under it, and its context does not change meanwhile.
StreamsMissed ==
    /\ \A t \in CudaThreads : \A key \in creating[t] : key = StreamKey(t) /\ Cached(key) = {}
    /\ ~refused

CudaInv == CudaTyped /\ EventsHeldOnce /\ EventsFreeOnce /\ StreamsMissed

LEMMA CudaInit_Inv == ASSUME CudaInit PROVE CudaInv
  <1>1. CudaTyped
    BY DEF CudaInit, CudaTyped
  <1> QED
    BY <1>1 DEF CudaInit, CudaInv, EventsHeldOnce, HeldAtHome, HeldNotFree, HeldByOne, EventsFreeOnce, StreamsMissed

LEMMA FrontOfPool ==
    ASSUME NEW s \in Seq(Events), s # <<>>
    PROVE  /\ Front(s) \in Seq(Events) /\ Last(s) \in Events
           /\ Len(s) \in DOMAIN s /\ Last(s) = s[Len(s)]
           /\ DOMAIN Front(s) = DOMAIN s \ {Len(s)}
           /\ \A i \in DOMAIN Front(s) : Front(s)[i] = s[i]
  BY DEF Front, Last

LEMMA AppendToPool ==
    ASSUME NEW s \in Seq(Events), NEW e \in Events
    PROVE  /\ Append(s, e) \in Seq(Events)
           /\ DOMAIN Append(s, e) = DOMAIN s \cup {Len(s) + 1} /\ Len(s) + 1 \notin DOMAIN s
           /\ Append(s, e)[Len(s) + 1] = e
           /\ \A i \in DOMAIN s : Append(s, e)[i] = s[i]
  OBVIOUS

LEMMA StreamsUntouched ==
    ASSUME StreamsMissed, UNCHANGED <<current, streams, creating, refused>>
    PROVE  StreamsMissed'
  BY DEF StreamsMissed, StreamKey, Cached

LEMMA Switch_Inv ==
    ASSUME CudaInv, NEW t \in CudaThreads, NEW c \in Contexts \cup {NoContext}, Switch(t, c)
    PROVE  CudaInv'
  <1>1. CudaTyped'
    BY DEF CudaInv, CudaTyped, Switch
  <1>2. EventsHeldOnce' /\ EventsFreeOnce'
    BY DEF CudaInv, EventsHeldOnce, HeldAtHome, HeldNotFree, HeldByOne, EventsFreeOnce, Switch
  <1>3. StreamsMissed'
    BY DEF CudaInv, CudaTyped, StreamsMissed, StreamKey, Cached, Switch
  <1> QED
    BY <1>1, <1>2, <1>3 DEF CudaInv

LEMMA GetEvent_Inv ==
    ASSUME CudaInv, NEW t \in CudaThreads, GetEvent(t)
    PROVE  CudaInv'
  <1> DEFINE ctx == current[t]
  <1>1. ctx \in Contexts /\ events[t] = {}
    BY DEF CudaInv, CudaTyped, GetEvent
  <1>2. StreamsMissed'
    BY StreamsUntouched DEF CudaInv, GetEvent
  <1>3. CASE /\ pools[ctx] # <<>>
             /\ events' = [events EXCEPT ![t] = {<<Last(pools[ctx]), ctx>>}]
             /\ pools' = [pools EXCEPT ![ctx] = Front(@)]
             /\ UNCHANGED home
    <2> DEFINE e == Last(pools[ctx])
    <2>1. /\ e \in Events /\ Front(pools[ctx]) \in Seq(Events)
          /\ Len(pools[ctx]) \in DOMAIN pools[ctx] /\ e = pools[ctx][Len(pools[ctx])]
          /\ DOMAIN Front(pools[ctx]) = DOMAIN pools[ctx] \ {Len(pools[ctx])}
          /\ \A i \in DOMAIN Front(pools[ctx]) : Front(pools[ctx])[i] = pools[ctx][i]
      BY <1>1, <1>3, FrontOfPool DEF CudaInv, CudaTyped
    <2>2. CudaTyped'
      BY <1>1, <1>3, <2>1 DEF CudaInv, CudaTyped, GetEvent
    <2>3. /\ pools'[ctx] = Front(pools[ctx])
          /\ \A c \in Contexts : c # ctx => pools'[c] = pools[c]
          /\ events'[t] = {<<e, ctx>>}
          /\ \A u \in CudaThreads : u # t => events'[u] = events[u]
          /\ home' = home
      BY <1>1, <1>3 DEF CudaInv, CudaTyped
    <2>4. home[e] = ctx /\ \A u \in CudaThreads : \A ew \in events[u] : ew[1] # e
      BY <1>1, <2>1 DEF CudaInv, CudaTyped, EventsHeldOnce, HeldAtHome, HeldNotFree, HeldByOne, EventsFreeOnce
    <2>5. \A i \in DOMAIN Front(pools[ctx]) : Front(pools[ctx])[i] # e
      BY <1>1, <2>1 DEF CudaInv, EventsFreeOnce
    <2> HIDE DEF e, ctx
    <2>6. EventsHeldOnce'
      <3>1. HeldAtHome'
        BY <2>3, <2>4 DEF CudaInv, EventsHeldOnce, HeldAtHome
      <3>2. ASSUME NEW u \in CudaThreads, NEW ew \in events'[u], NEW i \in DOMAIN pools'[ew[2]]
            PROVE  pools'[ew[2]][i] # ew[1]
        <4>1. CASE u = t
          BY <2>3, <2>5, <3>2, <4>1
        <4>2. CASE u # t
          <5>1. ew \in events[u] /\ ew[2] \in Contexts
            BY <2>3, <3>2, <4>2 DEF CudaInv, CudaTyped
          <5>2. i \in DOMAIN pools[ew[2]] /\ pools'[ew[2]][i] = pools[ew[2]][i]
            BY <2>1, <2>3, <3>2, <5>1
          <5> QED
            BY <5>1, <5>2 DEF CudaInv, EventsHeldOnce, HeldNotFree
        <4> QED
          BY <4>1, <4>2
      <3>3. HeldByOne'
        BY <2>3, <2>4 DEF CudaInv, EventsHeldOnce, HeldByOne
      <3> QED
        BY <3>1, <3>2, <3>3 DEF EventsHeldOnce, HeldNotFree
    <2>7. EventsFreeOnce'
      BY <1>1, <2>1, <2>3 DEF CudaInv, EventsFreeOnce
    <2> QED
      BY <1>2, <2>2, <2>6, <2>7 DEF CudaInv
  <1>4. CASE /\ \E e \in Events : /\ home[e] = NoContext
                                  /\ home' = [home EXCEPT ![e] = ctx]
                                  /\ events' = [events EXCEPT ![t] = {<<e, ctx>>}]
             /\ UNCHANGED pools
    <2>1. PICK e \in Events : /\ home[e] = NoContext
                              /\ home' = [home EXCEPT ![e] = ctx]
                              /\ events' = [events EXCEPT ![t] = {<<e, ctx>>}]
      BY <1>4
    <2>2. CudaTyped'
      BY <1>1, <1>4, <2>1 DEF CudaInv, CudaTyped, GetEvent
    <2>3. /\ \A u \in CudaThreads : \A ew \in events[u] : ew[1] # e
          /\ \A c \in Contexts : \A i \in DOMAIN pools[c] : pools[c][i] # e
      BY <2>1, CudaAssumption DEF CudaInv, CudaTyped, EventsHeldOnce, HeldAtHome, HeldNotFree, HeldByOne, EventsFreeOnce
    <2>4. EventsHeldOnce'
      <3>1. /\ events'[t] = {<<e, ctx>>} /\ home'[e] = ctx
            /\ \A u \in CudaThreads : u # t => events'[u] = events[u]
            /\ \A f \in Events : f # e => home'[f] = home[f]
        BY <2>1 DEF CudaInv, CudaTyped
      <3>2. \A u \in CudaThreads : \A ew \in events[u] : home'[ew[1]] = home[ew[1]]
        BY <2>3, <3>1 DEF CudaInv, CudaTyped
      <3>3. HeldAtHome'
        BY <3>1, <3>2 DEF CudaInv, EventsHeldOnce, HeldAtHome
      <3>4. HeldNotFree'
        BY <1>1, <1>4, <2>3, <3>1 DEF CudaInv, EventsHeldOnce, HeldNotFree
      <3>5. HeldByOne'
        BY <2>3, <3>1 DEF CudaInv, EventsHeldOnce, HeldByOne
      <3> QED
        BY <3>3, <3>4, <3>5 DEF EventsHeldOnce
    <2>5. EventsFreeOnce'
      BY <1>1, <1>4, <2>1, <2>3 DEF CudaInv, CudaTyped, EventsFreeOnce
    <2> QED
      BY <1>2, <2>2, <2>4, <2>5 DEF CudaInv
  <1> QED
    BY <1>3, <1>4 DEF GetEvent

LEMMA PutEvent_Inv ==
    ASSUME CudaInv, NEW t \in CudaThreads, PutEvent(t)
    PROVE  CudaInv'
  <1>1. StreamsMissed'
    BY StreamsUntouched DEF CudaInv, PutEvent
  <1>2. PICK ev \in events[t] :
          /\ events' = [events EXCEPT ![t] = @ \ {ev}]
          /\ \/ /\ pools' = [pools EXCEPT ![ev[2]] = Append(@, ev[1])]
                /\ UNCHANGED home
             \/ /\ home' = [home EXCEPT ![ev[1]] = NoContext]
                /\ UNCHANGED pools
    BY DEF PutEvent, FiledUnder
  <1>3. /\ ev \in Events \X Contexts
        /\ home[ev[1]] = ev[2]
        /\ \A u \in CudaThreads : \A ew \in events'[u] : ew \in events[u] /\ ew[1] # ev[1]
    BY <1>2 DEF CudaInv, CudaTyped, EventsHeldOnce, HeldAtHome, HeldNotFree, HeldByOne
  <1>4. CASE pools' = [pools EXCEPT ![ev[2]] = Append(@, ev[1])] /\ UNCHANGED home
    <2> DEFINE e == ev[1]
               c0 == ev[2]
    <2>1. e \in Events /\ c0 \in Contexts
      BY <1>3
    <2>2. /\ Append(pools[c0], e) \in Seq(Events)
          /\ DOMAIN Append(pools[c0], e) = DOMAIN pools[c0] \cup {Len(pools[c0]) + 1}
          /\ Len(pools[c0]) + 1 \notin DOMAIN pools[c0]
          /\ Append(pools[c0], e)[Len(pools[c0]) + 1] = e
          /\ \A i \in DOMAIN pools[c0] : Append(pools[c0], e)[i] = pools[c0][i]
      <3>1. pools[c0] \in Seq(Events)
        BY <2>1 DEF CudaInv, CudaTyped
      <3> QED
        BY <2>1, <3>1, AppendToPool
    <2>3. /\ pools'[c0] = Append(pools[c0], e)
          /\ \A c \in Contexts : c # c0 => pools'[c] = pools[c]
          /\ home' = home
      BY <1>4, <2>1 DEF CudaInv, CudaTyped
    <2>4. CudaTyped'
      BY <1>2, <1>4, <2>1, <2>2 DEF CudaInv, CudaTyped, PutEvent
    <2>5. \A i \in DOMAIN pools[c0] : pools[c0][i] # e
      BY DEF CudaInv, EventsHeldOnce, HeldAtHome, HeldNotFree, HeldByOne
    <2> HIDE DEF e, c0
    <2>6. EventsHeldOnce'
      <3>1. HeldAtHome' /\ HeldByOne'
        BY <1>3, <2>3 DEF CudaInv, EventsHeldOnce, HeldAtHome, HeldByOne
      <3>2. ASSUME NEW u \in CudaThreads, NEW ew \in events'[u], NEW i \in DOMAIN pools'[ew[2]]
            PROVE  pools'[ew[2]][i] # ew[1]
        <4>1. ew \in events[u] /\ ew[1] # e /\ ew[2] \in Contexts
          BY <1>3, <3>2 DEF CudaInv, CudaTyped, e
        <4>2. CASE ew[2] = c0 /\ i = Len(pools[c0]) + 1
          BY <2>2, <2>3, <4>1, <4>2
        <4>3. CASE ~(ew[2] = c0 /\ i = Len(pools[c0]) + 1)
          <5>1. i \in DOMAIN pools[ew[2]] /\ pools'[ew[2]][i] = pools[ew[2]][i]
            BY <2>2, <2>3, <3>2, <4>1, <4>3
          <5> QED
            BY <4>1, <5>1 DEF CudaInv, EventsHeldOnce, HeldNotFree
        <4> QED
          BY <4>2, <4>3
      <3> QED
        BY <3>1, <3>2 DEF EventsHeldOnce, HeldNotFree
    <2>7. EventsFreeOnce'
      <3>1. home[e] = c0
        BY <1>3 DEF e, c0
      <3>2. ASSUME NEW c \in Contexts, NEW i \in DOMAIN pools'[c]
            PROVE  /\ home'[pools'[c][i]] = c
                   /\ \A j \in DOMAIN pools'[c] : pools'[c][j] = pools'[c][i] => i = j
        <4>1. CASE c = c0
          BY SMTT(30), <2>2, <2>3, <2>5, <3>1, <3>2, <4>1 DEF CudaInv, EventsFreeOnce
        <4>2. CASE c # c0
          BY <2>3, <3>2, <4>2 DEF CudaInv, EventsFreeOnce
        <4> QED
          BY <4>1, <4>2
      <3> QED
        BY <3>2 DEF EventsFreeOnce
    <2> QED
      BY <1>1, <2>4, <2>6, <2>7 DEF CudaInv
  <1>5. CASE home' = [home EXCEPT ![ev[1]] = NoContext] /\ UNCHANGED pools
    <2>1. CudaTyped'
      BY <1>2, <1>3, <1>5 DEF CudaInv, CudaTyped, PutEvent
    <2>2. \A e \in Events : e # ev[1] => home'[e] = home[e]
      BY <1>5 DEF CudaInv, CudaTyped
    <2>3. \A c \in Contexts : \A i \in DOMAIN pools[c] : pools[c][i] \in Events /\ pools[c][i] # ev[1]
      BY <1>3 DEF CudaInv, CudaTyped, EventsHeldOnce, HeldAtHome, HeldNotFree, HeldByOne, EventsFreeOnce
    <2>4. EventsFreeOnce'
      BY <1>5, <2>2, <2>3 DEF CudaInv, EventsFreeOnce
    <2>5. \A u \in CudaThreads : \A ew \in events'[u] : home'[ew[1]] = home[ew[1]]
      BY <1>3, <2>2 DEF CudaInv, CudaTyped
    <2>6. EventsHeldOnce'
      BY <1>3, <1>5, <2>5 DEF CudaInv, EventsHeldOnce, HeldAtHome, HeldNotFree, HeldByOne
    <2> QED
      BY <1>1, <2>1, <2>4, <2>6 DEF CudaInv
  <1> QED
    BY <1>2, <1>4, <1>5

LEMMA MoveEvent_Inv ==
    ASSUME CudaInv, NEW t \in CudaThreads, NEW u \in CudaThreads, MoveEvent(t, u)
    PROVE  CudaInv'
  <1>1. StreamsMissed'
    BY StreamsUntouched DEF CudaInv, MoveEvent
  <1>2. CudaTyped'
    BY DEF CudaInv, CudaTyped, MoveEvent
  <1>3. /\ t # u /\ events'[t] = {} /\ events'[u] = events[t] /\ events[u] = {}
        /\ \A v \in CudaThreads \ {t, u} : events'[v] = events[v]
        /\ home' = home /\ pools' = pools
    BY DEF CudaInv, CudaTyped, MoveEvent
  <1>4. EventsFreeOnce'
    BY <1>3 DEF CudaInv, EventsFreeOnce
  <1>5. EventsHeldOnce'
    BY <1>3 DEF CudaInv, EventsHeldOnce, HeldAtHome, HeldNotFree, HeldByOne
  <1> QED
    BY <1>1, <1>2, <1>4, <1>5 DEF CudaInv

LEMMA MissStream_Inv ==
    ASSUME CudaInv, NEW t \in CudaThreads, MissStream(t)
    PROVE  CudaInv'
  <1>1. StreamKey(t) \in (Contexts \cup {NoContext}) \X CudaThreads
    BY DEF CudaInv, CudaTyped, StreamKey
  <1>2. CudaTyped'
    BY <1>1 DEF CudaInv, CudaTyped, MissStream
  <1>3. EventsHeldOnce' /\ EventsFreeOnce'
    BY DEF CudaInv, EventsHeldOnce, HeldAtHome, HeldNotFree, HeldByOne, EventsFreeOnce, MissStream
  <1>4. StreamsMissed'
    BY DEF CudaInv, CudaTyped, StreamsMissed, StreamKey, Cached, MissStream
  <1> QED
    BY <1>2, <1>3, <1>4 DEF CudaInv

LEMMA InsertStream_Inv ==
    ASSUME CudaInv, NEW t \in CudaThreads, InsertStream(t)
    PROVE  CudaInv'
  <1>1. CudaTyped'
    BY DEF CudaInv, CudaTyped, InsertStream
  <1>2. EventsHeldOnce' /\ EventsFreeOnce'
    BY DEF CudaInv, EventsHeldOnce, HeldAtHome, HeldNotFree, HeldByOne, EventsFreeOnce, InsertStream
  <1>3. PICK key \in creating[t] :
          \/ \E s \in Streams :
                /\ refused' = (refused \/ Cached(key) # {})
                /\ streams' = streams \cup IF Cached(key) = {} THEN {[key |-> key, stream |-> s]} ELSE {}
          \/ UNCHANGED <<streams, refused>>
    BY DEF InsertStream
  <1>4. key = <<current[t], t>> /\ Cached(key) = {}
    BY DEF CudaInv, StreamsMissed, StreamKey
  <1>5. ~refused'
    BY <1>3, <1>4 DEF CudaInv, StreamsMissed
  <1>6. /\ creating'[t] = {} /\ current' = current
        /\ \A u \in CudaThreads \ {t} : creating'[u] = creating[u]
    BY DEF CudaInv, CudaTyped, InsertStream
  <1>7. \A s \in streams' : s \in streams \/ s.key = key
    BY <1>3
  <1>8. ASSUME NEW u \in CudaThreads, NEW k \in creating'[u]
        PROVE  k = StreamKey(u)' /\ Cached(k)' = {}
    <2>1. u # t /\ k \in creating[u] /\ k = <<current[u], u>> /\ Cached(k) = {}
      BY <1>6, <1>8 DEF CudaInv, StreamsMissed, StreamKey
    <2>2. k # key
      BY <1>4, <2>1
    <2> QED
      BY <1>6, <1>7, <2>1, <2>2 DEF StreamKey, Cached
  <1> QED
    BY <1>1, <1>2, <1>5, <1>8 DEF CudaInv, StreamsMissed

LEMMA CudaStep_Inv ==
    ASSUME CudaInv, [CudaNext]_cudaVars
    PROVE  CudaInv'
  <1>1. CASE CudaNext
    BY <1>1, Switch_Inv, GetEvent_Inv, PutEvent_Inv, MoveEvent_Inv, MissStream_Inv,
       InsertStream_Inv
    DEF CudaNext
  <1>2. CASE UNCHANGED cudaVars
    BY <1>2 DEF cudaVars, CudaInv, CudaTyped, EventsHeldOnce, HeldAtHome, HeldNotFree, HeldByOne, EventsFreeOnce, StreamsMissed,
                StreamKey, Cached
  <1> QED
    BY <1>1, <1>2

\* CudaEventPool, StreamCachePerThreadAndContext, for any number of threads, contexts,
\* events and streams: objects stay with the context they were made in, in one place,
\* and no stream is created twice for a key.
THEOREM CudaObjectsAtHome == CudaSpec => []CudaObjectsStayHome
  <1>1. CudaInv => CudaObjectsStayHome
    BY DEF CudaInv, EventsHeldOnce, HeldAtHome, HeldNotFree, HeldByOne, EventsFreeOnce, StreamsMissed, CudaObjectsStayHome
  <1> QED
    BY <1>1, CudaInit_Inv, CudaStep_Inv, PTL DEF CudaSpec

-------------------------------------------------------------------------------
(* Mmap: what the handles own.                                             *)

MmapTyped ==
    /\ mmap \in [MmapHandles -> [init : BOOLEAN, fd : Tokens \cup {NoToken},
                                 addr : Tokens \cup {NoToken}, fileSize : Nat,
                                 initialOffset : Nat, initialSize : Nat,
                                 mapOffset : Nat, mapSize : Nat]]
    /\ fds \subseteq Tokens /\ maps \subseteq Tokens

DescriptorsOwned ==
    /\ \A h \in MmapHandles : mmap[h].fd # NoToken =>
          /\ mmap[h].fd \in fds
          /\ \A g \in MmapHandles : mmap[g].fd = mmap[h].fd => g = h
    /\ \A fd \in fds : \E h \in MmapHandles : mmap[h].fd = fd

MappingsOwned ==
    /\ \A h \in MmapHandles : mmap[h].addr # NoToken =>
          /\ mmap[h].addr \in maps
          /\ \A g \in MmapHandles : mmap[g].addr = mmap[h].addr => g = h
    /\ \A a \in maps : \E h \in MmapHandles : mmap[h].addr = a

MmapOwnInv == MmapTyped /\ DescriptorsOwned /\ MappingsOwned

\* The members of a handle that the constructor has filled in.
LEMMA MappedTyped ==
    ASSUME NEW fd \in Tokens, NEW addr \in Tokens, NEW len \in FileLengths,
           NEW size \in MapSizes, NEW off \in MapOffsets, MapAllowed(len, size, off)
    PROVE  /\ Down(off) \in Nat /\ Down(off) <= off
           /\ MappedSize(len, size, off) \in Nat
           /\ Mapped(fd, addr, len, size, off) \in
                 [init : BOOLEAN, fd : Tokens \cup {NoToken}, addr : Tokens \cup {NoToken},
                  fileSize : Nat, initialOffset : Nat, initialSize : Nat,
                  mapOffset : Nat, mapSize : Nat]
  <1>1. len \in Nat /\ off \in Nat /\ PageBytes \in Nat \ {0}
    BY MmapAssumption
  <1>2. off % PageBytes \in Nat /\ off % PageBytes <= off
    <2>1. off % PageBytes \in Nat
      BY <1>1, DivMod
    <2>2. off % PageBytes <= off
      BY <1>1
    <2> QED
      BY <2>1, <2>2
  <1>3. Down(off) \in Nat /\ Down(off) <= off
    BY <1>1, <1>2 DEF Down
  <1>4. MappedSize(len, size, off) \in Nat
    BY <1>1, MmapAssumption DEF MapAllowed, MappedSize
  <1>5. (MappedSize(len, size, off) + (off - Down(off))) % Word \in Nat
    <2>1. MappedSize(len, size, off) + (off - Down(off)) \in Nat
      BY <1>1, <1>3, <1>4
    <2> QED
      BY <2>1, MmapAssumption, DivMod
  <1> QED
    BY <1>1, <1>3, <1>4, <1>5 DEF Mapped

LEMMA Construct_Own ==
    ASSUME MmapOwnInv, NEW h \in MmapHandles, NEW len \in FileLengths, NEW size \in MapSizes,
           NEW off \in MapOffsets, Construct(h, len, size, off)
    PROVE  MmapOwnInv'
  <1>1. mmap[h].fd = NoToken /\ mmap[h].addr = NoToken
    BY DEF Construct, Closed
  <1>2. PICK fd \in Tokens \ fds :
          \/ /\ mmap' = [mmap EXCEPT ![h] = [Closed EXCEPT !.init = TRUE, !.fd = fd, !.initialOffset = off]]
             /\ fds' = fds \cup {fd} /\ UNCHANGED maps
          \/ /\ MapAllowed(len, size, off)
             /\ \E addr \in Tokens \ maps :
                   /\ mmap' = [mmap EXCEPT ![h] = Mapped(fd, addr, len, size, off)]
                   /\ maps' = maps \cup {addr}
             /\ fds' = fds \cup {fd}
    BY DEF Construct
  <1>3. CASE /\ mmap' = [mmap EXCEPT ![h] = [Closed EXCEPT !.init = TRUE, !.fd = fd, !.initialOffset = off]]
             /\ fds' = fds \cup {fd} /\ UNCHANGED maps
    <2>5. off \in Nat
      BY MmapAssumption
    <2>1. MmapTyped'
      BY <1>3, <2>5 DEF MmapOwnInv, MmapTyped, Closed
    <2>2. /\ mmap'[h].fd = fd /\ mmap'[h].addr = NoToken
          /\ \A g \in MmapHandles \ {h} : mmap'[g] = mmap[g]
      BY <1>3 DEF MmapOwnInv, MmapTyped, Closed
    <2>3. DescriptorsOwned'
      BY <1>1, <1>3, <2>2, MmapAssumption DEF MmapOwnInv, MmapTyped, DescriptorsOwned
    <2>4. MappingsOwned'
      BY <1>1, <1>3, <2>2, MmapAssumption DEF MmapOwnInv, MmapTyped, MappingsOwned
    <2> QED
      BY <2>1, <2>3, <2>4 DEF MmapOwnInv
  <1>4. CASE /\ MapAllowed(len, size, off)
             /\ \E addr \in Tokens \ maps :
                   /\ mmap' = [mmap EXCEPT ![h] = Mapped(fd, addr, len, size, off)]
                   /\ maps' = maps \cup {addr}
             /\ fds' = fds \cup {fd}
    <2>1. PICK addr \in Tokens \ maps :
             /\ mmap' = [mmap EXCEPT ![h] = Mapped(fd, addr, len, size, off)]
             /\ maps' = maps \cup {addr}
      BY <1>4
    <2>2. MmapTyped'
      BY <1>4, <2>1, MappedTyped DEF MmapOwnInv, MmapTyped
    <2>3. /\ mmap'[h].fd = fd /\ mmap'[h].addr = addr
          /\ \A g \in MmapHandles \ {h} : mmap'[g] = mmap[g]
      BY <2>1 DEF MmapOwnInv, MmapTyped, Mapped
    <2>4. DescriptorsOwned'
      BY <1>1, <1>4, <2>3, MmapAssumption DEF MmapOwnInv, MmapTyped, DescriptorsOwned
    <2>5. MappingsOwned'
      BY <1>1, <2>1, <2>3, MmapAssumption DEF MmapOwnInv, MmapTyped, MappingsOwned
    <2> QED
      BY <2>2, <2>4, <2>5 DEF MmapOwnInv
  <1> QED
    BY <1>2, <1>3, <1>4

\* A handle gives up what it owns.
LEMMA Released_Own ==
    ASSUME MmapOwnInv, NEW h \in MmapHandles, mmap' = [mmap EXCEPT ![h] = Closed],
           maps' = maps \ {mmap[h].addr}, fds' = fds \ {mmap[h].fd}
    PROVE  MmapOwnInv'
  <1>1. MmapTyped'
    BY DEF MmapOwnInv, MmapTyped, Closed
  <1>2. /\ mmap'[h].fd = NoToken /\ mmap'[h].addr = NoToken
        /\ \A g \in MmapHandles \ {h} : mmap'[g] = mmap[g]
    BY DEF MmapOwnInv, MmapTyped, Closed
  <1>3. DescriptorsOwned'
    BY <1>2, MmapAssumption DEF MmapOwnInv, MmapTyped, DescriptorsOwned
  <1>4. MappingsOwned'
    BY <1>2, MmapAssumption DEF MmapOwnInv, MmapTyped, MappingsOwned
  <1> QED
    BY <1>1, <1>3, <1>4 DEF MmapOwnInv

LEMMA MoveMmap_Own ==
    ASSUME MmapOwnInv, NEW h \in MmapHandles, NEW g \in MmapHandles, MoveMmap(h, g)
    PROVE  MmapOwnInv'
  <1>1. MmapTyped'
    BY DEF MmapOwnInv, MmapTyped, MoveMmap, AfterMove, Closed
  <1>2. /\ g # h /\ mmap'[g].fd = NoToken /\ mmap'[g].addr = NoToken
        /\ mmap'[h] = mmap[g]
        /\ \A f \in MmapHandles \ {h, g} : mmap'[f] = mmap[f]
        /\ maps' = maps \ {mmap[h].addr} /\ fds' = fds \ {mmap[h].fd}
    BY DEF MmapOwnInv, MmapTyped, MoveMmap, AfterMove, Closed
  <1>3. DescriptorsOwned'
    BY <1>2, MmapAssumption DEF MmapOwnInv, MmapTyped, DescriptorsOwned
  <1>4. MappingsOwned'
    BY <1>2, MmapAssumption DEF MmapOwnInv, MmapTyped, MappingsOwned
  <1> QED
    BY <1>1, <1>3, <1>4 DEF MmapOwnInv

LEMMA MmapOwnKept ==
    ASSUME MmapOwnInv, UNCHANGED <<mmap, fds, maps>>
    PROVE  MmapOwnInv'
  BY DEF MmapOwnInv, MmapTyped, DescriptorsOwned, MappingsOwned

LEMMA MmapInit_Own == ASSUME MmapInit PROVE MmapOwnInv
  BY DEF MmapInit, Closed, MmapOwnInv, MmapTyped, DescriptorsOwned, MappingsOwned

LEMMA MmapStep_Own ==
    ASSUME MmapOwnInv, [MmapNext]_mmapVars
    PROVE  MmapOwnInv'
  <1>1. ASSUME NEW h \in MmapHandles, NEW len \in FileLengths, NEW size \in MapSizes,
               NEW off \in MapOffsets, Construct(h, len, size, off)
        PROVE  MmapOwnInv'
    BY <1>1, Construct_Own
  <1>2. ASSUME NEW h \in MmapHandles, CloseMmap(h) \/ DestroyMmap(h) PROVE MmapOwnInv'
    <2>1. mmap' = [mmap EXCEPT ![h] = Closed]
      BY <1>2 DEF CloseMmap, DestroyMmap, AfterClose
    <2> QED
      BY <1>2, <2>1, Released_Own DEF CloseMmap, DestroyMmap
  <1>3. ASSUME NEW h \in MmapHandles, NEW g \in MmapHandles, MoveMmap(h, g) PROVE MmapOwnInv'
    BY <1>3, MoveMmap_Own
  <1>4. ASSUME NEW h \in MmapHandles, NEW size, NEW off, NEW step, NEW device, NEW ats,
               MmapRead(h, size, off, device, ats) \/ MmapPread(h, size, off, step, device, ats)
        PROVE  MmapOwnInv'
    BY <1>4, MmapOwnKept DEF MmapRead, MmapPread, StartRead
  <1>5. ASSUME NEW n, SetMapBounce(n) PROVE MmapOwnInv'
    BY <1>5, MmapOwnKept DEF SetMapBounce
  <1>6. ASSUME NEW c, CopyChunk(c) PROVE MmapOwnInv'
    BY <1>6, MmapOwnKept DEF CopyChunk
  <1>7. CASE EndRead \/ UNCHANGED mmapVars
    BY <1>7, MmapOwnKept DEF EndRead, mmapVars
  <1> QED
    BY <1>1, <1>2, <1>3, <1>4, <1>5, <1>6, <1>7 DEF MmapNext

\* MmapHandle, for any number of handles, files and ranges: each descriptor and each
\* mapping belongs to exactly one handle through every move, close and refusal.
THEOREM MmapOwnership == MmapSpec => []MmapOwnsOnce
  <1>1. ASSUME MmapOwnInv, NEW fd \in Tokens
        PROVE  Cardinality({h \in MmapHandles : mmap[h].fd = fd}) = IF fd \in fds THEN 1 ELSE 0
    <2> DEFINE S == {h \in MmapHandles : mmap[h].fd = fd}
    <2>1. fd # NoToken
      BY MmapAssumption
    <2>2. fd \in fds => \E h \in S : \A g \in S : g = h
      BY <1>1, <2>1 DEF MmapOwnInv, DescriptorsOwned
    <2>3. fd \notin fds => \A g \in S : FALSE
      BY <1>1, <2>1 DEF MmapOwnInv, DescriptorsOwned
    <2> HIDE DEF S
    <2>4. Cardinality(S) = IF fd \in fds THEN 1 ELSE 0
      BY <2>2, <2>3, CountOne, CountNone
    <2> QED
      BY <2>4 DEF S
  <1>2. ASSUME MmapOwnInv, NEW a \in Tokens
        PROVE  Cardinality({h \in MmapHandles : mmap[h].addr = a}) = IF a \in maps THEN 1 ELSE 0
    <2> DEFINE S == {h \in MmapHandles : mmap[h].addr = a}
    <2>1. a # NoToken
      BY MmapAssumption
    <2>2. a \in maps => \E h \in S : \A g \in S : g = h
      BY <1>2, <2>1 DEF MmapOwnInv, MappingsOwned
    <2>3. a \notin maps => \A g \in S : FALSE
      BY <1>2, <2>1 DEF MmapOwnInv, MappingsOwned
    <2> HIDE DEF S
    <2>4. Cardinality(S) = IF a \in maps THEN 1 ELSE 0
      BY <2>2, <2>3, CountOne, CountNone
    <2> QED
      BY <2>4 DEF S
  <1>3. MmapOwnInv => MmapOwnsOnce
    BY <1>1, <1>2 DEF MmapOwnsOnce
  <1> QED
    BY <1>3, MmapInit_Own, MmapStep_Own, PTL DEF MmapSpec

-------------------------------------------------------------------------------
(* Mmap: what a read copies.                                               *)

\* The range a handle maps starts at or after its page-aligned offset; unless its end wraps
\* around size_t it ends where the mapping ends and lies in the file.
MappedRange(m) ==
    m.init => /\ m.mapOffset <= m.initialOffset
              /\ m.fileSize < Word /\ m.initialOffset < Word /\ m.initialSize < Word
              /\ \/ m.fileSize = 0 /\ m.initialSize = 0
                 \/ m.initialOffset + m.initialSize < Word =>
                       /\ m.mapOffset + m.mapSize = m.initialOffset + m.initialSize
                       /\ m.initialOffset + m.initialSize <= m.fileSize
RangesMapped == \A h \in MmapHandles : MappedRange(mmap[h])

ReadType == [h : MmapHandles, off : Nat, n : Nat \ {0}, task : Nat \ {0}, floor : Nat,
             device : BOOLEAN, ats : BOOLEAN]

\* The read under way lies in the mapping of its handle.
ReadInRange ==
    /\ mmap[reading.h].mapOffset <= reading.off
    /\ reading.off + reading.n <= mmap[reading.h].mapOffset + mmap[reading.h].mapSize

\* Every byte of it has arrived, went past a bounce buffer, or is part of a chunk still to
\* be copied; this, and not what has arrived alone, is what each copy preserves.
Covers(c, i) == c.at <= i /\ i < c.at + c.n
ChunksInRange ==
    \A c \in tasks : /\ c.at \in Nat /\ c.n \in Nat \ {0} /\ c.at + c.n <= reading.n
                     /\ c.n <= reading.task
BytesAccounted ==
    /\ \A b \in got : \E i \in 0..(reading.n - 1) : b = <<reading.off + i, i>>
    /\ \A i \in 0..(reading.n - 1) :
          <<reading.off + i, i>> \in got \/ i \in spilled \/ \E c \in tasks : Covers(c, i)
TouchesInRange ==
    \A a \in touched : /\ a \in Int
                       /\ a >= Source(mmap[reading.h], reading.off)
                       /\ a < Source(mmap[reading.h], reading.off) + reading.n

\* A chunk is larger than its bounce buffer only when the task size is larger than the
\* least setting since the read began.
SpillsExplained ==
    /\ reading.floor <= bounceSize
    /\ spilled # {} => reading.device /\ ~reading.ats /\ reading.floor < reading.task

ReadHolds == ReadInRange /\ ChunksInRange /\ BytesAccounted /\ TouchesInRange /\ SpillsExplained
NoWrap == reading.off + reading.n < Word

ReadInv == /\ bounceSize \in Nat \ {0}
           /\ reading # NoRead => reading \in ReadType /\ mmap[reading.h].init
           /\ reading # NoRead /\ NoWrap => ReadHolds
           /\ reading = NoRead => tasks = {}

MmapReadInv == MmapOwnInv /\ RangesMapped /\ ReadInv

LEMMA PrefaultInRange ==
    ASSUME NEW buf \in Nat, NEW size \in Nat \ {0}, NEW a \in Prefault(buf, size)
    PROVE  a \in Int /\ buf <= a /\ a < buf + size
  <1> DEFINE lead == Up(buf) - buf
             rest == IF lead > 0 /\ size >= lead THEN size - lead ELSE size
  <1>1. PageBytes \in Nat \ {0}
    BY MmapAssumption
  <1>2. (buf + PageBytes - 1) % PageBytes \in 0..(PageBytes - 1)
    <2>1. buf + PageBytes - 1 \in Nat
      BY <1>1
    <2> QED
      BY <1>1, <2>1, DivMod
  <1>3. lead \in Nat /\ Up(buf) = buf + lead
    BY <1>1, <1>2 DEF Up, Down
  <1>4. CASE a = buf
    BY <1>4
  <1>5. CASE ~(lead >= rest) /\ \E k \in 0..((rest - 1) \div PageBytes) : a = Up(buf) + k * PageBytes
    <2>1. PICK k \in 0..((rest - 1) \div PageBytes) : a = Up(buf) + k * PageBytes
      BY <1>5
    <2>2. rest \in Nat /\ rest - 1 \in Nat /\ lead + rest <= size
      BY <1>3, <1>5
    <2> HIDE DEF lead, rest
    <2>3. k * PageBytes \in Nat /\ k * PageBytes <= rest - 1
      BY <1>1, <2>2, MultipleBound
    <2> QED
      BY <1>3, <2>1, <2>2, <2>3
  <1> QED
    BY <1>4, <1>5 DEF Prefault

LEMMA RangesMapped_Construct ==
    ASSUME MmapReadInv, NEW h \in MmapHandles, NEW len \in FileLengths,
           NEW size \in MapSizes, NEW off \in MapOffsets, Construct(h, len, size, off)
    PROVE  RangesMapped'
  <1>1. PICK fd \in Tokens :
          \/ mmap' = [mmap EXCEPT ![h] = [Closed EXCEPT !.init = TRUE, !.fd = fd, !.initialOffset = off]]
          \/ /\ len > 0 /\ MapAllowed(len, size, off)
             /\ \E addr \in Tokens : mmap' = [mmap EXCEPT ![h] = Mapped(fd, addr, len, size, off)]
    BY DEF Construct
  <1>2. len \in Nat /\ off \in Nat /\ len < Word /\ off < Word /\ Word \in Nat \ {0}
    BY MmapAssumption
  <1>3. CASE mmap' = [mmap EXCEPT ![h] = [Closed EXCEPT !.init = TRUE, !.fd = fd, !.initialOffset = off]]
    BY <1>2, <1>3 DEF MmapReadInv, MmapOwnInv, MmapTyped, RangesMapped, MappedRange, Closed
  <1>4. ASSUME NEW addr \in Tokens, MapAllowed(len, size, off),
               mmap' = [mmap EXCEPT ![h] = Mapped(fd, addr, len, size, off)]
        PROVE  RangesMapped'
    <2> DEFINE n == MappedSize(len, size, off)
    <2>1. Down(off) \in Nat /\ Down(off) <= off /\ n \in Nat
      BY <1>4, MappedTyped
    <2>2. n < Word /\ (off + n < Word => off + n <= len)
      <3>1. CASE size = ToTheEnd
        BY <1>2, <2>1, <3>1 DEF MappedSize
      <3>2. CASE size # ToTheEnd
        <4>1. n = size /\ n < Word
          BY <1>2, <3>2, MmapAssumption DEF MappedSize
        <4>2. off + n < Word => (off + n) % Word = off + n
          BY <1>2, <2>1, <4>1
        <4> QED
          BY <1>4, <4>1, <4>2 DEF MapAllowed
      <3> QED
        BY <3>1, <3>2
    <2>3. MappedRange(Mapped(fd, addr, len, size, off))
      <3> DEFINE r == Mapped(fd, addr, len, size, off)
      <3>1. /\ r.mapOffset = Down(off) /\ r.initialOffset = off /\ r.initialSize = n
            /\ r.mapSize = (n + (off - Down(off))) % Word /\ r.fileSize = len
        BY DEF Mapped
      <3> HIDE DEF n, r
      <3>2. MappedRange(r)
        <4>1. r.mapOffset <= r.initialOffset
          BY <1>2, <2>1, <2>2, <3>1
        <4>2. ASSUME r.initialOffset + r.initialSize < Word
              PROVE  r.mapOffset + r.mapSize = r.initialOffset + r.initialSize
          <5>1. n + (off - Down(off)) \in 0..(Word - 1)
            BY <1>2, <2>1, <3>1, <4>2
          <5>2. (n + (off - Down(off))) % Word = n + (off - Down(off))
            BY <1>2, <5>1
          <5> QED
            BY <1>2, <2>1, <3>1, <5>2
        <4>3. /\ r.initialOffset + r.initialSize < Word => r.initialOffset + r.initialSize <= r.fileSize
              /\ r.fileSize < Word /\ r.initialOffset < Word /\ r.initialSize < Word
          BY <1>2, <2>1, <2>2, <3>1
        <4> QED
          BY <4>1, <4>2, <4>3 DEF MappedRange
      <3> QED
        BY <3>2 DEF r
    <2> QED
      BY <1>4, <2>3 DEF MmapReadInv, MmapOwnInv, MmapTyped, RangesMapped
  <1> QED
    BY <1>1, <1>3, <1>4

\* What happens to handles that are not read leaves the read alone.
LEMMA ReadKept ==
    ASSUME ReadInv, UNCHANGED <<bounceSize, mmapReadVars>>,
           reading # NoRead => mmap'[reading.h] = mmap[reading.h]
    PROVE  ReadInv'
  BY DEF ReadInv, NoWrap, ReadHolds, ReadInRange, ChunksInRange, BytesAccounted, TouchesInRange,
         SpillsExplained, Covers, Source, NoRead, mmapReadVars

\* set_bounce_buffer_size() while a read is under way.
LEMMA SetMapBounce_Read ==
    ASSUME MmapReadInv, NEW b \in MapBounceSizes, SetMapBounce(b)
    PROVE  ReadInv'
  <1>1. /\ bounceSize' = b /\ b \in Nat \ {0} /\ bounceSize \in Nat \ {0}
        /\ mmap' = mmap /\ tasks' = tasks /\ got' = got /\ spilled' = spilled /\ touched' = touched
    BY MmapAssumption DEF SetMapBounce, MmapReadInv, ReadInv
  <1>2. CASE reading = NoRead
    BY <1>1, <1>2 DEF SetMapBounce, MmapReadInv, ReadInv
  <1>3. CASE reading # NoRead
    <2>1. reading' = [reading EXCEPT !.floor = Min({@, b})] /\ reading \in ReadType /\ mmap[reading.h].init
      BY <1>3 DEF SetMapBounce, MmapReadInv, ReadInv
    <2>2. /\ reading'.h = reading.h /\ reading'.off = reading.off /\ reading'.n = reading.n
          /\ reading'.task = reading.task /\ reading'.device = reading.device /\ reading'.ats = reading.ats
          /\ reading'.floor = Min({reading.floor, b}) /\ reading.floor \in Nat /\ reading.task \in Nat
      BY <2>1 DEF ReadType
    <2>5. /\ reading'.floor \in Nat /\ reading'.floor <= b /\ reading'.floor <= reading.floor
          /\ reading' \in ReadType
      <3>1. reading'.floor \in Nat /\ reading'.floor <= b /\ reading'.floor <= reading.floor
        BY <1>1, <2>2, MinOfTwo
      <3> QED
        BY <2>1, <2>2, <3>1 DEF ReadType
    <2>3. ASSUME NoWrap PROVE ReadHolds'
      <3>1. ReadHolds
        BY <1>3, <2>3 DEF MmapReadInv, ReadInv
      <3>4. SpillsExplained'
        BY <1>1, <2>2, <2>5, <3>1 DEF ReadHolds, SpillsExplained
      <3> QED
        BY <1>1, <2>2, <3>1, <3>4
        DEF ReadHolds, ReadInRange, ChunksInRange, BytesAccounted, TouchesInRange, Covers, Source
    <2>4. reading' # NoRead
      BY <2>5 DEF NoRead, ReadType
    <2> QED
      BY <1>1, <2>1, <2>2, <2>3, <2>4, <2>5 DEF ReadInv, NoWrap
  <1> QED
    BY <1>2, <1>3

LEMMA StartRead_Read ==
    ASSUME MmapReadInv, NEW h \in MmapHandles, NEW size \in MapReadSizes,
           NEW off \in MapReadOffsets, NEW step \in Nat \ {0}, NEW device \in BOOLEAN, NEW ats \in BOOLEAN,
           StartRead(h, size, off, step, device, ats)
    PROVE  ReadInv'
  <1> DEFINE n == ReadLength(mmap[h], size, off)
             m == mmap[h]
  <1>1. /\ reading' = [h |-> h, off |-> off, n |-> n, task |-> step, floor |-> bounceSize,
                       device |-> device, ats |-> ats]
        /\ tasks' = {[at |-> k * step, n |-> Min({step, n - k * step})] : k \in 0..((n - 1) \div step)}
        /\ got' = {} /\ spilled' = {} /\ touched' = {} /\ mmap' = mmap /\ bounceSize' = bounceSize
        /\ ReadAllowed(m, size, off) /\ n > 0
    BY DEF StartRead
  <1>2. /\ off \in Nat /\ step \in Nat \ {0} /\ Word \in Nat \ {0} /\ bounceSize \in Nat \ {0}
        /\ size \in Nat \/ size = ToTheEnd
        /\ m.fileSize \in Nat /\ m.initialOffset \in Nat /\ m.initialSize \in Nat
        /\ m.mapOffset \in Nat /\ m.mapSize \in Nat
    BY MmapAssumption DEF MmapReadInv, MmapOwnInv, MmapTyped, ReadInv
  <1>3. n \in Nat \ {0}
    BY <1>1, <1>2 DEF ReadLength
  <1>4. MappedRange(m) /\ m.init
    BY <1>1 DEF MmapReadInv, RangesMapped, ReadAllowed
  <1>15. reading' # NoRead /\ reading' \in ReadType /\ mmap'[reading'.h].init
    <2> HIDE DEF n
    <2> QED
      BY <1>1, <1>2, <1>3, <1>4 DEF NoRead, ReadType
  <1>16. SUFFICES ASSUME NoWrap' PROVE ReadHolds'
    BY <1>1, <1>2, <1>15 DEF ReadInv
  <1>5. off + n < Word
    BY <1>1, <1>16 DEF NoWrap
  <1>6. (off + n) % Word = off + n
    <2> HIDE DEF n
    <2> QED
      BY <1>2, <1>3, <1>5
  <1>17. m.initialOffset + m.initialSize < Word
    <2> DEFINE last == m.initialOffset + m.initialSize
    <2>1. off + n <= last % Word /\ m.initialOffset <= off
      BY <1>1, <1>6 DEF ReadAllowed
    <2>2. last \in Nat /\ m.initialOffset < Word /\ m.initialSize < Word
      BY <1>2, <1>4 DEF MappedRange
    <2>3. SUFFICES ASSUME last >= Word PROVE FALSE
      BY <1>2, <2>2
    <2>4. last - Word \in 0..(Word - 1)
      BY <1>2, <2>2, <2>3
    <2>5. last % Word = last - Word
      BY <1>2, <2>2, <2>4
    <2>6. last - Word < m.initialOffset
      BY <1>2, <2>2
    <2> HIDE DEF last, n
    <2> QED
      BY <1>2, <1>3, <2>1, <2>2, <2>4, <2>5, <2>6
  <1>7. off + n <= m.initialOffset + m.initialSize
    <2>1. (m.initialOffset + m.initialSize) % Word = m.initialOffset + m.initialSize
      BY <1>2, <1>17
    <2> QED
      BY <1>1, <1>6, <2>1 DEF ReadAllowed
  <1>8. m.fileSize # 0
    BY <1>1, <1>2, <1>3, <1>4, <1>7, <1>17 DEF ReadAllowed, MappedRange
  <1>9. ReadInRange'
    BY <1>1, <1>2, <1>3, <1>4, <1>7, <1>8, <1>17 DEF ReadInRange, MappedRange, ReadAllowed
  <1>10. ASSUME NEW k \in 0..((n - 1) \div step)
         PROVE  /\ k * step \in Nat /\ Min({step, n - k * step}) \in Nat \ {0}
                /\ k * step + Min({step, n - k * step}) <= n /\ Min({step, n - k * step}) <= step
                /\ Min({step, n - k * step}) = IF step <= n - k * step THEN step ELSE n - k * step
    <2> HIDE DEF n
    <2>3. n - 1 \in Nat
      BY <1>3
    <2>1. k * step \in Nat /\ k * step <= n - 1
      BY <1>2, <2>3, MultipleBound
    <2>2. Min({step, n - k * step}) = IF step <= n - k * step THEN step ELSE n - k * step
      BY <1>2, <1>3, <2>1, MinOfTwo
    <2> QED
      BY <1>2, <1>3, <2>1, <2>2
  <1>11. ChunksInRange'
    <2> HIDE DEF n
    <2>1. ASSUME NEW c \in tasks'
          PROVE  c.at \in Nat /\ c.n \in Nat \ {0} /\ c.at + c.n <= n /\ c.n <= step
      <3>1. PICK k \in 0..((n - 1) \div step) :
              c = [at |-> k * step, n |-> Min({step, n - k * step})]
        BY <1>1, <2>1
      <3> QED
        BY <1>10, <3>1
    <2>2. reading'.n = n /\ reading'.task = step
      BY <1>1
    <2> QED
      BY <2>1, <2>2 DEF ChunksInRange
  <1>12. ASSUME NEW i \in 0..(n - 1)
         PROVE  \E c \in tasks' : Covers(c, i)
    <2> HIDE DEF n
    <2> DEFINE k == i \div step
               c == [at |-> k * step, n |-> Min({step, n - k * step})]
    <2>1. i \in Nat /\ n - 1 \in Nat /\ i <= n - 1
      BY <1>3
    <2>2. k \in Nat /\ k <= (n - 1) \div step
      BY <1>2, <2>1, DivMod, DivMonotonic
    <2>3. step * k <= i /\ i < step * k + step
      BY <1>2, <2>1, DivMod
    <2>4. k \in 0..((n - 1) \div step)
      BY <1>2, <2>1, <2>2, DivMod
    <2> HIDE DEF k
    <2>5. Covers(c, i)
      <3> DEFINE at == k * step
                 len == Min({step, n - at})
      <3>1. at \in Nat /\ len = IF step <= n - at THEN step ELSE n - at
        BY <1>10, <2>4
      <3>2. at <= i /\ i < at + step
        BY <1>2, <2>2, <2>3
      <3>3. c.at = at /\ c.n = len
        OBVIOUS
      <3> HIDE DEF at, len, c
      <3> QED
        BY <1>2, <1>3, <2>1, <3>1, <3>2, <3>3 DEF Covers
    <2>6. c \in tasks'
      BY <1>1, <2>4
    <2> QED
      BY <2>5, <2>6
  <1>13. BytesAccounted'
    <2> HIDE DEF n
    <2> QED
      BY <1>1, <1>12 DEF BytesAccounted
  <1>14. TouchesInRange'
    BY <1>1 DEF TouchesInRange
  <1>18. SpillsExplained'
    BY <1>1, <1>2 DEF SpillsExplained
  <1> QED
    BY <1>9, <1>11, <1>13, <1>14, <1>18 DEF ReadHolds

LEMMA CopyChunk_Read ==
    ASSUME MmapReadInv, NEW c \in tasks, CopyChunk(c)
    PROVE  ReadInv'
  <1> DEFINE m == mmap[reading.h]
             src == Source(m, reading.off) + c.at
  <1>0. reading # NoRead /\ reading' = reading /\ bounceSize' = bounceSize /\ mmap' = mmap
    BY DEF MmapReadInv, ReadInv, CopyChunk
  <1> SUFFICES ASSUME NoWrap PROVE ReadHolds'
    BY <1>0 DEF MmapReadInv, ReadInv, NoWrap
  <1>1. /\ ReadInRange /\ ChunksInRange /\ BytesAccounted /\ TouchesInRange /\ SpillsExplained
        /\ reading \in ReadType /\ bounceSize \in Nat \ {0}
    BY <1>0 DEF MmapReadInv, ReadInv, ReadHolds
  <1>2. PICK kept \in {Staged(c), c.n} :
        /\ tasks' = tasks \ {c}
        /\ got' = got \cup {<<m.mapOffset + src + i, c.at + i>> : i \in 0..(kept - 1)}
        /\ spilled' = spilled \cup {c.at + i : i \in Staged(c)..(c.n - 1)}
        /\ touched' = touched \cup IF reading.device /\ reading.ats THEN Prefault(src, c.n) ELSE {}
        /\ mmap' = mmap /\ reading' = reading
    BY DEF CopyChunk
  <1>3. /\ m.mapOffset \in Nat /\ m.mapSize \in Nat /\ m.initialOffset \in Nat
        /\ reading.off \in Nat /\ reading.n \in Nat \ {0} /\ m.mapOffset <= reading.off
        /\ c.at \in Nat /\ c.n \in Nat \ {0} /\ c.at + c.n <= reading.n /\ c.n <= reading.task
        /\ reading.task \in Nat /\ reading.floor \in Nat /\ reading.floor <= bounceSize
    BY <1>1 DEF ReadType, ReadInRange, ChunksInRange, SpillsExplained, MmapReadInv, MmapOwnInv, MmapTyped
  <1>12. /\ Staged(c) \in Nat /\ Staged(c) <= c.n
         /\ Staged(c) < c.n => reading.device /\ ~reading.ats /\ bounceSize < c.n
    BY <1>1, <1>3, MinOfTwo DEF Staged
  <1>13. kept \in Nat /\ Staged(c) <= kept /\ kept <= c.n
    BY <1>2, <1>3, <1>12
  <1>4. /\ Source(m, reading.off) = reading.off - m.mapOffset
        /\ src \in Nat /\ m.mapOffset + src = reading.off + c.at
    BY <1>3 DEF Source
  <1>5. ReadInRange' /\ ChunksInRange'
    BY <1>1, <1>2 DEF ReadInRange, ChunksInRange
  <1>6. got' = got \cup {<<reading.off + c.at + i, c.at + i>> : i \in 0..(kept - 1)}
    BY <1>2, <1>4
  <1> HIDE DEF src, m
  <1>7. ASSUME NEW b \in got' PROVE \E i \in 0..(reading.n - 1) : b = <<reading.off + i, i>>
    <2>1. CASE b \in got
      BY <1>1, <2>1 DEF BytesAccounted
    <2>2. CASE b \notin got
      <3>1. PICK j \in 0..(kept - 1) : b = <<reading.off + c.at + j, c.at + j>>
        BY <1>6, <1>7, <2>2
      <3>2. c.at + j \in 0..(reading.n - 1) /\ b = <<reading.off + (c.at + j), c.at + j>>
        BY <1>3, <1>13, <3>1
      <3> QED
        BY <3>2
    <2> QED
      BY <2>1, <2>2
  <1>8. ASSUME NEW i \in 0..(reading.n - 1)
        PROVE  <<reading.off + i, i>> \in got' \/ i \in spilled' \/ \E d \in tasks' : Covers(d, i)
    <2>1. CASE Covers(c, i)
      <3>1. i - c.at \in 0..(c.n - 1)
        BY <1>3, <2>1 DEF Covers
      <3>2. /\ reading.off + c.at + (i - c.at) = reading.off + i
            /\ c.at + (i - c.at) = i
        BY <1>3
      <3>3. CASE i - c.at < kept
        <4>1. i - c.at \in 0..(kept - 1)
          BY <1>13, <3>1, <3>3
        <4>2. <<reading.off + i, i>> \in {<<reading.off + c.at + j, c.at + j>> : j \in 0..(kept - 1)}
          BY <3>2, <4>1
        <4> QED
          BY <1>6, <4>2
      <3>4. CASE ~(i - c.at < kept)
        <4>1. i - c.at \in Staged(c)..(c.n - 1)
          BY <1>12, <1>13, <3>1, <3>4
        <4>2. i \in {c.at + j : j \in Staged(c)..(c.n - 1)}
          BY <3>2, <4>1
        <4> QED
          BY <1>2, <4>2
      <3> QED
        BY <3>3, <3>4
    <2>2. CASE ~Covers(c, i)
      BY <1>1, <1>2, <2>2 DEF BytesAccounted
    <2> QED
      BY <2>1, <2>2
  <1>9. BytesAccounted'
    BY <1>2, <1>7, <1>8 DEF BytesAccounted
  <1>10. ASSUME NEW a \in touched'
         PROVE  a \in Int /\ a >= Source(m, reading.off) /\ a < Source(m, reading.off) + reading.n
    <2>1. CASE a \in touched
      BY <1>1, <2>1 DEF TouchesInRange, m
    <2>2. CASE a \in Prefault(src, c.n)
      <3>1. a \in Int /\ src <= a /\ a < src + c.n
        BY <1>3, <1>4, <2>2, PrefaultInRange
      <3> QED
        BY <1>3, <1>4, <3>1 DEF src
    <2> QED
      BY <1>2, <1>10, <2>1, <2>2
  <1>11. TouchesInRange'
    BY <1>2, <1>10 DEF TouchesInRange, m, Source
  <1>14. SpillsExplained'
    <2>1. CASE Staged(c) = c.n
      <3>1. spilled' = spilled
        BY <1>2, <1>3, <2>1
      <3> QED
        BY <1>0, <1>1, <3>1 DEF SpillsExplained
    <2>2. CASE Staged(c) # c.n
      <3>1. reading.device /\ ~reading.ats /\ reading.floor < reading.task
        BY <1>1, <1>3, <1>12, <2>2
      <3> QED
        BY <1>0, <1>3, <3>1 DEF SpillsExplained
    <2> QED
      BY <2>1, <2>2
  <1> QED
    BY <1>5, <1>9, <1>11, <1>14 DEF ReadHolds

LEMMA MmapInit_Read == ASSUME MmapInit PROVE MmapReadInv
  BY MmapInit_Own, MmapAssumption DEF MmapInit, MmapReadInv, ReadInv, RangesMapped, MappedRange, Closed

LEMMA MmapStep_Read ==
    ASSUME MmapReadInv, [MmapNext]_mmapVars
    PROVE  MmapReadInv'
  <1>1. MmapOwnInv'
    BY MmapStep_Own DEF MmapReadInv
  <1>2. ASSUME NEW h \in MmapHandles, NEW len \in FileLengths, NEW size \in MapSizes,
               NEW off \in MapOffsets, Construct(h, len, size, off)
        PROVE  RangesMapped' /\ ReadInv'
    <2>1. RangesMapped'
      BY <1>2, RangesMapped_Construct
    <2>2. ASSUME reading # NoRead PROVE mmap'[reading.h] = mmap[reading.h]
      <3>1. reading.h \in MmapHandles /\ reading.h # h
        BY <1>2, <2>2 DEF MmapReadInv, ReadInv, ReadType, Construct, Closed
      <3> QED
        BY <1>2, <3>1 DEF Construct, MmapReadInv, MmapOwnInv, MmapTyped
    <2> QED
      BY <1>2, <2>1, <2>2, ReadKept DEF MmapReadInv, Construct
  <1>3. ASSUME NEW h \in MmapHandles, CloseMmap(h) \/ DestroyMmap(h)
        PROVE  RangesMapped' /\ ReadInv'
    <2>1. mmap' = [mmap EXCEPT ![h] = Closed] /\ reading.h # h
      BY <1>3 DEF CloseMmap, DestroyMmap, AfterClose, Idle
    <2>2. RangesMapped'
      BY <2>1 DEF MmapReadInv, MmapOwnInv, MmapTyped, RangesMapped, MappedRange, Closed
    <2>3. reading # NoRead => mmap'[reading.h] = mmap[reading.h]
      BY <2>1 DEF MmapReadInv, MmapOwnInv, MmapTyped, ReadInv, ReadType
    <2> QED
      BY <1>3, <2>2, <2>3, ReadKept DEF MmapReadInv, CloseMmap, DestroyMmap
  <1>4. ASSUME NEW h \in MmapHandles, NEW g \in MmapHandles, MoveMmap(h, g)
        PROVE  RangesMapped' /\ ReadInv'
    <2>1. mmap' = [mmap EXCEPT ![h] = mmap[g], ![g] = Closed] /\ reading.h # h /\ reading.h # g
      BY <1>4 DEF MoveMmap, Idle
    <2>2. RangesMapped'
      BY <2>1 DEF MmapReadInv, MmapOwnInv, MmapTyped, RangesMapped, MappedRange, Closed
    <2>3. reading # NoRead => mmap'[reading.h] = mmap[reading.h]
      BY <2>1 DEF MmapReadInv, MmapOwnInv, MmapTyped, ReadInv, ReadType
    <2> QED
      BY <1>4, <2>2, <2>3, ReadKept DEF MmapReadInv, MoveMmap
  <1>5. ASSUME UNCHANGED mmap PROVE RangesMapped'
    BY <1>5 DEF MmapReadInv, RangesMapped
  <1>6. ASSUME NEW h \in MmapHandles, NEW size \in MapReadSizes, NEW off \in MapReadOffsets,
               NEW step \in Nat \ {0}, NEW device \in BOOLEAN, NEW ats \in BOOLEAN,
               StartRead(h, size, off, step, device, ats)
        PROVE  RangesMapped' /\ ReadInv'
    BY <1>5, <1>6, StartRead_Read DEF StartRead
  <1>10. ASSUME NEW h \in MmapHandles, NEW size \in MapReadSizes, NEW off \in MapReadOffsets,
                NEW device \in BOOLEAN, NEW ats \in BOOLEAN, MmapRead(h, size, off, device, ats)
         PROVE  RangesMapped' /\ ReadInv'
    <2>1. /\ ReadLength(mmap[h], size, off) > 0
          /\ StartRead(h, size, off, ReadLength(mmap[h], size, off), device, ats)
          /\ ReadAllowed(mmap[h], size, off)
      BY <1>10 DEF MmapRead, StartRead
    <2>2. ReadLength(mmap[h], size, off) \in Nat \ {0}
      BY <2>1, MmapAssumption DEF ReadLength, MmapReadInv, MmapOwnInv, MmapTyped
    <2> QED
      BY <1>6, <2>1, <2>2
  <1>11. ASSUME NEW h \in MmapHandles, NEW size \in MapReadSizes, NEW off \in MapReadOffsets,
                NEW step \in MapTaskSizes, NEW device \in BOOLEAN, NEW ats \in BOOLEAN,
                MmapPread(h, size, off, step, device, ats)
         PROVE  RangesMapped' /\ ReadInv'
    BY <1>6, <1>11, MmapAssumption DEF MmapPread
  <1>12. ASSUME NEW b \in MapBounceSizes, SetMapBounce(b) PROVE RangesMapped' /\ ReadInv'
    BY <1>5, <1>12, SetMapBounce_Read DEF SetMapBounce
  <1>7. ASSUME NEW c \in tasks, CopyChunk(c) PROVE RangesMapped' /\ ReadInv'
    BY <1>5, <1>7, CopyChunk_Read DEF CopyChunk
  <1>8. CASE EndRead
    BY <1>1, <1>5, <1>8 DEF EndRead, MmapReadInv, ReadInv, NoRead
  <1>9. CASE UNCHANGED mmapVars
    BY <1>1, <1>5, <1>9, ReadKept DEF mmapVars, mmapReadVars, MmapReadInv
  <1> QED
    BY <1>1, <1>2, <1>3, <1>4, <1>7, <1>8, <1>9, <1>10, <1>11, <1>12 DEF MmapNext, MmapReadInv

\* read() and pread() of MmapHandle, for any files, ranges, alignments, task sizes and
\* settings of the bounce buffer: of every range that does not wrap around size_t the bytes
\* asked for, from inside the mapping, and all of them but those that a bounce buffer made
\* smaller than a chunk could not hold; prefaulting never leaves the range.
THEOREM MmapReadsAreExact == MmapSpec => []ReadsHitTheirBytes
  <1>1. ASSUME MmapReadInv PROVE ReadsHitTheirBytes
    <2> SUFFICES ASSUME reading # NoRead, reading.off + reading.n < Word
                 PROVE  LET m == mmap[reading.h]
                        IN  /\ got \subseteq {<<reading.off + i, i>> : i \in 0..(reading.n - 1)}
                            /\ tasks = {} => \A i \in 0..(reading.n - 1) :
                                              <<reading.off + i, i>> \in got \/ i \in spilled
                            /\ spilled # {} => /\ reading.device /\ ~reading.ats
                                              /\ reading.floor < reading.task
                            /\ \A b \in got : b[1] - m.mapOffset \in 0..(m.mapSize - 1)
                            /\ \A a \in touched : a - Source(m, reading.off) \in 0..(reading.n - 1)
      BY DEF ReadsHitTheirBytes
    <2> DEFINE m == mmap[reading.h]
               W == {<<reading.off + i, i>> : i \in 0..(reading.n - 1)}
    <2>1. ReadInRange /\ BytesAccounted /\ TouchesInRange /\ SpillsExplained /\ reading \in ReadType
      BY <1>1 DEF MmapReadInv, ReadInv, NoWrap, ReadHolds
    <2>2. /\ reading.off \in Nat /\ reading.n \in Nat \ {0}
          /\ m.mapOffset \in Nat /\ m.mapSize \in Nat /\ m.initialOffset \in Nat
          /\ m.mapOffset <= reading.off
          /\ reading.off + reading.n <= m.mapOffset + m.mapSize
      BY <1>1, <2>1 DEF ReadType, ReadInRange, MmapReadInv, MmapOwnInv, MmapTyped
    <2>3. got \subseteq W
      BY <2>1 DEF BytesAccounted
    <2>4. tasks = {} => \A i \in 0..(reading.n - 1) : <<reading.off + i, i>> \in got \/ i \in spilled
      BY <2>1 DEF BytesAccounted
    <2>5. ASSUME NEW b \in got PROVE b[1] - m.mapOffset \in 0..(m.mapSize - 1)
      <3>1. PICK i \in 0..(reading.n - 1) : b = <<reading.off + i, i>>
        BY <2>1 DEF BytesAccounted
      <3> QED
        BY <2>2, <3>1
    <2>6. ASSUME NEW a \in touched PROVE a - Source(m, reading.off) \in 0..(reading.n - 1)
      <3>1. Source(m, reading.off) \in Int
        BY <2>2 DEF Source
      <3> QED
        BY <2>1, <2>2, <3>1 DEF TouchesInRange
    <2> QED
      BY <2>1, <2>3, <2>4, <2>5, <2>6 DEF SpillsExplained
  <1> QED
    BY <1>1, MmapInit_Read, MmapStep_Read, PTL DEF MmapSpec

-------------------------------------------------------------------------------
(* FileLifecycle: descriptors and registrations.                           *)

USE DEF poolMaps

Opening == {"lookup", "resolve", "insert"}

FileFields ==
    [pc : Opening \cup {"closed", "open", "closing"},
     on : Fds \cup {NoFd}, off : Fds \cup {NoFd}, reg : Fds \cup {NoFd},
     compat : BOOLEAN, async : BOOLEAN, path : Paths \cup {NoFd},
     pool : ThreadPools \cup {NoPool, DefaultPool}]

FilesTyped ==
    /\ file \in [FileHandles -> FileFields]
    /\ openFds \subseteq Fds

FdsOwned ==
    /\ \A h \in FileHandles : \A fd \in Owned(h) :
          fd \in openFds /\ \A g \in FileHandles : fd \in Owned(g) => g = h
    /\ \A fd \in openFds : \E h \in FileHandles : fd \in Owned(h)

\* Every registration has a handle that remembers it, and that handle is not yet
\* closing: this is why closing the descriptors leaves no registration behind.
RegistrationsOwned ==
    /\ \A fd \in registered : \E h \in FileHandles : file[h].reg = fd
    /\ \A h \in FileHandles : file[h].reg # NoFd =>
          file[h].reg = file[h].on /\ file[h].reg \in registered
    /\ NoFd \notin registered

ModesSettled ==
    \A h \in FileHandles :
        /\ file[h].pc = "closed" => file[h].on = NoFd /\ file[h].off = NoFd
        /\ file[h].pc \in {"closed", "closing"} => file[h].reg = NoFd
        /\ file[h].pc \in Opening \cup {"open"} => (file[h].compat <=> file[h].reg = NoFd)
        /\ ~file[h].async => ~file[h].compat

FilesInv == FilesTyped /\ FdsOwned /\ RegistrationsOwned /\ ModesSettled

LEMMA FilesInit_Inv == ASSUME FilesInit PROVE FilesInv
  <1>1. FilesTyped
    BY DEF FilesInit, ClosedFile, FilesTyped, FileFields, Opening
  <1>2. FdsOwned
    BY DEF FilesInit, ClosedFile, FdsOwned, Owned
  <1>3. RegistrationsOwned
    BY DEF FilesInit, ClosedFile, RegistrationsOwned
  <1>4. ModesSettled
    BY DEF FilesInit, ClosedFile, ModesSettled, Opening
  <1> QED
    BY <1>1, <1>2, <1>3, <1>4 DEF FilesInv

LEMMA Open_Inv ==
    ASSUME FilesInv, NEW h \in FileHandles, NEW path \in Paths, NEW mode \in CompatModes,
           Open(h, path, mode)
    PROVE  FilesInv'
  <1>1. PICK off \in Fds \ openFds, directOk \in BOOLEAN, regOk \in BOOLEAN :
          LET s == Settle(mode, directOk, regOk)
          IN  /\ ~s.throws
              /\ \E on \in IF s.direct THEN Fds \ (openFds \cup {off}) ELSE {NoFd} :
                    /\ file' = [file EXCEPT ![h] =
                          [ClosedFile("lookup") EXCEPT
                              !.on = on, !.off = off, !.reg = IF s.reg THEN on ELSE NoFd,
                              !.compat = s.compat, !.async = s.async, !.path = path]]
                    /\ openFds' = openFds \cup ({off, on} \ {NoFd})
                    /\ registered' = registered \cup (IF s.reg THEN {on} ELSE {})
    BY DEF Open
  <1> DEFINE s == Settle(mode, directOk, regOk)
  <1>2. /\ s.reg \in BOOLEAN /\ s.compat = ~s.reg /\ s.async \in BOOLEAN
        /\ s.reg => s.direct
        /\ ~s.async => s.reg
    BY DEF Settle
  <1>3. PICK on \in IF s.direct THEN Fds \ (openFds \cup {off}) ELSE {NoFd} :
          /\ file' = [file EXCEPT ![h] =
                [ClosedFile("lookup") EXCEPT
                    !.on = on, !.off = off, !.reg = IF s.reg THEN on ELSE NoFd,
                    !.compat = s.compat, !.async = s.async, !.path = path]]
          /\ openFds' = openFds \cup ({off, on} \ {NoFd})
          /\ registered' = registered \cup (IF s.reg THEN {on} ELSE {})
    BY <1>1
  <1> HIDE DEF s
  <1>4. /\ file'[h] = [pc |-> "lookup", on |-> on, off |-> off, reg |-> IF s.reg THEN on ELSE NoFd,
                       compat |-> ~s.reg, async |-> s.async, path |-> path, pool |-> NoPool]
        /\ \A g \in FileHandles \ {h} : file'[g] = file[g]
    BY <1>2, <1>3 DEF FilesInv, FilesTyped, FileFields, ClosedFile
  <1>5. /\ file[h].on = NoFd /\ file[h].off = NoFd /\ file[h].reg = NoFd
        /\ on \in (Fds \ openFds) \cup {NoFd} /\ on # off
        /\ s.reg => on \in Fds
    BY <1>2, FilesAssumption DEF FilesInv, ModesSettled, Open
  <1>6. FilesTyped'
    <2>1. file'[h] \in FileFields
      BY <1>2, <1>4, <1>5 DEF FileFields, Opening
    <2>2. file' = [file EXCEPT ![h] = file'[h]]
      BY <1>3 DEF FilesInv, FilesTyped, FileFields
    <2>3. openFds' \subseteq Fds
      BY <1>3, <1>5 DEF FilesInv, FilesTyped, FileFields
    <2> QED
      BY <2>1, <2>2, <2>3 DEF FilesInv, FilesTyped, FileFields
  <1>7. /\ Owned(h) = {} /\ Owned(h)' = {off, on} \ {NoFd}
        /\ \A g \in FileHandles \ {h} : Owned(g)' = Owned(g)
    BY <1>4, <1>5 DEF Owned
  <1>8. FdsOwned'
    BY <1>3, <1>5, <1>7 DEF FilesInv, FdsOwned
  <1>9. RegistrationsOwned'
    BY <1>3, <1>4, <1>5, FilesAssumption DEF FilesInv, RegistrationsOwned
  <1>10. ModesSettled'
    <2>1. /\ file'[h].pc = "lookup" /\ file'[h].async = s.async
          /\ file'[h].compat = ~s.reg /\ file'[h].reg = IF s.reg THEN on ELSE NoFd
      BY <1>4
    <2>2. file'[h].compat <=> file'[h].reg = NoFd
      BY <1>2, <1>5, <2>1, FilesAssumption
    <2>3. ~file'[h].async => ~file'[h].compat
      BY <1>2, <2>1
    <2> QED
      BY <1>4, <2>1, <2>2, <2>3 DEF FilesInv, ModesSettled, Opening
  <1> QED
    BY <1>6, <1>8, <1>9, <1>10 DEF FilesInv

\* The steps that look up the thread pool: only where the handle stands, and its pool,
\* change.
LEMMA LookupFields ==
    ASSUME FilesTyped, NEW h \in FileHandles,
           NEW pc \in Opening \cup {"open"}, NEW pool \in ThreadPools \cup {NoPool, DefaultPool},
           file' = [file EXCEPT ![h].pc = pc, ![h].pool = pool]
    PROVE  /\ \A g \in FileHandles : /\ file'[g].on = file[g].on /\ file'[g].off = file[g].off
                                     /\ file'[g].reg = file[g].reg /\ file'[g].path = file[g].path
                                     /\ file'[g].async = file[g].async
                                     /\ file'[g].compat = file[g].compat
           /\ \A g \in FileHandles \ {h} : file'[g] = file[g]
           /\ file'[h].pc = pc /\ file'[h].pool = pool
           /\ file' \in [FileHandles -> FileFields]
  <1>1. /\ \A g \in FileHandles : /\ file'[g].on = file[g].on /\ file'[g].off = file[g].off
                                  /\ file'[g].reg = file[g].reg /\ file'[g].path = file[g].path
                                  /\ file'[g].async = file[g].async
                                  /\ file'[g].compat = file[g].compat
        /\ \A g \in FileHandles \ {h} : file'[g] = file[g]
        /\ file'[h].pc = pc /\ file'[h].pool = pool
    BY DEF FilesTyped, FileFields
  <1>2. file[h] \in FileFields
    BY DEF FilesTyped
  <1>3. file'[h] = [pc |-> pc, on |-> file[h].on, off |-> file[h].off, reg |-> file[h].reg,
                    compat |-> file[h].compat, async |-> file[h].async, path |-> file[h].path,
                    pool |-> pool]
    BY ZenonT(30) DEF FilesTyped, FileFields
  <1>4. file'[h] \in FileFields
    BY <1>2, <1>3 DEF FileFields
  <1>5. file' \in [FileHandles -> FileFields]
    <2>1. \A g \in FileHandles : file'[g] \in FileFields
      BY <1>1, <1>4 DEF FilesTyped
    <2> QED
      BY <2>1 DEF FilesTyped
  <1> QED
    BY <1>1, <1>5

LEMMA Lookup_Inv ==
    ASSUME FilesInv, NEW h \in FileHandles, file[h].pc \in Opening,
           FilesTyped', file'[h].pc \in Opening \cup {"open"},
           \A g \in FileHandles \ {h} : file'[g] = file[g],
           \A g \in FileHandles : /\ file'[g].on = file[g].on /\ file'[g].off = file[g].off
                                  /\ file'[g].reg = file[g].reg
                                  /\ file'[g].async = file[g].async
                                  /\ file'[g].compat = file[g].compat,
           UNCHANGED <<openFds, registered>>
    PROVE  FilesInv'
  <1>1. FdsOwned'
    BY DEF FilesInv, FdsOwned, Owned
  <1>2. RegistrationsOwned'
    BY DEF FilesInv, RegistrationsOwned
  <1>3. ModesSettled'
    BY DEF FilesInv, ModesSettled, Opening
  <1> QED
    BY <1>1, <1>2, <1>3 DEF FilesInv

LEMMA BeginClose_Inv ==
    ASSUME FilesInv, NEW h \in FileHandles, BeginClose(h)
    PROVE  FilesInv'
  <1>1. FilesTyped'
    BY ZenonT(30) DEF FilesInv, FilesTyped, FileFields, BeginClose, UnregisterFirst
  <1>2. /\ \A g \in FileHandles : file'[g].on = file[g].on /\ file'[g].off = file[g].off
        /\ \A g \in FileHandles \ {h} : file'[g] = file[g]
        /\ file'[h].reg = NoFd /\ file'[h].pc = "closing"
        /\ file'[h].async = file[h].async /\ file'[h].compat = file[h].compat
        /\ registered' = registered \ {file[h].reg} /\ openFds' = openFds
    BY DEF FilesInv, FilesTyped, FileFields, BeginClose, UnregisterFirst
  <1>3. FdsOwned'
    BY <1>2 DEF FilesInv, FdsOwned, Owned
  <1>4. ASSUME NEW g \in FileHandles \ {h}, file[g].reg # NoFd PROVE file[g].reg # file[h].reg
    <2>1. file[g].reg \in Owned(g)
      BY <1>4 DEF FilesInv, RegistrationsOwned, Owned
    <2>2. file[h].reg # NoFd => file[h].reg \in Owned(h)
      BY DEF FilesInv, RegistrationsOwned, Owned
    <2> QED
      BY <1>4, <2>1, <2>2 DEF FilesInv, FdsOwned
  <1>5. RegistrationsOwned'
    BY <1>2, <1>4 DEF FilesInv, RegistrationsOwned
  <1>6. ModesSettled'
    BY <1>2 DEF FilesInv, ModesSettled, Opening
  <1> QED
    BY <1>1, <1>3, <1>5, <1>6 DEF FilesInv

LEMMA EndClose_Inv ==
    ASSUME FilesInv, NEW h \in FileHandles, EndClose(h)
    PROVE  FilesInv'
  <1>1. FilesTyped'
    BY DEF FilesInv, FilesTyped, FileFields, EndClose, ClosedFile
  <1>2. /\ \A g \in FileHandles \ {h} : file'[g] = file[g]
        /\ file'[h] = ClosedFile("closed") /\ file[h].reg = NoFd
        /\ registered' = registered /\ openFds' = openFds \ {file[h].on, file[h].off}
    BY DEF FilesInv, FilesTyped, FileFields, ModesSettled, RegistrationsOwned, EndClose
  <1>3. /\ Owned(h)' = {} /\ Owned(h) = {file[h].on, file[h].off} \ {NoFd}
        /\ \A g \in FileHandles \ {h} : Owned(g)' = Owned(g)
    BY <1>2 DEF Owned, ClosedFile
  <1>4. FdsOwned'
    BY <1>2, <1>3, FilesAssumption DEF FilesInv, FilesTyped, FileFields, FdsOwned
  <1>5. RegistrationsOwned'
    BY <1>2 DEF FilesInv, RegistrationsOwned, ClosedFile
  <1>6. ModesSettled'
    BY <1>2 DEF FilesInv, ModesSettled, Opening, ClosedFile
  <1> QED
    BY <1>1, <1>4, <1>5, <1>6 DEF FilesInv

LEMMA MoveFile_Inv ==
    ASSUME FilesInv, NEW h \in FileHandles, NEW g \in FileHandles, MoveFile(h, g)
    PROVE  FilesInv'
  <1>1. FilesTyped'
    BY DEF FilesInv, FilesTyped, FileFields, MoveFile, ClosedFile
  <1>2. /\ \A f \in FileHandles \ {h, g} : file'[f] = file[f]
        /\ h # g /\ file'[h] = file[g] /\ file'[g] = ClosedFile("closed")
        /\ registered' = registered /\ openFds' = openFds
        /\ file[h].reg = NoFd /\ file[h].on = NoFd /\ file[h].off = NoFd
    BY DEF FilesInv, FilesTyped, FileFields, ModesSettled, MoveFile
  <1>3. /\ Owned(h) = {} /\ Owned(h)' = Owned(g) /\ Owned(g)' = {}
        /\ \A f \in FileHandles \ {h, g} : Owned(f)' = Owned(f)
    BY <1>2 DEF Owned, ClosedFile
  <1>4. FdsOwned'
    BY <1>2, <1>3 DEF FilesInv, FdsOwned
  <1>5. RegistrationsOwned'
    <2>1. file'[g].reg = NoFd
      BY <1>2 DEF ClosedFile
    <2> QED
      BY <1>2, <2>1 DEF FilesInv, RegistrationsOwned
  <1>6. ModesSettled'
    BY <1>2 DEF FilesInv, ModesSettled, Opening, ClosedFile
  <1> QED
    BY <1>1, <1>4, <1>5, <1>6 DEF FilesInv

\* A handle goes on to the next step of the lookup and keeps its pool.
LEMMA OnlyPc ==
    ASSUME FilesTyped, NEW h \in FileHandles, NEW pc,
           file' = [file EXCEPT ![h].pc = pc]
    PROVE  file' = [file EXCEPT ![h].pc = pc, ![h].pool = file[h].pool]
  BY DEF FilesTyped, FileFields

LEMMA OpeningStep_Inv ==
    ASSUME FilesInv, NEW h \in FileHandles, file[h].pc \in Opening,
           NEW pc \in Opening \cup {"open"}, NEW pool \in ThreadPools \cup {NoPool, DefaultPool},
           file' = [file EXCEPT ![h].pc = pc, ![h].pool = pool],
           UNCHANGED <<openFds, registered>>
    PROVE  FilesInv'
  <1>1. FilesTyped
    BY DEF FilesInv
  <1>2. /\ \A g \in FileHandles : /\ file'[g].on = file[g].on /\ file'[g].off = file[g].off
                                  /\ file'[g].reg = file[g].reg
                                  /\ file'[g].async = file[g].async
                                  /\ file'[g].compat = file[g].compat
        /\ \A g \in FileHandles \ {h} : file'[g] = file[g]
        /\ file'[h].pc = pc
        /\ file' \in [FileHandles -> FileFields]
    BY <1>1, LookupFields
  <1>3. FilesTyped'
    BY <1>1, <1>2 DEF FilesTyped
  <1> QED
    BY <1>2, <1>3, Lookup_Inv

-------------------------------------------------------------------------------
(* FileLifecycle: thread pools per block device.                           *)

\* Both maps agree, two devices have two pools, and a handle that uses neither the
\* default pool nor none uses the pool of its device.
Devices == {DeviceOf(p) : p \in Paths}
PoolsTyped ==
    /\ pathPool \in [Paths -> ThreadPools \cup {NoPool}]
    /\ devPool \in [Devices -> ThreadPools \cup {NoPool}]
MapsAgree ==
    /\ \A p \in Paths : pathPool[p] # NoPool => pathPool[p] = devPool[DeviceOf(p)]
    /\ \A d, e \in Devices : devPool[d] # NoPool /\ devPool[d] = devPool[e] => d = e
HandlesUseDevicePool ==
    \A h \in FileHandles :
        /\ file[h].pc \in Opening => file[h].path \in Paths
        /\ file[h].pool \notin {NoPool, DefaultPool} =>
              file[h].path \in Paths /\ file[h].pool = devPool[DeviceOf(file[h].path)]

PoolsInv == PoolsTyped /\ MapsAgree /\ HandlesUseDevicePool

LEMMA PoolsInit_Inv == ASSUME FilesInit PROVE PoolsInv
  BY DEF FilesInit, ClosedFile, PoolsInv, PoolsTyped, MapsAgree, HandlesUseDevicePool,
         Opening, Devices

\* A step that leaves the maps alone and gives a handle no pool but one the maps hold.
LEMMA PoolsKept ==
    ASSUME PoolsInv, UNCHANGED <<pathPool, devPool>>,
           \A h \in FileHandles :
              /\ file'[h].pc \in Opening => file'[h].path \in Paths
              /\ file'[h].pool \notin {NoPool, DefaultPool} =>
                    file'[h].path \in Paths /\ file'[h].pool = devPool[DeviceOf(file'[h].path)]
    PROVE  PoolsInv'
  BY DEF PoolsInv, PoolsTyped, MapsAgree, HandlesUseDevicePool, Devices

LEMMA LookupPath_Pools ==
    ASSUME FilesInv, PoolsInv, NEW h \in FileHandles, LookupPath(h)
    PROVE  FilesInv' /\ PoolsInv'
  <1>1. file[h].pc \in Opening /\ file[h].path \in Paths
    BY DEF LookupPath, Opening, PoolsInv, HandlesUseDevicePool
  <1>2. FilesTyped /\ pathPool[file[h].path] \in ThreadPools \cup {NoPool, DefaultPool}
        /\ file[h].pool \in ThreadPools \cup {NoPool, DefaultPool}
    BY <1>1 DEF FilesInv, FilesTyped, FileFields, PoolsInv, PoolsTyped
  <1>3. PICK pc \in Opening \cup {"open"}, pool \in ThreadPools \cup {NoPool, DefaultPool} :
          /\ file' = [file EXCEPT ![h].pc = pc, ![h].pool = pool]
          /\ pool \in {DefaultPool, pathPool[file[h].path], file[h].pool}
    <2>1. CASE Settled(h, DefaultPool)
      BY <2>1 DEF Settled
    <2>2. CASE Settled(h, pathPool[file[h].path])
      BY <1>2, <2>2 DEF Settled
    <2>3. CASE file' = [file EXCEPT ![h].pc = "resolve"]
      BY <1>2, <2>3, OnlyPc DEF Opening
    <2> QED
      BY <2>1, <2>2, <2>3 DEF LookupPath
  <1>4. FilesInv'
    BY <1>1, <1>3, OpeningStep_Inv DEF LookupPath
  <1>5. /\ \A g \in FileHandles \ {h} : file'[g] = file[g]
        /\ file'[h].path = file[h].path /\ file'[h].pool = pool
    BY ZenonT(30), <1>2, <1>3, LookupFields
  <1>6. PoolsInv'
    <2>1. pool \notin {NoPool, DefaultPool} => pool = devPool[DeviceOf(file[h].path)]
      BY <1>1, <1>3 DEF PoolsInv, MapsAgree, HandlesUseDevicePool
    <2>2. UNCHANGED <<pathPool, devPool>>
      BY DEF LookupPath
    <2>3. ASSUME NEW g \in FileHandles
          PROVE  /\ file'[g].pc \in Opening => file'[g].path \in Paths
                 /\ file'[g].pool \notin {NoPool, DefaultPool} =>
                      file'[g].path \in Paths /\ file'[g].pool = devPool[DeviceOf(file'[g].path)]
      BY <1>1, <1>5, <2>1 DEF PoolsInv, HandlesUseDevicePool
    <2> QED
      BY <2>2, <2>3, PoolsKept
  <1> QED
    BY <1>4, <1>6

LEMMA Resolve_Pools ==
    ASSUME FilesInv, PoolsInv, NEW h \in FileHandles, Resolve(h)
    PROVE  FilesInv' /\ PoolsInv'
  <1>1. file[h].pc \in Opening /\ file[h].path \in Paths
    BY DEF Resolve, Opening, PoolsInv, HandlesUseDevicePool
  <1>2. FilesTyped /\ file[h].pool \in ThreadPools \cup {NoPool, DefaultPool}
    BY DEF FilesInv, FilesTyped, FileFields
  <1>3. PICK pc \in Opening \cup {"open"}, pool \in ThreadPools \cup {NoPool, DefaultPool} :
          /\ file' = [file EXCEPT ![h].pc = pc, ![h].pool = pool]
          /\ pool \in {DefaultPool, file[h].pool}
    <2>1. CASE Settled(h, DefaultPool)
      BY <2>1 DEF Settled
    <2>2. CASE file' = [file EXCEPT ![h].pc = "insert"]
      BY <1>2, <2>2, OnlyPc DEF Opening
    <2> QED
      BY <2>1, <2>2 DEF Resolve
  <1>4. FilesInv'
    BY <1>1, <1>3, OpeningStep_Inv DEF Resolve
  <1>5. /\ \A g \in FileHandles \ {h} : file'[g] = file[g]
        /\ file'[h].path = file[h].path /\ file'[h].pool = pool
    BY <1>2, <1>3, LookupFields
  <1>6. PoolsInv'
    BY <1>1, <1>3, <1>5, PoolsKept DEF Resolve, PoolsInv, HandlesUseDevicePool
  <1> QED
    BY <1>4, <1>6

LEMMA SettledFields ==
    ASSUME FilesTyped, NEW h \in FileHandles, NEW pool \in ThreadPools,
           file' = [file EXCEPT ![h].pc = "open", ![h].pool = pool]
    PROVE  /\ \A g \in FileHandles : file'[g].path = file[g].path
           /\ \A g \in FileHandles \ {h} : file'[g] = file[g]
           /\ file'[h].pool = pool /\ file'[h].pc = "open"
  BY DEF FilesTyped, FileFields

LEMMA InsertPool_Pools ==
    ASSUME FilesInv, PoolsInv, NEW h \in FileHandles, InsertPool(h)
    PROVE  FilesInv' /\ PoolsInv'
  <1> DEFINE path == file[h].path
             d == DeviceOf(path)
  <1>1. file[h].pc \in Opening /\ path \in Paths /\ d \in Devices
    BY DEF InsertPool, Opening, PoolsInv, HandlesUseDevicePool, Devices
  <1>2. PICK pool \in DevicePool(d) :
          /\ file' = [file EXCEPT ![h].pc = "open", ![h].pool = pool]
          /\ devPool' = [devPool EXCEPT ![d] = Kept(@, pool)]
          /\ pathPool' = [pathPool EXCEPT ![path] = Kept(@, pool)]
    BY DEF InsertPool, Settled
  <1>3. FilesTyped /\ PoolsTyped
    BY DEF FilesInv, PoolsInv
  <1>4. /\ pool \in ThreadPools
        /\ devPool[d] # NoPool => pool = devPool[d]
        /\ devPool[d] = NoPool => \A e \in Devices : devPool[e] # pool
    BY <1>1, <1>3 DEF DevicePool, LivePools, PoolsTyped
  <1>5. FilesInv'
    BY <1>1, <1>2, <1>4, OpeningStep_Inv DEF InsertPool
  <1>6. /\ \A g \in FileHandles : file'[g].path = file[g].path
        /\ \A g \in FileHandles \ {h} : file'[g] = file[g]
        /\ file'[h].pool = pool /\ file'[h].pc = "open"
    BY <1>2, <1>3, <1>4, SettledFields
  <1> HIDE DEF d, path
  <1>7. /\ devPool'[d] = pool
        /\ \A e \in Devices \ {d} : devPool'[e] = devPool[e]
        /\ devPool' \in [Devices -> ThreadPools \cup {NoPool}]
    BY <1>1, <1>2, <1>3, <1>4 DEF PoolsTyped, Kept
  <1>8. /\ \A p \in Paths \ {path} : pathPool'[p] = pathPool[p]
        /\ pathPool'[path] = pool
        /\ pathPool' \in [Paths -> ThreadPools \cup {NoPool}]
    <2>1. pathPool[path] # NoPool => pathPool[path] = pool
      BY <1>1, <1>4 DEF PoolsInv, MapsAgree, d
    <2> QED
      BY <1>1, <1>2, <1>3, <1>4, <2>1 DEF PoolsTyped, Kept
  <1>9. \A p \in Paths : DeviceOf(p) \in Devices
    BY DEF Devices
  <1>10. PoolsTyped'
    BY <1>7, <1>8 DEF PoolsTyped, Devices
  <1>11. /\ \A p \in Paths : pathPool'[p] # NoPool => pathPool'[p] = devPool'[DeviceOf(p)]
         /\ \A e, f \in Devices : devPool'[e] # NoPool /\ devPool'[e] = devPool'[f] => e = f
    <2>1. ASSUME NEW p \in Paths, pathPool'[p] # NoPool PROVE pathPool'[p] = devPool'[DeviceOf(p)]
      <3>1. CASE p = path
        BY <1>7, <1>8, <3>1 DEF d
      <3>2. CASE p # path
        <4>1. pathPool'[p] = devPool[DeviceOf(p)] /\ devPool[DeviceOf(p)] # NoPool
          BY <1>8, <2>1, <3>2 DEF PoolsInv, MapsAgree
        <4> QED
          BY <1>4, <1>7, <1>9, <4>1
      <3> QED
        BY <3>1, <3>2
    <2>2. \A e, f \in Devices : devPool'[e] # NoPool /\ devPool'[e] = devPool'[f] => e = f
      BY <1>4, <1>7 DEF PoolsInv, MapsAgree
    <2> QED
      BY <2>1, <2>2
  <1>12. ASSUME NEW g \in FileHandles
         PROVE  /\ file'[g].pc \in Opening => file'[g].path \in Paths
                /\ file'[g].pool \notin {NoPool, DefaultPool} =>
                      file'[g].path \in Paths /\ file'[g].pool = devPool'[DeviceOf(file'[g].path)]
    <2>1. CASE g = h
      BY <1>1, <1>6, <1>7, <2>1 DEF d, path, Opening
    <2>2. CASE g # h
      <3>1. file'[g] = file[g]
        BY <1>6, <2>2
      <3>2. ASSUME file[g].pool \notin {NoPool, DefaultPool}
            PROVE  file[g].path \in Paths /\ file[g].pool = devPool'[DeviceOf(file[g].path)]
        <4>1. file[g].path \in Paths /\ file[g].pool = devPool[DeviceOf(file[g].path)]
          BY <3>2 DEF PoolsInv, HandlesUseDevicePool
        <4>2. devPool'[DeviceOf(file[g].path)] = devPool[DeviceOf(file[g].path)]
          BY <1>4, <1>7, <1>9, <3>2, <4>1
        <4> QED
          BY <4>1, <4>2
      <3> QED
        BY <3>1, <3>2 DEF PoolsInv, HandlesUseDevicePool
    <2> QED
      BY <2>1, <2>2
  <1>13. PoolsInv'
    BY <1>10, <1>11, <1>12 DEF PoolsInv, MapsAgree, HandlesUseDevicePool, Devices
  <1> QED
    BY <1>5, <1>13

LEMMA FilesStep_Inv ==
    ASSUME FilesInv, PoolsInv, [FilesNext]_fileVars
    PROVE  FilesInv' /\ PoolsInv'
  <1>1. ASSUME UNCHANGED <<file, openFds, registered, pathPool, devPool>>
        PROVE  FilesInv' /\ PoolsInv'
    <2>1. FilesInv'
      BY <1>1 DEF FilesInv, FilesTyped, FdsOwned, RegistrationsOwned, ModesSettled, Owned
    <2>2. PoolsInv'
      BY <1>1, PoolsKept DEF PoolsInv, HandlesUseDevicePool
    <2> QED
      BY <2>1, <2>2
  <1>2. ASSUME NEW h \in FileHandles, NEW path \in Paths, NEW mode \in CompatModes,
               Open(h, path, mode)
        PROVE  FilesInv' /\ PoolsInv'
    <2>1. /\ file'[h].path = path /\ file'[h].pool = NoPool
          /\ \A g \in FileHandles \ {h} : file'[g] = file[g]
      BY <1>2 DEF Open, ClosedFile, FilesInv, FilesTyped
    <2>2. PoolsInv'
      BY <1>2, <2>1, PoolsKept DEF Open, PoolsInv, HandlesUseDevicePool
    <2> QED
      BY <1>2, <2>2, Open_Inv
  <1>3. ASSUME NEW h \in FileHandles, BeginClose(h) PROVE FilesInv' /\ PoolsInv'
    <2>1. /\ file'[h].path = file[h].path /\ file'[h].pool = file[h].pool
          /\ file'[h].pc = "closing"
          /\ \A g \in FileHandles \ {h} : file'[g] = file[g]
      BY <1>3 DEF BeginClose, UnregisterFirst, FilesInv, FilesTyped, FileFields
    <2>2. PoolsInv'
      BY <1>3, <2>1, PoolsKept DEF BeginClose, PoolsInv, HandlesUseDevicePool, Opening
    <2> QED
      BY <1>3, <2>2, BeginClose_Inv
  <1>4. ASSUME NEW h \in FileHandles, EndClose(h) PROVE FilesInv' /\ PoolsInv'
    <2>1. /\ file'[h].pool = NoPool /\ file'[h].pc = "closed"
          /\ \A g \in FileHandles \ {h} : file'[g] = file[g]
      BY <1>4 DEF EndClose, ClosedFile, FilesInv, FilesTyped
    <2>2. PoolsInv'
      BY <1>4, <2>1, PoolsKept DEF EndClose, PoolsInv, HandlesUseDevicePool, Opening
    <2> QED
      BY <1>4, <2>2, EndClose_Inv
  <1>5. ASSUME NEW h \in FileHandles, NEW g \in FileHandles, MoveFile(h, g)
        PROVE  FilesInv' /\ PoolsInv'
    <2>1. /\ file'[g].pool = NoPool /\ file'[g].pc = "closed" /\ file'[h] = file[g]
          /\ \A f \in FileHandles \ {h, g} : file'[f] = file[f]
      BY <1>5 DEF MoveFile, ClosedFile, FilesInv, FilesTyped
    <2>2. PoolsInv'
      BY ZenonT(30), <1>5, <2>1, PoolsKept DEF MoveFile, PoolsInv, HandlesUseDevicePool, Opening
    <2> QED
      BY <1>5, <2>2, MoveFile_Inv
  <1> QED
    BY <1>1, <1>2, <1>3, <1>4, <1>5, LookupPath_Pools, Resolve_Pools, InsertPool_Pools
    DEF FilesNext, SetDefaults, fileVars

LEMMA FilesInvariant == FilesSpec => [](FilesInv /\ PoolsInv)
  <1>1. FilesInit => FilesInv /\ PoolsInv
    BY FilesInit_Inv, PoolsInit_Inv
  <1> QED
    BY <1>1, FilesStep_Inv, PTL DEF FilesSpec

\* FileHandle, for any number of handles and descriptors: an open descriptor has one
\* handle, a registration has a handle and an open descriptor, and the compatibility mode
\* is what the registration says.
THEOREM FileOwnership == FilesSpec => []FilesOwnOnce
  <1>1. ASSUME FilesInv, NEW fd \in Fds
        PROVE  Cardinality({h \in FileHandles : fd \in Owned(h)}) = IF fd \in openFds THEN 1 ELSE 0
    <2> DEFINE S == {h \in FileHandles : fd \in Owned(h)}
    <2>1. fd \in openFds => \E h \in S : \A g \in S : g = h
      BY <1>1 DEF FilesInv, FdsOwned
    <2>2. fd \notin openFds => \A g \in S : FALSE
      BY <1>1 DEF FilesInv, FdsOwned
    <2> HIDE DEF S
    <2>3. Cardinality(S) = IF fd \in openFds THEN 1 ELSE 0
      BY <2>1, <2>2, CountOne, CountNone
    <2> QED
      BY <2>3 DEF S
  <1>2. ASSUME FilesInv PROVE registered \subseteq openFds
    <2> SUFFICES ASSUME NEW fd \in registered PROVE fd \in openFds
      OBVIOUS
    <2>1. PICK h \in FileHandles : file[h].reg = fd
      BY <1>2 DEF FilesInv, RegistrationsOwned
    <2>2. fd \in Owned(h)
      BY <1>2, <2>1 DEF FilesInv, RegistrationsOwned, Owned
    <2> QED
      BY <1>2, <2>2 DEF FilesInv, FdsOwned
  <1>3. FilesInv => FilesOwnOnce
    BY <1>1, <1>2 DEF FilesInv, RegistrationsOwned, ModesSettled, FilesOwnOnce
  <1> QED
    BY <1>3, FilesInvariant, PTL

\* get_thread_pool_per_block_device(), for any paths, devices and racing opens: handles
\* share a pool exactly when their files share a device, and no pool in use is destroyed.
THEOREM PoolPerDevice == FilesSpec => []PoolsArePerDevice
  <1>1. ASSUME PoolsInv PROVE PoolsArePerDevice
    <2> DEFINE using == {h \in FileHandles : file[h].pool \notin {NoPool, DefaultPool}}
    <2>1. ASSUME NEW h \in using
          PROVE  /\ DeviceOf(file[h].path) \in Devices
                 /\ file[h].pool = devPool[DeviceOf(file[h].path)] /\ file[h].pool # NoPool
      BY <1>1 DEF PoolsInv, HandlesUseDevicePool, Devices
    <2>2. DOMAIN devPool = Devices
      BY <1>1 DEF PoolsInv, PoolsTyped
    <2>3. \A h \in using : file[h].pool \in LivePools
      BY <2>1, <2>2 DEF LivePools
    <2>4. \A g, h \in using :
             file[g].pool = file[h].pool <=> DeviceOf(file[g].path) = DeviceOf(file[h].path)
      BY <1>1, <2>1 DEF PoolsInv, MapsAgree
    <2> QED
      BY <2>3, <2>4 DEF PoolsArePerDevice
  <1> QED
    BY <1>1, FilesInvariant, PTL

-------------------------------------------------------------------------------
(* Bounce buffers.                                                         *)

TaskType == [size : Nat, floor : Nat]
BufferType == [mem : Buffers, size : Int, need : TaskType]
ShardType == [free : Seq(BufferType), out : Int, flying : Int]

BounceTyped ==
    /\ setting \in Sizes /\ poolSize \in Nat /\ poolFree \subseteq Buffers
    /\ bytes \in [Buffers -> Nat] /\ asked \in [Threads -> Int]
    /\ held \in [Threads -> SUBSET BufferType] /\ returning \in [Threads -> SUBSET BufferType]
    /\ stale \in [Threads -> SUBSET Buffers]
    /\ shard \in [Reactors -> ShardType] /\ recycling \in [Reactors -> SUBSET BufferType]
    /\ task \in [Reactors -> TaskType]

\* The memory of a set and of a list of Buffers, and that no two of them share any.
Mems(S) == {x.mem : x \in S}
Unshared(S) == \A x, y \in S : x.mem = y.mem => x = y
ListMems(s) == {s[i].mem : i \in DOMAIN s}
ListUnshared(s) == \A i, j \in DOMAIN s : s[i].mem = s[j].mem => i = j

NoneShared ==
    /\ \A t \in Threads : Unshared(held[t]) /\ Unshared(returning[t])
    /\ \A r \in Reactors : Unshared(recycling[r]) /\ ListUnshared(shard[r].free)

\* Every allocation is in the place p says, with the thread k says.
InPlace(p, k) ==
    /\ \A b \in Buffers : /\ b \in poolFree <=> p[b] = "pool"
                          /\ bytes[b] = 0 <=> p[b] = "none"
    /\ \A b \in Buffers : p[b] \in {"stale", "held", "returning"} => k[b] \in Threads
    /\ \A b \in Buffers : p[b] \in {"recycling", "free"} => k[b] \in Reactors
    /\ \A b \in Buffers : p[b] \in {"none", "pool", "stale", "held", "returning", "recycling", "free"}
    /\ \A t \in Threads, b \in Buffers :
          /\ b \in stale[t] <=> (p[b] = "stale" /\ k[b] = t)
          /\ b \in Mems(held[t]) <=> (p[b] = "held" /\ k[b] = t)
          /\ b \in Mems(returning[t]) <=> (p[b] = "returning" /\ k[b] = t)
    /\ \A r \in Reactors, b \in Buffers :
          /\ b \in Mems(recycling[r]) <=> (p[b] = "recycling" /\ k[b] = r)
          /\ b \in ListMems(shard[r].free) <=> (p[b] = "free" /\ k[b] = r)

AllPlaced == \E p, k : InPlace(p, k)

Fits(x) == bytes[x.mem] = x.size /\ x.need.floor <= x.size

\* A Buffer claims what was allocated and holds its task; what the settings since its check
\* allow a reactor's task is never more than the setting, or than the size it is about to allocate.
SizesFit ==
    /\ \A b \in poolFree : bytes[b] = poolSize
    /\ \A t \in Threads : (\A x \in held[t] : Fits(x)) /\ (\A x \in returning[t] : Fits(x))
    /\ \A r \in Reactors : /\ \A x \in recycling[r] : Fits(x)
                           /\ \A i \in DOMAIN shard[r].free : Fits(shard[r].free[i])
    /\ \A r \in Reactors : task[r].floor <= setting /\ (asked[r] > 0 => task[r].floor <= asked[r])

ShardsCounted ==
    \A r \in Reactors :
        /\ IsFiniteSet(held[r]) /\ IsFiniteSet(recycling[r])
        /\ Len(shard[r].free) + shard[r].out + shard[r].flying <= Cap
        /\ shard[r].flying = Cardinality(recycling[r])
        /\ shard[r].out = Cardinality(held[r]) + (IF asked[r] = 0 THEN 0 ELSE 1)

BounceInv == BounceTyped /\ NoneShared /\ AllPlaced /\ SizesFit /\ ShardsCounted

\* A Buffer put into a set or taken out of it.
LEMMA MemsAdd ==
    ASSUME NEW S, NEW x
    PROVE  /\ Mems(S \cup {x}) = Mems(S) \cup {x.mem}
           /\ Unshared(S) /\ x.mem \notin Mems(S) => Unshared(S \cup {x}) /\ x \notin S
  BY DEF Mems, Unshared

LEMMA MemsRemove ==
    ASSUME NEW S, NEW x \in S, Unshared(S)
    PROVE  Mems(S \ {x}) = Mems(S) \ {x.mem} /\ Unshared(S \ {x}) /\ x.mem \in Mems(S)
  BY DEF Mems, Unshared

LEMMA MemsOne == ASSUME NEW x PROVE Mems({x}) = {x.mem} /\ Unshared({x})
  BY DEF Mems, Unshared

LEMMA MemsNone == Mems({}) = {} /\ Unshared({})
  BY DEF Mems, Unshared

\* A Buffer put at the end of a free list.
LEMMA ListAdd ==
    ASSUME NEW T, NEW s \in Seq(T), NEW x \in T
    PROVE  /\ Append(s, x) \in Seq(T) /\ Len(Append(s, x)) = Len(s) + 1
           /\ \A i \in DOMAIN Append(s, x) : i \in DOMAIN s \/ Append(s, x)[i] = x
           /\ \A i \in DOMAIN s : i \in DOMAIN Append(s, x) /\ Append(s, x)[i] = s[i]
           /\ ListMems(Append(s, x)) = ListMems(s) \cup {x.mem}
           /\ ListUnshared(s) /\ x.mem \notin ListMems(s) => ListUnshared(Append(s, x))
<1> PICK a : a = Append(s, x)
  OBVIOUS
<1>1. /\ a \in Seq(T) /\ Len(a) = Len(s) + 1 /\ DOMAIN a = DOMAIN s \cup {Len(s) + 1} /\ Len(s) + 1 \notin DOMAIN s
      /\ a[Len(s) + 1] = x /\ \A i \in DOMAIN s : a[i] = s[i]
  OBVIOUS
<1>2. ListMems(a) = ListMems(s) \cup {x.mem}
  BY <1>1 DEF ListMems
<1>3. ListUnshared(s) /\ x.mem \notin ListMems(s) => ListUnshared(a)
  BY <1>1 DEF ListMems, ListUnshared
<1> QED BY <1>1, <1>2, <1>3

\* The first n of a free list.
LEMMA ListFirst ==
    ASSUME NEW T, NEW s \in Seq(T), NEW n \in 0..Len(s)
    PROVE  /\ SubSeq(s, 1, n) \in Seq(T) /\ Len(SubSeq(s, 1, n)) = n /\ DOMAIN SubSeq(s, 1, n) = 1..n
           /\ \A i \in 1..n : SubSeq(s, 1, n)[i] = s[i]
           /\ ListMems(SubSeq(s, 1, n)) = {s[i].mem : i \in 1..n}
           /\ ListUnshared(s) => ListUnshared(SubSeq(s, 1, n))
<1> PICK a : a = SubSeq(s, 1, n)
  OBVIOUS
<1>1. n \in Nat /\ Len(s) \in Nat /\ DOMAIN s = 1..Len(s) /\ \A i \in 1..n : i \in DOMAIN s /\ s[i] \in T
  OBVIOUS
<1>2. a \in Seq(T) /\ Len(a) = n /\ DOMAIN a = 1..n /\ \A i \in 1..n : a[i] = s[i]
  BY <1>1
<1>3. ListMems(a) = {s[i].mem : i \in 1..n}
  BY <1>2 DEF ListMems
<1>4. ListUnshared(s) => ListUnshared(a)
  BY <1>1, <1>2 DEF ListUnshared
<1> QED BY <1>2, <1>3, <1>4

\* What try_get() finds in a free list: the first n are usable, and the last of them is of
\* the current size.
LEMMA UsablePart ==
    ASSUME NEW T, NEW s \in Seq(T)
    PROVE  \E n \in 0..Len(s) : /\ StaleTail(s) = (n + 1)..Len(s) /\ Usable(s) = SubSeq(s, 1, n)
                                /\ n > 0 => s[n].size = setting
<1> PICK l : l = Len(s)
  OBVIOUS
<1>0. l \in Nat /\ DOMAIN s = 1..l
  OBVIOUS
<1>1. PICK n \in 0..l : /\ \A j \in (n + 1)..l : s[j].size # setting
                        /\ n > 0 => s[n].size = setting
  <2> DEFINE last == {n \in Nat : n <= l /\ \A j \in (n + 1)..l : s[j].size # setting}
  <2>1. l \in last
    BY <1>0
  <2>2. last \subseteq Nat
    OBVIOUS
  <2>3. PICK n \in last : \A m \in last : ~(<<m, n>> \in OpToRel(<, Nat))
    BY <2>1, <2>2, WFMin, NatLessThanWellFounded
  <2>4. \A x, y \in Nat : y < x => <<y, x>> \in OpToRel(<, Nat)
    BY DEF OpToRel
  <2>5. n \in Nat /\ \A m \in last : ~(m < n)
    BY <2>2, <2>3, <2>4, Zenon
  <2>6. ASSUME n > 0 PROVE s[n].size = setting
    <3> SUFFICES ASSUME s[n].size # setting PROVE FALSE
      OBVIOUS
    <3>1. n - 1 \in Nat /\ n - 1 <= l /\ n - 1 < n
      BY <1>0, <2>5, <2>6
    <3>2. \A j \in ((n - 1) + 1)..l : s[j].size # setting
      BY <1>0, <2>5
    <3>3. n - 1 \in last
      BY <3>1, <3>2
    <3> QED BY <2>5, <3>1, <3>3
  <2>7. n \in 0..l
    BY <1>0, <2>5
  <2> QED BY <2>6, <2>7
<1>2. StaleTail(s) = (n + 1)..l
  <2>1. ASSUME NEW i \in (n + 1)..l PROVE i \in StaleTail(s)
    BY <1>0, <1>1 DEF StaleTail
  <2>2. ASSUME NEW i \in StaleTail(s) PROVE i \in (n + 1)..l
    <3>1. i \in 1..l /\ \A j \in i..l : s[j].size # setting
      BY DEF StaleTail
    <3>2. ~(i <= n)
      <4> SUFFICES ASSUME i <= n PROVE FALSE
        OBVIOUS
      <4>1. n \in i..l /\ n > 0
        BY <1>0, <3>1
      <4> QED BY <1>1, <3>1, <4>1
    <3> QED BY <1>0, <3>1, <3>2
  <2> QED BY <1>0, <2>1, <2>2
<1>3. Cardinality(StaleTail(s)) = l - n
  <2> PICK a : a = n + 1
    OBVIOUS
  <2>0. a \in Int /\ l \in Int
    BY <1>0
  <2>1. Cardinality(a..l) = IF a > l THEN 0 ELSE l - a + 1
    BY <2>0, FS_Interval
  <2>2. StaleTail(s) = a..l
    BY <1>2
  <2> QED BY <1>0, <2>1, <2>2
<1>4. Usable(s) = SubSeq(s, 1, n)
  <2>1. Len(s) - Cardinality(StaleTail(s)) = n
    BY <1>0, <1>3
  <2> QED BY <2>1 DEF Usable
<1> QED BY <1>1, <1>2, <1>4

\* The tasks a reactor starts with and gets.
LEMMA TaskFields ==
    /\ NoTask \in TaskType /\ NoTask.floor = 0
    /\ \A n \in Nat : Checked(n) \in TaskType /\ Checked(n).floor = n
    /\ \A x \in TaskType : x.floor \in Nat
  BY DEF NoTask, Checked, TaskType

LEMMA BounceInitInv == BounceInit => BounceInv
<1> SUFFICES ASSUME BounceInit PROVE BounceInv
  OBVIOUS
<1> USE BounceAssumption
<1>1. BounceTyped
  <2>1. \A r \in Reactors : [free |-> <<>>, out |-> 0, flying |-> 0] \in ShardType
    BY DEF ShardType
  <2> QED BY <2>1, TaskFields DEF BounceInit, BounceTyped
<1>2. /\ \A t \in Threads : held[t] = {} /\ returning[t] = {} /\ stale[t] = {} /\ asked[t] = 0
      /\ \A r \in Reactors : /\ recycling[r] = {} /\ task[r] = NoTask
                             /\ shard[r].free = <<>> /\ shard[r].out = 0 /\ shard[r].flying = 0
      /\ poolFree = {} /\ \A b \in Buffers : bytes[b] = 0
  BY DEF BounceInit
<1>3. ListMems(<<>>) = {} /\ ListUnshared(<<>>)
  BY DEF ListMems, ListUnshared
<1>4. NoneShared
  BY <1>2, <1>3, MemsNone DEF NoneShared
<1>5. AllPlaced
  <2> PICK p : p = [b \in Buffers |-> "none"]
    OBVIOUS
  <2>1. \A b \in Buffers : p[b] = "none"
    OBVIOUS
  <2>2. InPlace(p, p)
    BY <1>2, <1>3, <2>1, MemsNone DEF InPlace
  <2> QED BY <2>2 DEF AllPlaced
<1>6. SizesFit
  <2>1. setting \in Nat
    BY DEF BounceInit
  <2> QED BY <1>2, <2>1, TaskFields DEF SizesFit, Threads
<1>7. ShardsCounted
  <2>1. \A r \in Reactors : held[r] = {} /\ asked[r] = 0 /\ recycling[r] = {}
    BY <1>2 DEF Threads
  <2>2. IsFiniteSet({}) /\ Cardinality({}) = 0
    BY FS_EmptySet
  <2>3. \A r \in Reactors : Len(shard[r].free) + shard[r].out + shard[r].flying <= Cap
    BY <1>2
  <2>4. \A r \in Reactors : /\ IsFiniteSet(held[r]) /\ IsFiniteSet(recycling[r])
                            /\ Cardinality(held[r]) = 0 /\ Cardinality(recycling[r]) = 0
    BY <2>1, <2>2, Zenon
  <2> QED BY <1>2, <2>1, <2>3, <2>4 DEF ShardsCounted
<1> QED BY <1>1, <1>4, <1>5, <1>6, <1>7 DEF BounceInv

\* Where a Buffer's memory is.
LEMMA OwnedPlace ==
    ASSUME BounceTyped, NEW p, NEW k, InPlace(p, k)
    PROVE  /\ \A t \in Threads : \A x \in held[t] :
                 x \in BufferType /\ x.mem \in Buffers /\ p[x.mem] = "held" /\ k[x.mem] = t
           /\ \A t \in Threads : \A x \in returning[t] :
                 x \in BufferType /\ x.mem \in Buffers /\ p[x.mem] = "returning" /\ k[x.mem] = t
           /\ \A r \in Reactors : \A x \in recycling[r] :
                 x \in BufferType /\ x.mem \in Buffers /\ p[x.mem] = "recycling" /\ k[x.mem] = r
           /\ \A r \in Reactors : \A i \in DOMAIN shard[r].free :
                 /\ shard[r].free[i] \in BufferType /\ shard[r].free[i].mem \in Buffers
                 /\ p[shard[r].free[i].mem] = "free" /\ k[shard[r].free[i].mem] = r
<1>1. ASSUME NEW t \in Threads, NEW x \in held[t]
      PROVE  x \in BufferType /\ x.mem \in Buffers /\ p[x.mem] = "held" /\ k[x.mem] = t
  <2>1. x \in BufferType /\ x.mem \in Buffers
    BY DEF BounceTyped, BufferType
  <2> QED BY <2>1 DEF InPlace, Mems
<1>2. ASSUME NEW t \in Threads, NEW x \in returning[t]
      PROVE  x \in BufferType /\ x.mem \in Buffers /\ p[x.mem] = "returning" /\ k[x.mem] = t
  <2>1. x \in BufferType /\ x.mem \in Buffers
    BY DEF BounceTyped, BufferType
  <2> QED BY <2>1 DEF InPlace, Mems
<1>3. ASSUME NEW r \in Reactors, NEW x \in recycling[r]
      PROVE  x \in BufferType /\ x.mem \in Buffers /\ p[x.mem] = "recycling" /\ k[x.mem] = r
  <2>1. x \in BufferType /\ x.mem \in Buffers
    BY DEF BounceTyped, BufferType
  <2> QED BY <2>1 DEF InPlace, Mems
<1>4. ASSUME NEW r \in Reactors, NEW i \in DOMAIN shard[r].free
      PROVE  /\ shard[r].free[i] \in BufferType /\ shard[r].free[i].mem \in Buffers
             /\ p[shard[r].free[i].mem] = "free" /\ k[shard[r].free[i].mem] = r
  <2>1. shard[r].free \in Seq(BufferType)
    BY DEF BounceTyped, ShardType
  <2>2. shard[r].free[i] \in BufferType
    BY <2>1
  <2>3. shard[r].free[i].mem \in Buffers
    BY <2>2 DEF BufferType
  <2>4. shard[r].free[i].mem \in ListMems(shard[r].free)
    BY DEF ListMems
  <2> QED BY <2>2, <2>3, <2>4 DEF InPlace
<1> QED BY <1>1, <1>2, <1>3, <1>4

\* set_bounce_buffer_size(): the Buffers are where and what they were.
LEMMA SettingInv ==
    ASSUME BounceInv, NEW n \in Sizes, SetBounceBufferSize(n)
    PROVE  BounceInv'
<1> USE BounceAssumption
<1>1. /\ setting' = n /\ n \in Nat /\ setting \in Nat
      /\ UNCHANGED <<poolSize, poolFree, bytes, asked, held, stale, returning, shard, recycling>>
      /\ \A r \in Reactors : task[r] \in TaskType
  BY DEF SetBounceBufferSize, poolVars, threadVars, BounceInv, BounceTyped
<1>2. ASSUME NEW r \in Reactors
      PROVE  task'[r] \in TaskType /\ task'[r].floor \in Nat /\ task'[r].floor <= n /\ task'[r].floor <= task[r].floor
  <2>1. task'[r] = [task[r] EXCEPT !.floor = Min({task[r].floor, n})]
    BY DEF SetBounceBufferSize
  <2>2. \A a, c \in Nat : Min({a, c}) = IF a <= c THEN a ELSE c
    BY DEF Min
  <2>3. task[r] \in TaskType /\ task[r].floor \in Nat
    BY <1>1, TaskFields
  <2>4. Min({task[r].floor, n}) \in Nat /\ Min({task[r].floor, n}) <= n /\ Min({task[r].floor, n}) <= task[r].floor
    BY <1>1, <2>2, <2>3
  <2>5. task'[r] \in TaskType /\ task'[r].floor = Min({task[r].floor, n})
    BY <2>1, <2>3, <2>4 DEF TaskType
  <2> QED BY <2>4, <2>5
<1>3. BounceTyped'
  <2>1. task' \in [Reactors -> TaskType]
    BY <1>2 DEF SetBounceBufferSize
  <2> QED BY <1>1, <2>1 DEF BounceInv, BounceTyped
<1>4. NoneShared' /\ AllPlaced'
  BY <1>1 DEF BounceInv, NoneShared, AllPlaced, InPlace
<1>5. SizesFit'
  <2>1. ASSUME NEW r \in Reactors PROVE task'[r].floor <= n /\ (asked'[r] > 0 => task'[r].floor <= asked'[r])
    <3>1. asked[r] \in Int /\ (asked[r] > 0 => task[r].floor <= asked[r]) /\ task[r].floor \in Nat
      BY TaskFields DEF BounceInv, SizesFit, BounceTyped, Threads
    <3> QED BY <1>1, <1>2, <3>1
  <2> QED BY <1>1, <2>1 DEF BounceInv, SizesFit, Fits
<1>6. ShardsCounted'
  BY <1>1 DEF BounceInv, ShardsCounted
<1> QED BY <1>3, <1>4, <1>5, <1>6 DEF BounceInv

LEMMA DeallocateInv ==
    ASSUME BounceInv, NEW t \in Threads, Deallocate(t)
    PROVE  BounceInv'
<1>1. /\ UNCHANGED <<setting, poolSize, poolFree, asked, held, returning, shard, recycling, task>>
      /\ \A b \in Buffers : bytes'[b] = IF b \in stale[t] THEN 0 ELSE bytes[b]
      /\ stale'[t] = {} /\ \A u \in Threads : u # t => stale'[u] = stale[u]
  BY DEF Deallocate, poolVars, cacheVars, BounceInv, BounceTyped
<1>2. BounceTyped'
  <2>1. bytes' \in [Buffers -> Nat]
    BY DEF Deallocate, BounceInv, BounceTyped
  <2>2. stale' \in [Threads -> SUBSET Buffers]
    BY DEF Deallocate, BounceInv, BounceTyped
  <2> QED BY <1>1, <2>1, <2>2 DEF BounceInv, BounceTyped
<1>3. NoneShared'
  BY <1>1 DEF BounceInv, NoneShared
<1>4. PICK p, k : InPlace(p, k)
  BY DEF BounceInv, AllPlaced
<1>5. AllPlaced'
  <2> PICK q : q = [b \in Buffers |-> IF b \in stale[t] THEN "none" ELSE p[b]]
    OBVIOUS
  <2>1. \A b \in Buffers : q[b] = IF b \in stale[t] THEN "none" ELSE p[b]
    OBVIOUS
  <2>2. \A b \in stale[t] : p[b] = "stale" /\ k[b] = t
    BY <1>4 DEF InPlace, BounceInv, BounceTyped
  <2>3. InPlace(q, k)'
    BY <1>1, <1>4, <2>1, <2>2 DEF InPlace
  <2> QED BY <2>3 DEF AllPlaced
<1>6. SizesFit'
  <2>1. /\ \A u \in Threads : \A x \in held[u] \cup returning[u] : bytes'[x.mem] = bytes[x.mem]
        /\ \A r \in Reactors : \A x \in recycling[r] : bytes'[x.mem] = bytes[x.mem]
        /\ \A r \in Reactors : \A i \in DOMAIN shard[r].free : bytes'[shard[r].free[i].mem] = bytes[shard[r].free[i].mem]
    <3>1. \A b \in Buffers : p[b] # "stale" => bytes'[b] = bytes[b]
      BY <1>1, <1>4 DEF InPlace
    <3> QED BY <1>4, <3>1, OwnedPlace DEF BounceInv
  <2>2. \A b \in poolFree : bytes'[b] = bytes[b]
    BY <1>1, <1>4 DEF InPlace, BounceInv, BounceTyped
  <2> QED BY <1>1, <2>1, <2>2 DEF BounceInv, SizesFit, Fits
<1>7. ShardsCounted'
  BY <1>1 DEF BounceInv, ShardsCounted
<1> QED BY <1>2, <1>3, <1>5, <1>6, <1>7 DEF BounceInv

\* The fields of a fresh Buffer.
LEMMA HoldingFields ==
    ASSUME NEW b \in Buffers, NEW n \in Int, NEW m \in TaskType
    PROVE  /\ Holding(b, n, m) \in BufferType /\ Holding(b, n, m).mem = b
           /\ Holding(b, n, m).size = n /\ Holding(b, n, m).need = m
  BY DEF Holding, BufferType

\* What get() promises the task of the thread.
LEMMA NeedBounded ==
    ASSUME BounceInv, NEW t \in Threads
    PROVE  /\ Need(t) \in TaskType /\ Need(t).floor <= setting
           /\ asked[t] > 0 => Need(t).floor <= asked[t]
<1> USE BounceAssumption
<1>1. setting \in Nat /\ asked[t] \in Int
  BY DEF BounceInv, BounceTyped
<1> QED BY <1>1, TaskFields DEF Need, BounceInv, BounceTyped, SizesFit

\* A thread gets a Buffer x whose memory was free for it: the effect of Take().
LEMMA TakeEffect ==
    ASSUME BounceInv, NEW t \in Threads, NEW x \in BufferType, Take(t, x)
    PROVE  /\ held'[t] = held[t] \cup {x} /\ \A u \in Threads : u # t => held'[u] = held[u]
           /\ held' \in [Threads -> SUBSET BufferType] /\ task' \in [Reactors -> TaskType]
           /\ \A r \in Reactors : task'[r] = IF r = t THEN NoTask ELSE task[r]
<1>1. held' \in [Threads -> SUBSET BufferType]
  BY DEF Take, BounceInv, BounceTyped
<1>2. task' \in [Reactors -> TaskType]
  BY TaskFields DEF Take, BounceInv, BounceTyped
<1> QED BY <1>1, <1>2 DEF Take, BounceInv, BounceTyped

\* A thread has one more Buffer, whose memory no thread held before.
LEMMA SetGains ==
    ASSUME NEW S, NEW x, NEW S2, S2 = S \cup {x}, Unshared(S), x.mem \notin Mems(S)
    PROVE  /\ Mems(S2) = Mems(S) \cup {x.mem} /\ Unshared(S2) /\ x \notin S
           /\ IsFiniteSet(S) => IsFiniteSet(S2) /\ Cardinality(S2) = Cardinality(S) + 1
<1>1. Mems(S2) = Mems(S) \cup {x.mem} /\ Unshared(S2) /\ x \notin S
  BY MemsAdd
<1>2. ASSUME IsFiniteSet(S) PROVE IsFiniteSet(S2) /\ Cardinality(S2) = Cardinality(S) + 1
  BY <1>1, <1>2, FS_AddElement
<1> QED BY <1>1, <1>2

LEMMA SetLoses ==
    ASSUME NEW S, NEW x \in S, NEW S2, S2 = S \ {x}, Unshared(S)
    PROVE  /\ Mems(S2) = Mems(S) \ {x.mem} /\ Unshared(S2) /\ x.mem \in Mems(S)
           /\ IsFiniteSet(S) => IsFiniteSet(S2) /\ Cardinality(S2) = Cardinality(S) - 1
<1>1. Mems(S2) = Mems(S) \ {x.mem} /\ Unshared(S2) /\ x.mem \in Mems(S)
  BY MemsRemove
<1>2. ASSUME IsFiniteSet(S) PROVE IsFiniteSet(S2) /\ Cardinality(S2) = Cardinality(S) - 1
  BY <1>2, FS_RemoveElement
<1> QED BY <1>1, <1>2

LEMMA HeldGains ==
    ASSUME BounceInv, NEW p, NEW k, InPlace(p, k), NEW t \in Threads, NEW x \in BufferType, p[x.mem] # "held",
           held'[t] = held[t] \cup {x}, \A u \in Threads : u # t => held'[u] = held[u]
    PROVE  /\ \A u \in Threads, c \in Buffers :
                 c \in Mems(held'[u]) <=> IF c = x.mem THEN u = t ELSE p[c] = "held" /\ k[c] = u
           /\ \A u \in Threads : Unshared(held'[u])
           /\ \A u \in Threads : IsFiniteSet(held[u]) =>
                 /\ IsFiniteSet(held'[u])
                 /\ Cardinality(held'[u]) = Cardinality(held[u]) + (IF u = t THEN 1 ELSE 0)
<1>1. x.mem \in Buffers /\ \A u \in Threads : Unshared(held[u])
  BY DEF BufferType, BounceInv, NoneShared
<1>2. \A u \in Threads, c \in Buffers : c \in Mems(held[u]) <=> (p[c] = "held" /\ k[c] = u)
  BY DEF InPlace
<1>3. PICK S, S2 : S = held[t] /\ S2 = held'[t]
  OBVIOUS
<1>4. x.mem \notin Mems(S) /\ S2 = S \cup {x} /\ Unshared(S)
  BY <1>1, <1>2, <1>3
<1>5. /\ Mems(S2) = Mems(S) \cup {x.mem} /\ Unshared(S2)
      /\ IsFiniteSet(S) => IsFiniteSet(S2) /\ Cardinality(S2) = Cardinality(S) + 1
  BY <1>4, SetGains
<1>6. ASSUME NEW u \in Threads, NEW c \in Buffers
      PROVE  c \in Mems(held'[u]) <=> IF c = x.mem THEN u = t ELSE p[c] = "held" /\ k[c] = u
  <2>1. CASE u = t
    BY ZenonT(30), <1>2, <1>3, <1>5, <2>1
  <2>2. CASE u # t
    <3>1. held'[u] = held[u]
      BY <2>2
    <3> QED BY <1>2, <2>2, <3>1
  <2> QED BY <2>1, <2>2
<1>7. ASSUME NEW u \in Threads
      PROVE  /\ Unshared(held'[u])
             /\ IsFiniteSet(held[u]) =>
                  /\ IsFiniteSet(held'[u])
                  /\ Cardinality(held'[u]) = Cardinality(held[u]) + (IF u = t THEN 1 ELSE 0)
  <2>1. CASE u = t
    BY <1>3, <1>5, <2>1
  <2>2. CASE u # t
    <3>1. held'[u] = held[u]
      BY <2>2
    <3>2. IsFiniteSet(held[u]) => Cardinality(held[u]) \in Nat
      BY FS_CardinalityType
    <3> QED BY <1>1, <2>2, <3>1, <3>2
  <2> QED BY <2>1, <2>2
<1> QED BY <1>6, <1>7

LEMMA HeldLoses ==
    ASSUME BounceInv, NEW p, NEW k, InPlace(p, k), NEW t \in Threads, NEW x \in held[t],
           held'[t] = held[t] \ {x}, \A u \in Threads : u # t => held'[u] = held[u]
    PROVE  /\ \A u \in Threads, c \in Buffers :
                 c \in Mems(held'[u]) <=> c # x.mem /\ p[c] = "held" /\ k[c] = u
           /\ \A u \in Threads : Unshared(held'[u])
           /\ \A u \in Threads : IsFiniteSet(held[u]) =>
                 /\ IsFiniteSet(held'[u])
                 /\ Cardinality(held'[u]) = Cardinality(held[u]) - (IF u = t THEN 1 ELSE 0)
<1>1. \A u \in Threads : Unshared(held[u])
  BY DEF BounceInv, NoneShared
<1>0. x.mem \in Buffers /\ p[x.mem] = "held" /\ k[x.mem] = t
  BY OwnedPlace DEF BounceInv
<1>2. \A u \in Threads, c \in Buffers : c \in Mems(held[u]) <=> (p[c] = "held" /\ k[c] = u)
  BY DEF InPlace
<1>3. PICK S, S2 : S = held[t] /\ S2 = held'[t]
  OBVIOUS
<1>4. x \in S /\ S2 = S \ {x} /\ Unshared(S)
  BY <1>1, <1>3
<1>5. /\ Mems(S2) = Mems(S) \ {x.mem} /\ Unshared(S2)
      /\ IsFiniteSet(S) => IsFiniteSet(S2) /\ Cardinality(S2) = Cardinality(S) - 1
  BY <1>4, SetLoses
<1>6. ASSUME NEW u \in Threads, NEW c \in Buffers
      PROVE  c \in Mems(held'[u]) <=> c # x.mem /\ p[c] = "held" /\ k[c] = u
  <2>1. CASE u = t
    BY <1>2, <1>3, <1>5, <2>1
  <2>2. CASE u # t
    <3>1. held'[u] = held[u]
      BY <2>2
    <3> QED BY <1>0, <1>2, <2>2, <3>1
  <2> QED BY <2>1, <2>2
<1>7. ASSUME NEW u \in Threads
      PROVE  /\ Unshared(held'[u])
             /\ IsFiniteSet(held[u]) =>
                  /\ IsFiniteSet(held'[u])
                  /\ Cardinality(held'[u]) = Cardinality(held[u]) - (IF u = t THEN 1 ELSE 0)
  <2>1. CASE u = t
    BY <1>3, <1>5, <2>1
  <2>2. CASE u # t
    <3>1. held'[u] = held[u]
      BY <2>2
    <3>2. IsFiniteSet(held[u]) => Cardinality(held[u]) \in Nat
      BY FS_CardinalityType
    <3> QED BY <1>1, <2>2, <3>1, <3>2
  <2> QED BY <2>1, <2>2
<1> QED BY <1>6, <1>7

LEMMA AllocateInv ==
    ASSUME BounceInv, NEW t \in Threads, Allocate(t)
    PROVE  BounceInv'
<1> USE BounceAssumption
<1>1. /\ asked[t] > 0 /\ asked[t] \in Nat /\ asked'[t] = 0 /\ \A u \in Threads : u # t => asked'[u] = asked[u]
      /\ asked' \in [Threads -> Int]
      /\ UNCHANGED <<setting, poolSize, poolFree, stale, returning, recycling>>
  BY DEF Allocate, poolVars, BounceInv, BounceTyped
<1>2. PICK p, k : InPlace(p, k)
  BY DEF BounceInv, AllPlaced
<1>3. ASSUME NEW b \in Buffers, bytes[b] = 0, bytes' = [bytes EXCEPT ![b] = asked[t]],
             Take(t, Holding(b, asked[t], Need(t))), UNCHANGED shard
      PROVE  BounceInv'
  <2> PICK x : x = Holding(b, asked[t], Need(t))
    OBVIOUS
  <2>1. x \in BufferType /\ x.mem = b /\ x.size = asked[t] /\ x.need = Need(t)
    BY <1>1, NeedBounded, HoldingFields
  <2>2. /\ held'[t] = held[t] \cup {x} /\ \A u \in Threads : u # t => held'[u] = held[u]
        /\ held' \in [Threads -> SUBSET BufferType] /\ task' \in [Reactors -> TaskType]
        /\ \A r \in Reactors : task'[r] = IF r = t THEN NoTask ELSE task[r]
    BY <1>3, <2>1, TakeEffect
  <2>3. /\ bytes'[b] = asked[t] /\ \A c \in Buffers : c # b => bytes'[c] = bytes[c]
        /\ bytes' \in [Buffers -> Nat]
    BY <1>1, <1>3 DEF BounceInv, BounceTyped
  <2>4. BounceTyped'
    BY <1>1, <1>3, <2>2, <2>3 DEF BounceInv, BounceTyped
  <2>5. p[b] = "none"
    BY <1>2, <1>3 DEF InPlace
  <2>7. /\ \A u \in Threads, c \in Buffers :
              c \in Mems(held'[u]) <=> IF c = b THEN u = t ELSE p[c] = "held" /\ k[c] = u
        /\ \A u \in Threads : Unshared(held'[u])
        /\ \A u \in Threads : IsFiniteSet(held[u]) =>
              /\ IsFiniteSet(held'[u])
              /\ Cardinality(held'[u]) = Cardinality(held[u]) + (IF u = t THEN 1 ELSE 0)
    BY <1>2, <2>1, <2>2, <2>5, HeldGains
  <2>8. NoneShared'
    BY <1>1, <1>3, <2>2, <2>7 DEF BounceInv, NoneShared
  <2>9. AllPlaced'
    <3> PICK q, l : /\ q = [c \in Buffers |-> IF c = b THEN "held" ELSE p[c]]
                    /\ l = [c \in Buffers |-> IF c = b THEN t ELSE k[c]]
      OBVIOUS
    <3>1. \A c \in Buffers : /\ q[c] = (IF c = b THEN "held" ELSE p[c])
                             /\ l[c] = (IF c = b THEN t ELSE k[c])
      OBVIOUS
    <3>2. \A u \in Threads, c \in Buffers : c \in Mems(held'[u]) <=> (q[c] = "held" /\ l[c] = u)
      BY <2>7, <3>1
    <3>3. InPlace(q, l)'
      BY <1>1, <1>2, <1>3, <2>3, <2>5, <3>1, <3>2 DEF InPlace
    <3> QED BY <3>3 DEF AllPlaced
  <2>10. SizesFit'
    <3>1. \A c \in Buffers : p[c] # "none" => bytes'[c] = bytes[c]
      BY <2>3, <2>5
    <3>2. /\ \A u \in Threads : \A y \in held[u] \cup returning[u] : bytes'[y.mem] = bytes[y.mem]
          /\ \A r \in Reactors : \A y \in recycling[r] : bytes'[y.mem] = bytes[y.mem]
          /\ \A r \in Reactors : \A i \in DOMAIN shard[r].free :
                bytes'[shard[r].free[i].mem] = bytes[shard[r].free[i].mem]
      BY <1>2, <3>1, OwnedPlace DEF BounceInv
    <3>3. \A c \in poolFree : bytes'[c] = bytes[c]
      BY <1>2, <3>1 DEF InPlace, BounceInv, BounceTyped
    <3>4. bytes'[x.mem] = x.size /\ x.need.floor <= x.size
      BY <1>1, <2>1, <2>3, NeedBounded
    <3>5. \A u \in Threads : \A y \in held'[u] : Fits(y)'
      BY <2>2, <3>2, <3>4 DEF BounceInv, SizesFit, Fits
    <3>6. \A r \in Reactors : task'[r].floor <= setting /\ (asked'[r] > 0 => task'[r].floor <= asked'[r])
      BY <1>1, <2>2, TaskFields DEF BounceInv, SizesFit, BounceTyped, Threads
    <3> QED BY <1>1, <1>3, <3>2, <3>3, <3>5, <3>6 DEF BounceInv, SizesFit, Fits
  <2>11. ShardsCounted'
    <3>1. ASSUME NEW r \in Reactors
          PROVE  /\ IsFiniteSet(held'[r])
                 /\ shard[r].out = Cardinality(held'[r]) + (IF asked'[r] = 0 THEN 0 ELSE 1)
      <4>1. IsFiniteSet(held[r]) /\ shard[r].out = Cardinality(held[r]) + (IF asked[r] = 0 THEN 0 ELSE 1)
        BY DEF BounceInv, ShardsCounted
      <4>2. Cardinality(held[r]) \in Nat
        BY <4>1, FS_CardinalityType
      <4>3. r \in Threads
        BY DEF Threads
      <4>4. /\ IsFiniteSet(held'[r])
            /\ Cardinality(held'[r]) = Cardinality(held[r]) + (IF r = t THEN 1 ELSE 0)
        BY <2>7, <4>1, <4>3
      <4> QED BY <1>1, <4>1, <4>2, <4>3, <4>4
    <3> QED BY <1>1, <1>3, <3>1 DEF BounceInv, ShardsCounted
  <2> QED BY <2>4, <2>8, <2>9, <2>10, <2>11 DEF BounceInv
<1>4. ASSUME shard' = [r \in Reactors |-> IF r = t THEN GiveBack(shard[r]) ELSE shard[r]],
             task' = [r \in Reactors |-> IF r = t THEN NoTask ELSE task[r]],
             UNCHANGED <<bytes, held>>
      PROVE  BounceInv'
  <2>1. ASSUME NEW r \in Reactors
        PROVE  /\ shard'[r] \in ShardType /\ shard'[r].free = shard[r].free
               /\ shard'[r].flying = shard[r].flying
               /\ shard'[r].out = IF r = t THEN shard[r].out - 1 ELSE shard[r].out
    <3>1. shard[r] \in ShardType /\ shard'[r] = IF r = t THEN GiveBack(shard[r]) ELSE shard[r]
      BY <1>4 DEF BounceInv, BounceTyped
    <3> QED BY <3>1 DEF GiveBack, ShardType
  <2>2. shard' \in [Reactors -> ShardType]
    BY <1>4, <2>1
  <2>3. \A r \in Reactors : task'[r] = IF r = t THEN NoTask ELSE task[r]
    BY <1>4
  <2>4. task' \in [Reactors -> TaskType]
    BY <1>4, TaskFields DEF BounceInv, BounceTyped
  <2>5. BounceTyped'
    BY <1>1, <1>4, <2>2, <2>4 DEF BounceInv, BounceTyped
  <2>6. NoneShared'
    BY <1>1, <1>4, <2>1 DEF BounceInv, NoneShared
  <2>7. AllPlaced'
    <3>1. InPlace(p, k)'
      BY <1>1, <1>2, <1>4, <2>1 DEF InPlace
    <3> QED BY <3>1 DEF AllPlaced
  <2>8. SizesFit'
    <3>1. \A r \in Reactors : task'[r].floor <= setting /\ (asked'[r] > 0 => task'[r].floor <= asked'[r])
      BY <1>1, <2>3, TaskFields DEF BounceInv, SizesFit, BounceTyped, Threads
    <3> QED BY <1>1, <1>4, <2>1, <3>1 DEF BounceInv, SizesFit, Fits
  <2>9. ShardsCounted'
    <3> SUFFICES ASSUME NEW r \in Reactors
                 PROVE  /\ IsFiniteSet(held'[r]) /\ IsFiniteSet(recycling'[r])
                        /\ Len(shard'[r].free) + shard'[r].out + shard'[r].flying <= Cap
                        /\ shard'[r].flying = Cardinality(recycling'[r])
                        /\ shard'[r].out = Cardinality(held'[r]) + (IF asked'[r] = 0 THEN 0 ELSE 1)
      BY DEF ShardsCounted
    <3>1. /\ IsFiniteSet(held[r]) /\ IsFiniteSet(recycling[r])
          /\ Len(shard[r].free) + shard[r].out + shard[r].flying <= Cap
          /\ shard[r].flying = Cardinality(recycling[r])
          /\ shard[r].out = Cardinality(held[r]) + (IF asked[r] = 0 THEN 0 ELSE 1)
      BY DEF BounceInv, ShardsCounted
    <3>2. Cardinality(held[r]) \in Nat /\ Cardinality(recycling[r]) \in Nat
      BY <3>1, FS_CardinalityType
    <3>3. Len(shard[r].free) \in Nat
      BY DEF BounceInv, BounceTyped, ShardType
    <3>4. held'[r] = held[r] /\ recycling'[r] = recycling[r]
      BY <1>1, <1>4
    <3>5. r = t => asked[r] # 0
      BY <1>1
    <3>6. r \in Threads
      BY DEF Threads
    <3>7. /\ Len(shard'[r].free) = Len(shard[r].free) /\ shard'[r].flying = shard[r].flying
          /\ shard'[r].out = IF r = t THEN shard[r].out - 1 ELSE shard[r].out
          /\ asked'[r] = IF r = t THEN 0 ELSE asked[r]
      BY <1>1, <2>1, <3>6
    <3>8. shard'[r].out = Cardinality(held[r]) + (IF asked'[r] = 0 THEN 0 ELSE 1)
      BY <3>1, <3>2, <3>5, <3>7
    <3>9. Len(shard'[r].free) + shard'[r].out + shard'[r].flying <= Cap
      BY SMTT(30), <3>1, <3>2, <3>3, <3>7
    <3> QED BY <3>1, <3>4, <3>7, <3>8, <3>9
  <2> QED BY <2>5, <2>6, <2>7, <2>8, <2>9 DEF BounceInv
<1>5. \/ \E b \in Buffers : /\ bytes[b] = 0 /\ bytes' = [bytes EXCEPT ![b] = asked[t]]
                            /\ Take(t, Holding(b, asked[t], Need(t))) /\ UNCHANGED shard
      \/ /\ shard' = [r \in Reactors |-> IF r = t THEN GiveBack(shard[r]) ELSE shard[r]]
         /\ task' = [r \in Reactors |-> IF r = t THEN NoTask ELSE task[r]]
         /\ UNCHANGED <<bytes, held>>
  BY DEF Allocate
<1> QED BY <1>3, <1>4, <1>5


\* What the lock of the pool detaches: everything that is free, or nothing.
LEMMA DetachedOrRetained ==
    ASSUME BounceInv
    PROVE  /\ Detached \subseteq poolFree /\ Retained = poolFree \ Detached
           /\ \A b \in Retained : bytes[b] = setting
           /\ Retained = {} => Detached = poolFree
           /\ Retained # {} => poolSize = setting /\ Detached = {} /\ Retained = poolFree
<1>1. CASE poolSize = setting
  BY <1>1 DEF Detached, Retained, BounceInv, SizesFit
<1>2. CASE poolSize # setting
  BY <1>2 DEF Detached, Retained
<1> QED BY <1>1, <1>2

\* get() reuses a free buffer.
LEMMA ReuseInv ==
    ASSUME BounceInv, NEW t \in Threads, t \in Reactors => asked[t] # 0,
           NEW b \in Retained, Take(t, Holding(b, setting, Need(t))), poolFree' = Retained \ {b},
           poolSize' = setting, stale' = [stale EXCEPT ![t] = @ \cup Detached],
           asked' = [asked EXCEPT ![t] = 0],
           UNCHANGED <<setting, bytes, returning, shard, recycling>>
    PROVE  BounceInv'
<1> USE BounceAssumption
<1>0. PICK p, k : InPlace(p, k)
  BY DEF BounceInv, AllPlaced
<1>1. /\ b \in poolFree /\ b \in Buffers /\ bytes[b] = setting /\ setting \in Nat /\ poolSize = setting
      /\ Detached = {} /\ Retained = poolFree /\ poolSize' = setting /\ poolFree' = poolFree \ {b}
  BY DetachedOrRetained DEF BounceInv, BounceTyped
<1>2. /\ asked'[t] = 0 /\ \A u \in Threads : u # t => asked'[u] = asked[u]
      /\ asked' \in [Threads -> Int]
  BY DEF BounceInv, BounceTyped
<1>3. stale' = stale
  BY <1>1 DEF BounceInv, BounceTyped
<1>4. UNCHANGED <<setting, bytes, returning, shard, recycling>>
  OBVIOUS
<1> PICK x : x = Holding(b, setting, Need(t))
  OBVIOUS
<1>5. x \in BufferType /\ x.mem = b /\ x.size = setting /\ x.need = Need(t)
  BY <1>1, NeedBounded, HoldingFields
<1>6. /\ held'[t] = held[t] \cup {x} /\ \A u \in Threads : u # t => held'[u] = held[u]
      /\ held' \in [Threads -> SUBSET BufferType] /\ task' \in [Reactors -> TaskType]
      /\ \A r \in Reactors : task'[r] = IF r = t THEN NoTask ELSE task[r]
  BY <1>5, TakeEffect
<1>7. p[b] = "pool"
  BY <1>0, <1>1 DEF InPlace
<1>8. /\ \A u \in Threads, c \in Buffers :
            c \in Mems(held'[u]) <=> IF c = b THEN u = t ELSE p[c] = "held" /\ k[c] = u
      /\ \A u \in Threads : Unshared(held'[u])
      /\ \A u \in Threads : IsFiniteSet(held[u]) =>
            /\ IsFiniteSet(held'[u])
            /\ Cardinality(held'[u]) = Cardinality(held[u]) + (IF u = t THEN 1 ELSE 0)
  BY <1>0, <1>5, <1>6, <1>7, HeldGains
<1>9. BounceTyped'
  BY <1>1, <1>2, <1>3, <1>4, <1>6 DEF BounceInv, BounceTyped
<1>10. NoneShared'
  BY <1>4, <1>8 DEF BounceInv, NoneShared
<1>11. AllPlaced'
  <2> PICK q, l : /\ q = [c \in Buffers |-> IF c = b THEN "held" ELSE p[c]]
                  /\ l = [c \in Buffers |-> IF c = b THEN t ELSE k[c]]
    OBVIOUS
  <2>1. \A c \in Buffers : /\ q[c] = (IF c = b THEN "held" ELSE p[c])
                           /\ l[c] = (IF c = b THEN t ELSE k[c])
    OBVIOUS
  <2>2. \A u \in Threads, c \in Buffers : c \in Mems(held'[u]) <=> (q[c] = "held" /\ l[c] = u)
    BY <1>8, <2>1
  <2>3. \A c \in Buffers : c \in poolFree' <=> q[c] = "pool"
    BY <1>0, <1>1, <2>1 DEF InPlace
  <2>4. InPlace(q, l)'
    BY <1>0, <1>3, <1>4, <1>7, <2>1, <2>2, <2>3 DEF InPlace
  <2> QED BY <2>4 DEF AllPlaced
<1>12. SizesFit'
  <2>1. x.need.floor <= x.size /\ bytes[x.mem] = x.size
    BY <1>1, <1>5, NeedBounded
  <2>2. \A u \in Threads : \A y \in held'[u] : bytes[y.mem] = y.size /\ y.need.floor <= y.size
    BY <1>6, <2>1 DEF BounceInv, SizesFit, Fits
  <2>3. \A r \in Reactors : task'[r].floor <= setting /\ (asked'[r] > 0 => task'[r].floor <= asked'[r])
    BY <1>1, <1>2, <1>6, TaskFields DEF BounceInv, SizesFit, BounceTyped, Threads
  <2> QED BY <1>1, <1>4, <2>2, <2>3 DEF BounceInv, SizesFit, Fits
<1>13. ShardsCounted'
  <2>1. ASSUME NEW r \in Reactors
        PROVE  /\ IsFiniteSet(held'[r])
               /\ shard[r].out = Cardinality(held'[r]) + (IF asked'[r] = 0 THEN 0 ELSE 1)
    <3>1. IsFiniteSet(held[r]) /\ shard[r].out = Cardinality(held[r]) + (IF asked[r] = 0 THEN 0 ELSE 1)
      BY DEF BounceInv, ShardsCounted
    <3>2. Cardinality(held[r]) \in Nat /\ r \in Threads
      BY <3>1, FS_CardinalityType DEF Threads
    <3>3. /\ IsFiniteSet(held'[r])
          /\ Cardinality(held'[r]) = Cardinality(held[r]) + (IF r = t THEN 1 ELSE 0)
      BY <1>8, <3>1, <3>2
    <3> QED BY <1>2, <3>1, <3>2, <3>3
  <2> QED BY <1>4, <2>1 DEF BounceInv, ShardsCounted
<1> QED BY <1>9, <1>10, <1>11, <1>12, <1>13 DEF BounceInv

\* get() finds no free buffer: what was free is detached, and the thread will allocate.
LEMMA AskInv ==
    ASSUME BounceInv, NEW t \in Threads, t \in Reactors => asked[t] # 0,
           Retained = {}, poolFree' = {},
           poolSize' = setting, stale' = [stale EXCEPT ![t] = @ \cup Detached],
           asked' = [asked EXCEPT ![t] = setting],
           UNCHANGED <<setting, bytes, returning, shard, recycling, held, task>>
    PROVE  BounceInv'
<1> USE BounceAssumption
<1>0. PICK p, k : InPlace(p, k)
  BY DEF BounceInv, AllPlaced
<1>1. /\ Detached = poolFree /\ setting \in Nat /\ setting > 0 /\ poolSize' = setting /\ poolFree' = {}
      /\ poolFree \subseteq Buffers
  BY DetachedOrRetained DEF BounceInv, BounceTyped
<1>2. /\ asked'[t] = setting /\ \A u \in Threads : u # t => asked'[u] = asked[u]
      /\ asked' \in [Threads -> Int]
  BY <1>1 DEF BounceInv, BounceTyped
<1>3. /\ stale'[t] = stale[t] \cup poolFree /\ \A u \in Threads : u # t => stale'[u] = stale[u]
      /\ stale' \in [Threads -> SUBSET Buffers]
  BY <1>1 DEF BounceInv, BounceTyped
<1>4. UNCHANGED <<setting, bytes, returning, shard, recycling, held, task>>
  OBVIOUS
<1>5. BounceTyped'
  BY <1>1, <1>2, <1>3, <1>4 DEF BounceInv, BounceTyped
<1>6. NoneShared'
  BY <1>4 DEF BounceInv, NoneShared
<1>7. AllPlaced'
  <2> PICK q, l : /\ q = [c \in Buffers |-> IF c \in poolFree THEN "stale" ELSE p[c]]
                  /\ l = [c \in Buffers |-> IF c \in poolFree THEN t ELSE k[c]]
    OBVIOUS
  <2>1. \A c \in Buffers : /\ q[c] = (IF c \in poolFree THEN "stale" ELSE p[c])
                           /\ l[c] = (IF c \in poolFree THEN t ELSE k[c])
    OBVIOUS
  <2>2. \A c \in Buffers : c \in poolFree <=> p[c] = "pool"
    BY <1>0 DEF InPlace
  <2>3. \A u \in Threads, c \in Buffers : c \in stale'[u] <=> (q[c] = "stale" /\ l[c] = u)
    BY <1>0, <1>3, <2>1, <2>2 DEF InPlace
  <2>4. InPlace(q, l)'
    BY <1>0, <1>1, <1>4, <2>1, <2>2, <2>3 DEF InPlace
  <2> QED BY <2>4 DEF AllPlaced
<1>8. SizesFit'
  <2>1. \A r \in Reactors : task[r].floor <= setting /\ (asked'[r] > 0 => task[r].floor <= asked'[r])
    BY <1>1, <1>2 DEF BounceInv, SizesFit, BounceTyped, Threads
  <2> QED BY <1>1, <1>4, <2>1 DEF BounceInv, SizesFit, Fits
<1>9. ShardsCounted'
  <2>1. \A r \in Reactors : r \in Threads /\ (asked'[r] = 0 <=> asked[r] = 0)
    BY <1>1, <1>2 DEF Threads
  <2> QED BY <1>4, <2>1 DEF BounceInv, ShardsCounted
<1> QED BY <1>5, <1>6, <1>7, <1>8, <1>9 DEF BounceInv

LEMMA LockedGetInv ==
    ASSUME BounceInv, NEW t \in Threads, t \in Reactors => asked[t] # 0, LockedGet(t),
           UNCHANGED <<setting, bytes, returning, shard, recycling>>
    PROVE  BounceInv'
<1>1. poolSize' = setting /\ stale' = [stale EXCEPT ![t] = @ \cup Detached]
  BY DEF LockedGet
<1>2. ASSUME NEW b \in Retained, Take(t, Holding(b, setting, Need(t))), poolFree' = Retained \ {b},
             asked' = [asked EXCEPT ![t] = 0]
      PROVE  BounceInv'
  BY <1>1, <1>2, ReuseInv
<1>3. ASSUME Retained = {}, poolFree' = {}, asked' = [asked EXCEPT ![t] = setting], UNCHANGED <<held, task>>
      PROVE  BounceInv'
  BY <1>1, <1>3, AskInv
<1> QED BY <1>2, <1>3 DEF LockedGet

\* put() gives the memory of one Buffer to the pool or to the thread that is to free it.
LEMMA PutEffect ==
    ASSUME BounceInv, NEW p, NEW k, InPlace(p, k), NEW t \in Threads, NEW x \in BufferType, Fits(x),
           p[x.mem] \in {"held", "returning"}, LockedPut(t, x)
    PROVE  /\ poolSize' = setting /\ poolFree' \subseteq Buffers /\ stale' \in [Threads -> SUBSET Buffers]
           /\ \A c \in poolFree' : bytes[c] = setting
           /\ \E q, l : /\ \A c \in Buffers : c \in poolFree' <=> q[c] = "pool"
                        /\ \A u \in Threads, c \in Buffers : c \in stale'[u] <=> (q[c] = "stale" /\ l[c] = u)
                        /\ \A c \in Buffers : c # x.mem /\ p[c] # "pool" => q[c] = p[c] /\ l[c] = k[c]
                        /\ \A c \in Buffers : c = x.mem \/ p[c] = "pool" => q[c] \in {"pool", "stale"}
                        /\ \A c \in Buffers : q[c] = "stale" => l[c] \in Threads
<1>1. x.mem \in Buffers /\ bytes[x.mem] = x.size
  BY DEF BufferType, Fits
<1>2. PICK b, ok : b = x.mem /\ ok = (IF Accepts(x.size) THEN {b} ELSE {})
  OBVIOUS
<1>3. PICK D, R : D = Detached /\ R = Retained
  OBVIOUS
<1>4. /\ D \subseteq poolFree /\ R = poolFree \ D /\ \A c \in R : bytes[c] = setting
      /\ poolFree \subseteq Buffers
  BY <1>3, DetachedOrRetained DEF BounceInv, BounceTyped
<1>5. b \in Buffers /\ ok \subseteq {b} /\ \A c \in ok : bytes[c] = setting
  BY <1>1, <1>2 DEF Accepts
<1>6. /\ poolSize' = setting /\ poolFree' = R \cup ok
      /\ stale' = [stale EXCEPT ![t] = @ \cup D \cup ({b} \ ok)]
  BY <1>2, <1>3 DEF LockedPut
<1>7. /\ stale'[t] = stale[t] \cup D \cup ({b} \ ok) /\ \A u \in Threads : u # t => stale'[u] = stale[u]
      /\ stale' \in [Threads -> SUBSET Buffers]
  BY <1>4, <1>5, <1>6 DEF BounceInv, BounceTyped
<1> PICK q, l : /\ q = [c \in Buffers |-> IF c \in R \cup ok THEN "pool"
                                          ELSE IF c = b \/ c \in D THEN "stale" ELSE p[c]]
                /\ l = [c \in Buffers |-> IF c = b \/ c \in D THEN t ELSE k[c]]
  OBVIOUS
<1>8. \A c \in Buffers : /\ q[c] = (IF c \in R \cup ok THEN "pool"
                                    ELSE IF c = b \/ c \in D THEN "stale" ELSE p[c])
                         /\ l[c] = (IF c = b \/ c \in D THEN t ELSE k[c])
  OBVIOUS
<1>9. /\ \A c \in Buffers : c \in poolFree <=> p[c] = "pool"
      /\ \A u \in Threads, c \in Buffers : c \in stale[u] <=> (p[c] = "stale" /\ k[c] = u)
      /\ \A c \in Buffers : p[c] = "stale" => k[c] \in Threads
  BY DEF InPlace
<1>10. p[b] \in {"held", "returning"}
  BY <1>2
<1>11. \A c \in Buffers : c \in poolFree' <=> q[c] = "pool"
  BY <1>4, <1>5, <1>6, <1>8, <1>9, <1>10
<1>12. ASSUME NEW u \in Threads, NEW c \in Buffers PROVE c \in stale'[u] <=> (q[c] = "stale" /\ l[c] = u)
  <2>1. CASE u = t
    BY <1>4, <1>5, <1>7, <1>8, <1>9, <1>10, <2>1
  <2>2. CASE u # t
    BY <1>4, <1>5, <1>7, <1>8, <1>9, <1>10, <2>2
  <2> QED BY <2>1, <2>2
<1>13. /\ \A c \in Buffers : c # b /\ p[c] # "pool" => q[c] = p[c] /\ l[c] = k[c]
       /\ \A c \in Buffers : c = b \/ p[c] = "pool" => q[c] \in {"pool", "stale"}
       /\ \A c \in Buffers : q[c] = "stale" => l[c] \in Threads
  BY <1>4, <1>5, <1>8, <1>9
<1>14. poolFree' \subseteq Buffers /\ \A c \in poolFree' : bytes[c] = setting
  BY <1>4, <1>5, <1>6
<1> QED BY <1>2, <1>6, <1>7, <1>11, <1>12, <1>13, <1>14

LEMMA UserPutInv ==
    ASSUME BounceInv, NEW t \in Users, UserPut(t)
    PROVE  BounceInv'
<1> USE BounceAssumption
<1>0. PICK p, k : InPlace(p, k)
  BY DEF BounceInv, AllPlaced
<1>1. PICK x \in held[t] : LockedPut(t, x) /\ held' = [held EXCEPT ![t] = @ \ {x}]
  BY DEF UserPut
<1>2. UNCHANGED <<setting, bytes, asked, returning, shard, recycling, task>> /\ t \in Threads /\ setting \in Nat
  BY DEF UserPut, cacheVars, Threads, BounceInv, BounceTyped
<1>3. x \in BufferType /\ x.mem \in Buffers /\ p[x.mem] = "held" /\ k[x.mem] = t /\ Fits(x)
  <2>1. x \in BufferType /\ x.mem \in Buffers /\ p[x.mem] = "held" /\ k[x.mem] = t
    BY <1>0, <1>1, <1>2, OwnedPlace DEF BounceInv
  <2> QED BY <1>1, <1>2, <2>1 DEF BounceInv, SizesFit
<1>4. /\ held'[t] = held[t] \ {x} /\ \A u \in Threads : u # t => held'[u] = held[u]
      /\ held' \in [Threads -> SUBSET BufferType]
  BY <1>1, <1>2 DEF BounceInv, BounceTyped
<1>5. /\ \A u \in Threads, c \in Buffers : c \in Mems(held'[u]) <=> c # x.mem /\ p[c] = "held" /\ k[c] = u
      /\ \A u \in Threads : Unshared(held'[u])
  <2>1. x \in held[t] /\ t \in Threads
    BY <1>1, <1>2
  <2> QED BY <1>0, <1>4, <2>1, HeldLoses
<1>6. /\ poolSize' = setting /\ poolFree' \subseteq Buffers /\ stale' \in [Threads -> SUBSET Buffers]
      /\ \A c \in poolFree' : bytes[c] = setting
  BY <1>0, <1>1, <1>2, <1>3, PutEffect
<1>7. PICK q, l : /\ \A c \in Buffers : c \in poolFree' <=> q[c] = "pool"
                  /\ \A u \in Threads, c \in Buffers : c \in stale'[u] <=> (q[c] = "stale" /\ l[c] = u)
                  /\ \A c \in Buffers : c # x.mem /\ p[c] # "pool" => q[c] = p[c] /\ l[c] = k[c]
                  /\ \A c \in Buffers : c = x.mem \/ p[c] = "pool" => q[c] \in {"pool", "stale"}
                  /\ \A c \in Buffers : q[c] = "stale" => l[c] \in Threads
  BY <1>0, <1>1, <1>2, <1>3, PutEffect
<1>8. BounceTyped'
  BY <1>2, <1>4, <1>6 DEF BounceInv, BounceTyped
<1>9. NoneShared'
  BY <1>2, <1>5 DEF BounceInv, NoneShared
<1>10. AllPlaced'
  <2>1. InPlace(q, l)'
    BY <1>0, <1>2, <1>3, <1>5, <1>7 DEF InPlace
  <2> QED BY <2>1 DEF AllPlaced
<1>11. SizesFit'
  <2>1. \A u \in Threads : held'[u] \subseteq held[u]
    BY <1>4
  <2> QED BY <1>2, <1>6, <2>1 DEF BounceInv, SizesFit, Fits
<1>12. ShardsCounted'
  <2>1. \A r \in Reactors : held'[r] = held[r]
    BY <1>4 DEF Threads
  <2> QED BY <1>2, <2>1 DEF BounceInv, ShardsCounted
<1> QED BY <1>8, <1>9, <1>10, <1>11, <1>12 DEF BounceInv

LEMMA ReturnOneInv ==
    ASSUME BounceInv, NEW t \in Reactors, ReturnOne(t)
    PROVE  BounceInv'
<1> USE BounceAssumption
<1>0. PICK p, k : InPlace(p, k)
  BY DEF BounceInv, AllPlaced
<1>1. PICK x \in returning[t] : LockedPut(t, x) /\ returning' = [returning EXCEPT ![t] = @ \ {x}]
  BY DEF ReturnOne
<1>2. UNCHANGED <<setting, bytes, asked, held, shard, recycling, task>> /\ t \in Threads /\ setting \in Nat
  BY DEF ReturnOne, cacheVars, Threads, BounceInv, BounceTyped
<1>3. x \in BufferType /\ x.mem \in Buffers /\ p[x.mem] = "returning" /\ k[x.mem] = t /\ Fits(x)
  <2>1. x \in BufferType /\ x.mem \in Buffers /\ p[x.mem] = "returning" /\ k[x.mem] = t
    BY <1>0, <1>1, <1>2, OwnedPlace DEF BounceInv
  <2> QED BY <1>1, <1>2, <2>1 DEF BounceInv, SizesFit
<1>4. /\ returning'[t] = returning[t] \ {x} /\ \A u \in Threads : u # t => returning'[u] = returning[u]
      /\ returning' \in [Threads -> SUBSET BufferType]
  BY <1>1, <1>2 DEF BounceInv, BounceTyped
<1>5. /\ \A u \in Threads, c \in Buffers :
            c \in Mems(returning'[u]) <=> c # x.mem /\ p[c] = "returning" /\ k[c] = u
      /\ \A u \in Threads : Unshared(returning'[u])
  <2>1. PICK S, S2 : S = returning[t] /\ S2 = returning'[t]
    OBVIOUS
  <2>2. x \in S /\ S2 = S \ {x} /\ Unshared(S)
    BY <1>1, <1>2, <1>4, <2>1 DEF BounceInv, NoneShared
  <2>3. Mems(S2) = Mems(S) \ {x.mem} /\ Unshared(S2)
    BY <2>2, SetLoses
  <2>4. \A u \in Threads, c \in Buffers : c \in Mems(returning[u]) <=> (p[c] = "returning" /\ k[c] = u)
    BY <1>0 DEF InPlace
  <2>5. ASSUME NEW u \in Threads, NEW c \in Buffers
        PROVE  /\ c \in Mems(returning'[u]) <=> c # x.mem /\ p[c] = "returning" /\ k[c] = u
               /\ Unshared(returning'[u])
    <3>1. CASE u = t
      BY <2>1, <2>3, <2>4, <3>1
    <3>2. CASE u # t
      <4>1. returning'[u] = returning[u] /\ Unshared(returning[u])
        BY <1>4, <3>2 DEF BounceInv, NoneShared
      <4> QED BY <1>3, <2>4, <3>2, <4>1
    <3> QED BY <3>1, <3>2
  <2>6. x.mem \in Buffers
    BY <1>3
  <2> QED BY <2>5, <2>6
<1>6. /\ poolSize' = setting /\ poolFree' \subseteq Buffers /\ stale' \in [Threads -> SUBSET Buffers]
      /\ \A c \in poolFree' : bytes[c] = setting
  BY <1>0, <1>1, <1>2, <1>3, PutEffect
<1>7. PICK q, l : /\ \A c \in Buffers : c \in poolFree' <=> q[c] = "pool"
                  /\ \A u \in Threads, c \in Buffers : c \in stale'[u] <=> (q[c] = "stale" /\ l[c] = u)
                  /\ \A c \in Buffers : c # x.mem /\ p[c] # "pool" => q[c] = p[c] /\ l[c] = k[c]
                  /\ \A c \in Buffers : c = x.mem \/ p[c] = "pool" => q[c] \in {"pool", "stale"}
                  /\ \A c \in Buffers : q[c] = "stale" => l[c] \in Threads
  BY <1>0, <1>1, <1>2, <1>3, PutEffect
<1>8. BounceTyped'
  BY <1>2, <1>4, <1>6 DEF BounceInv, BounceTyped
<1>9. NoneShared'
  BY <1>2, <1>5 DEF BounceInv, NoneShared
<1>10. AllPlaced'
  <2>1. InPlace(q, l)'
    BY <1>0, <1>2, <1>3, <1>5, <1>7 DEF InPlace
  <2> QED BY <2>1 DEF AllPlaced
<1>11. SizesFit'
  <2>1. \A u \in Threads : returning'[u] \subseteq returning[u]
    BY <1>4
  <2> QED BY <1>2, <1>6, <2>1 DEF BounceInv, SizesFit, Fits
<1>12. ShardsCounted'
  BY <1>2 DEF BounceInv, ShardsCounted
<1> QED BY <1>8, <1>9, <1>10, <1>11, <1>12 DEF BounceInv

LEMMA ClearInv ==
    ASSUME BounceInv, NEW t \in Threads, Clear(t)
    PROVE  BounceInv'
<1>0. PICK p, k : InPlace(p, k)
  BY DEF BounceInv, AllPlaced
<1>1. /\ UNCHANGED <<setting, poolSize, bytes, asked, held, returning, shard, recycling, task>>
      /\ stale[t] = {} /\ poolFree' = {} /\ poolFree \subseteq Buffers
      /\ stale'[t] = poolFree /\ \A u \in Threads : u # t => stale'[u] = stale[u]
      /\ stale' \in [Threads -> SUBSET Buffers]
  BY DEF Clear, AtRest, cacheVars, BounceInv, BounceTyped
<1>2. BounceTyped' /\ NoneShared' /\ SizesFit' /\ ShardsCounted'
  BY <1>1 DEF BounceInv, BounceTyped, NoneShared, SizesFit, Fits, ShardsCounted
<1>3. AllPlaced'
  <2> PICK q, l : /\ q = [c \in Buffers |-> IF c \in poolFree THEN "stale" ELSE p[c]]
                  /\ l = [c \in Buffers |-> IF c \in poolFree THEN t ELSE k[c]]
    OBVIOUS
  <2>1. \A c \in Buffers : /\ q[c] = (IF c \in poolFree THEN "stale" ELSE p[c])
                           /\ l[c] = (IF c \in poolFree THEN t ELSE k[c])
    OBVIOUS
  <2>2. \A c \in Buffers : c \in poolFree <=> p[c] = "pool"
    BY <1>0 DEF InPlace
  <2>3. \A u \in Threads, c \in Buffers : c \in stale'[u] <=> (q[c] = "stale" /\ l[c] = u)
    BY <1>0, <1>1, <2>1, <2>2 DEF InPlace
  <2>4. InPlace(q, l)'
    BY <1>0, <1>1, <2>1, <2>2, <2>3 DEF InPlace
  <2> QED BY <2>4 DEF AllPlaced
<1> QED BY <1>2, <1>3 DEF BounceInv

LEMMA SubmitInv ==
    ASSUME BounceInv, NEW r \in Reactors, NEW n \in Sizes, Submit(r, n)
    PROVE  BounceInv'
<1> USE BounceAssumption
<1>1. /\ UNCHANGED <<setting, poolSize, poolFree, bytes, asked, held, stale, returning, shard, recycling>>
      /\ n <= setting /\ asked[r] = 0 /\ n \in Nat /\ task'[r] = Checked(n)
      /\ \A u \in Reactors : u # r => task'[u] = task[u]
      /\ task' \in [Reactors -> TaskType] /\ task'[r].floor = n
  BY TaskFields DEF Submit, AtRest, poolVars, threadVars, BounceInv, BounceTyped
<1>2. BounceTyped'
  BY <1>1 DEF BounceInv, BounceTyped
<1>3. NoneShared' /\ AllPlaced'
  <2>1. UNCHANGED <<poolFree, bytes, held, stale, returning, shard, recycling>>
    BY <1>1
  <2> QED BY <2>1 DEF BounceInv, NoneShared, AllPlaced, InPlace
<1>5. ShardsCounted'
  BY <1>1 DEF BounceInv, ShardsCounted
<1>4. SizesFit'
  BY <1>1 DEF BounceInv, SizesFit, Fits
<1> QED BY <1>2, <1>3, <1>4, <1>5 DEF BounceInv

\* The free list of a shard has one more Buffer, whose memory no free list had before.
LEMMA FreeGains ==
    ASSUME BounceInv, NEW p, NEW k, InPlace(p, k), NEW r \in Reactors, NEW y \in BufferType, p[y.mem] # "free",
           shard'[r].free = Append(shard[r].free, y), Fits(y),
           \A u \in Reactors : u # r => shard'[u].free = shard[u].free
    PROVE  /\ \A u \in Reactors, c \in Buffers :
                 c \in ListMems(shard'[u].free) <=> IF c = y.mem THEN u = r ELSE p[c] = "free" /\ k[c] = u
           /\ \A u \in Reactors : ListUnshared(shard'[u].free) /\ shard'[u].free \in Seq(BufferType)
           /\ \A u \in Reactors : \A i \in DOMAIN shard'[u].free : Fits(shard'[u].free[i])
           /\ Len(shard'[r].free) = Len(shard[r].free) + 1
<1>1. y.mem \in Buffers
  BY DEF BufferType
<1>2. \A u \in Reactors, c \in Buffers : c \in ListMems(shard[u].free) <=> (p[c] = "free" /\ k[c] = u)
  BY DEF InPlace
<1>3. \A u \in Reactors : /\ ListUnshared(shard[u].free) /\ shard[u].free \in Seq(BufferType)
                          /\ \A i \in DOMAIN shard[u].free : Fits(shard[u].free[i])
  BY DEF BounceInv, NoneShared, BounceTyped, ShardType, SizesFit
<1>4. PICK S, S2 : S = shard[r].free /\ S2 = shard'[r].free
  OBVIOUS
<1>5. /\ S2 = Append(S, y) /\ S \in Seq(BufferType) /\ ListUnshared(S) /\ y.mem \notin ListMems(S)
      /\ \A i \in DOMAIN S : Fits(S[i])
  BY <1>1, <1>2, <1>3, <1>4
<1>6. /\ S2 \in Seq(BufferType) /\ Len(S2) = Len(S) + 1 /\ ListMems(S2) = ListMems(S) \cup {y.mem}
      /\ ListUnshared(S2)
      /\ \A i \in DOMAIN S2 : i \in DOMAIN S \/ S2[i] = y
      /\ \A i \in DOMAIN S : S2[i] = S[i]
  BY <1>5, ListAdd
<1>7. \A i \in DOMAIN S2 : Fits(S2[i])
  <2> SUFFICES ASSUME NEW i \in DOMAIN S2 PROVE Fits(S2[i])
    OBVIOUS
  <2>1. CASE i \in DOMAIN S
    <3>1. S2[i] = S[i] /\ Fits(S[i])
      BY <1>5, <1>6, <2>1
    <3> QED BY <3>1
  <2>2. CASE S2[i] = y
    BY <2>2
  <2> QED BY <1>6, <2>1, <2>2
<1>8. ASSUME NEW u \in Reactors
      PROVE  /\ \A c \in Buffers :
                  c \in ListMems(shard'[u].free) <=> IF c = y.mem THEN u = r ELSE p[c] = "free" /\ k[c] = u
             /\ ListUnshared(shard'[u].free) /\ shard'[u].free \in Seq(BufferType)
             /\ \A i \in DOMAIN shard'[u].free : Fits(shard'[u].free[i])
  <2>1. CASE u = r
    <3>1. shard'[u].free = S2
      BY <1>4, <2>1
    <3>2. \A c \in Buffers : c \in ListMems(S2) <=> IF c = y.mem THEN u = r ELSE p[c] = "free" /\ k[c] = u
      BY <1>2, <1>4, <1>6, <2>1
    <3> HIDE <1>4
    <3> QED BY <1>6, <1>7, <3>1, <3>2, Zenon
  <2>2. CASE u # r
    <3>1. shard'[u].free = shard[u].free
      BY <2>2
    <3>2. \A c \in Buffers : c \in ListMems(shard[u].free) <=> IF c = y.mem THEN u = r ELSE p[c] = "free" /\ k[c] = u
      BY <1>1, <1>2, <2>2
    <3>3. /\ ListUnshared(shard[u].free) /\ shard[u].free \in Seq(BufferType)
          /\ \A i \in DOMAIN shard[u].free : Fits(shard[u].free[i])
      BY <1>3
    <3> QED BY <3>1, <3>2, <3>3, Zenon
  <2> QED BY <2>1, <2>2
<1> QED BY <1>4, <1>6, <1>8

\* A freed Buffer is the same memory without a task.
LEMMA FreeFields ==
    ASSUME NEW x \in BufferType
    PROVE  Free(x) \in BufferType /\ Free(x).mem = x.mem /\ Free(x).size = x.size /\ Free(x).need = NoTask
  BY TaskFields DEF Free, BufferType

LEMMA RecycleNowInv ==
    ASSUME BounceInv, NEW r \in Reactors, RecycleNow(r)
    PROVE  BounceInv'
<1> USE BounceAssumption
<1>0. PICK p, k : InPlace(p, k)
  BY DEF BounceInv, AllPlaced
<1>1. PICK x \in held[r] :
            /\ shard' = [shard EXCEPT ![r].out = @ - 1, ![r].free = Append(@, Free(x))]
            /\ held' = [held EXCEPT ![r] = @ \ {x}]
  BY DEF RecycleNow
<1>2. /\ UNCHANGED <<setting, poolSize, poolFree, bytes, asked, stale, returning, recycling, task>>
      /\ r \in Threads /\ setting \in Nat
  BY DEF RecycleNow, poolVars, Threads, BounceInv, BounceTyped
<1>3. x \in held[r] /\ x \in BufferType /\ x.mem \in Buffers /\ p[x.mem] = "held" /\ k[x.mem] = r /\ Fits(x)
  <2>1. x \in BufferType /\ x.mem \in Buffers /\ p[x.mem] = "held" /\ k[x.mem] = r
    BY <1>0, <1>1, <1>2, OwnedPlace DEF BounceInv
  <2> QED BY <1>1, <1>2, <2>1 DEF BounceInv, SizesFit
<1>4. /\ held'[r] = held[r] \ {x} /\ \A u \in Threads : u # r => held'[u] = held[u]
      /\ held' \in [Threads -> SUBSET BufferType]
  BY <1>1, <1>2 DEF BounceInv, BounceTyped
<1> PICK y : y = Free(x)
  OBVIOUS
<1>5. y \in BufferType /\ y.mem = x.mem /\ y.size = x.size /\ y.need = NoTask
  BY <1>3, FreeFields
<1>6. Fits(y)
  BY <1>3, <1>5, TaskFields DEF Fits, BounceInv, BounceTyped
<1>7. \A u \in Reactors : /\ shard[u] \in ShardType /\ shard[u].free \in Seq(BufferType)
                          /\ shard[u].out \in Int /\ shard[u].flying \in Int
  BY DEF BounceInv, BounceTyped, ShardType
<1>8. /\ shard'[r].free = Append(shard[r].free, y) /\ shard'[r].out = shard[r].out - 1
      /\ shard'[r].flying = shard[r].flying /\ DOMAIN shard'[r] = {"free", "out", "flying"}
      /\ DOMAIN shard' = Reactors
      /\ \A u \in Reactors : u # r => shard'[u] = shard[u]
  BY <1>1, <1>7 DEF BounceInv, BounceTyped, ShardType
<1>9. shard' = [u \in Reactors |-> shard'[u]]
  BY <1>1 DEF BounceInv, BounceTyped
<1> HIDE <1>1
<1>10. /\ \A u \in Threads, c \in Buffers : c \in Mems(held'[u]) <=> c # x.mem /\ p[c] = "held" /\ k[c] = u
       /\ \A u \in Threads : Unshared(held'[u])
       /\ \A u \in Threads : IsFiniteSet(held[u]) =>
             /\ IsFiniteSet(held'[u])
             /\ Cardinality(held'[u]) = Cardinality(held[u]) - (IF u = r THEN 1 ELSE 0)
  BY <1>0, <1>2, <1>3, <1>4, HeldLoses
<1>11. /\ \A u \in Reactors, c \in Buffers :
              c \in ListMems(shard'[u].free) <=> IF c = y.mem THEN u = r ELSE p[c] = "free" /\ k[c] = u
       /\ \A u \in Reactors : ListUnshared(shard'[u].free) /\ shard'[u].free \in Seq(BufferType)
       /\ \A u \in Reactors : \A i \in DOMAIN shard'[u].free : Fits(shard'[u].free[i])
       /\ Len(shard'[r].free) = Len(shard[r].free) + 1
  BY <1>0, <1>3, <1>5, <1>6, <1>8, FreeGains
<1>12. BounceTyped'
  <2>1. shard' \in [Reactors -> ShardType]
    <3>1. shard'[r] = [free |-> shard'[r].free, out |-> shard'[r].out, flying |-> shard'[r].flying]
      BY <1>1, <1>7 DEF BounceInv, BounceTyped, ShardType
    <3>2. shard'[r].out \in Int /\ shard'[r].flying \in Int
      BY <1>7, <1>8
    <3>3. shard'[r] \in ShardType
      BY <1>11, <3>1, <3>2 DEF ShardType
    <3> QED BY <1>7, <1>8, <1>9, <3>3
  <2> QED BY <1>2, <1>4, <2>1 DEF BounceInv, BounceTyped
<1>13. NoneShared'
  BY <1>2, <1>10, <1>11 DEF BounceInv, NoneShared
<1>14. AllPlaced'
  <2> PICK q, l : /\ q = [c \in Buffers |-> IF c = x.mem THEN "free" ELSE p[c]]
                  /\ l = [c \in Buffers |-> IF c = x.mem THEN r ELSE k[c]]
    OBVIOUS
  <2>1. \A c \in Buffers : /\ q[c] = (IF c = x.mem THEN "free" ELSE p[c])
                           /\ l[c] = (IF c = x.mem THEN r ELSE k[c])
    OBVIOUS
  <2>2. \A u \in Threads, c \in Buffers : c \in Mems(held'[u]) <=> (q[c] = "held" /\ l[c] = u)
    BY <1>10, <2>1
  <2>3. \A u \in Reactors, c \in Buffers : c \in ListMems(shard'[u].free) <=> (q[c] = "free" /\ l[c] = u)
    BY <1>5, <1>11, <2>1
  <2>4. InPlace(q, l)'
    BY <1>0, <1>2, <1>3, <2>1, <2>2, <2>3 DEF InPlace
  <2> QED BY <2>4 DEF AllPlaced
<1>15. SizesFit'
  <2>1. \A u \in Threads : held'[u] \subseteq held[u]
    BY <1>4
  <2> QED BY <1>2, <1>11, <2>1 DEF BounceInv, SizesFit, Fits
<1>16. ShardsCounted'
  <2> SUFFICES ASSUME NEW u \in Reactors
               PROVE  /\ IsFiniteSet(held'[u]) /\ IsFiniteSet(recycling'[u])
                      /\ Len(shard'[u].free) + shard'[u].out + shard'[u].flying <= Cap
                      /\ shard'[u].flying = Cardinality(recycling'[u])
                      /\ shard'[u].out = Cardinality(held'[u]) + (IF asked'[u] = 0 THEN 0 ELSE 1)
    BY DEF ShardsCounted
  <2>1. /\ IsFiniteSet(held[u]) /\ IsFiniteSet(recycling[u])
        /\ Len(shard[u].free) + shard[u].out + shard[u].flying <= Cap
        /\ shard[u].flying = Cardinality(recycling[u])
        /\ shard[u].out = Cardinality(held[u]) + (IF asked[u] = 0 THEN 0 ELSE 1)
    BY DEF BounceInv, ShardsCounted
  <2>2. Cardinality(held[u]) \in Nat /\ u \in Threads /\ Len(shard[u].free) \in Nat
    BY <1>7, <2>1, FS_CardinalityType DEF Threads
  <2>3. /\ IsFiniteSet(held'[u])
        /\ Cardinality(held'[u]) = Cardinality(held[u]) - (IF u = r THEN 1 ELSE 0)
    BY <1>10, <2>1, <2>2
  <2>4. recycling'[u] = recycling[u] /\ asked'[u] = asked[u]
    BY <1>2
  <2>5. CASE u = r
    <3>1. /\ Len(shard'[u].free) = Len(shard[u].free) + 1 /\ shard'[u].out = shard[u].out - 1
          /\ shard'[u].flying = shard[u].flying /\ Cardinality(held'[u]) = Cardinality(held[u]) - 1
          /\ shard[u].out \in Int /\ shard[u].flying \in Int
      BY <1>7, <1>8, <1>11, <2>3, <2>5
    <3> QED BY SMTT(30), <2>1, <2>2, <2>3, <2>4, <3>1
  <2>6. CASE u # r
    BY <1>7, <1>8, <2>1, <2>2, <2>3, <2>4, <2>6
  <2> QED BY <2>5, <2>6
<1> QED BY <1>12, <1>13, <1>14, <1>15, <1>16 DEF BounceInv

\* recycle_callback(): the Buffer in flight is free again.
LEMMA RecycleCallbackInv ==
    ASSUME BounceInv, NEW r \in Reactors, RecycleCallback(r)
    PROVE  BounceInv'
<1> USE BounceAssumption
<1>0. PICK p, k : InPlace(p, k)
  BY DEF BounceInv, AllPlaced
<1>1. PICK y \in recycling[r] :
            /\ recycling' = [recycling EXCEPT ![r] = @ \ {y}]
            /\ shard' = [shard EXCEPT ![r].flying = @ - 1, ![r].free = Append(@, y)]
  BY DEF RecycleCallback
<1>2. /\ UNCHANGED <<setting, poolSize, poolFree, bytes, asked, held, stale, returning, task>>
      /\ setting \in Nat
  BY DEF RecycleCallback, poolVars, threadVars, BounceInv, BounceTyped
<1>3. y \in recycling[r] /\ y \in BufferType /\ y.mem \in Buffers /\ p[y.mem] = "recycling" /\ k[y.mem] = r /\ Fits(y)
  <2>1. y \in BufferType /\ y.mem \in Buffers /\ p[y.mem] = "recycling" /\ k[y.mem] = r
    BY <1>0, <1>1, OwnedPlace DEF BounceInv
  <2> QED BY <1>1, <2>1 DEF BounceInv, SizesFit
<1>4. /\ recycling'[r] = recycling[r] \ {y} /\ \A u \in Reactors : u # r => recycling'[u] = recycling[u]
      /\ recycling' \in [Reactors -> SUBSET BufferType]
  BY <1>1 DEF BounceInv, BounceTyped
<1>5. \A u \in Reactors : /\ shard[u] \in ShardType /\ shard[u].free \in Seq(BufferType)
                          /\ shard[u].out \in Int /\ shard[u].flying \in Int
  BY DEF BounceInv, BounceTyped, ShardType
<1>6. /\ shard'[r].free = Append(shard[r].free, y) /\ shard'[r].out = shard[r].out
      /\ shard'[r].flying = shard[r].flying - 1
      /\ \A u \in Reactors : u # r => shard'[u] = shard[u]
  BY <1>1, <1>5 DEF BounceInv, BounceTyped, ShardType
<1>7. /\ shard' = [u \in Reactors |-> shard'[u]]
      /\ shard'[r] = [free |-> shard'[r].free, out |-> shard'[r].out, flying |-> shard'[r].flying]
  BY <1>1, <1>5 DEF BounceInv, BounceTyped, ShardType
<1> HIDE <1>1
<1>8. /\ \A u \in Reactors, c \in Buffers :
              c \in ListMems(shard'[u].free) <=> IF c = y.mem THEN u = r ELSE p[c] = "free" /\ k[c] = u
      /\ \A u \in Reactors : ListUnshared(shard'[u].free) /\ shard'[u].free \in Seq(BufferType)
      /\ \A u \in Reactors : \A i \in DOMAIN shard'[u].free : Fits(shard'[u].free[i])
      /\ Len(shard'[r].free) = Len(shard[r].free) + 1
  BY <1>0, <1>3, <1>6, FreeGains
<1>9. PICK S, S2 : S = recycling[r] /\ S2 = recycling'[r]
  OBVIOUS
<1>10. y \in S /\ S2 = S \ {y} /\ Unshared(S)
  BY <1>3, <1>4, <1>9 DEF BounceInv, NoneShared
<1>11. /\ Mems(S2) = Mems(S) \ {y.mem} /\ Unshared(S2)
       /\ IsFiniteSet(S) => IsFiniteSet(S2) /\ Cardinality(S2) = Cardinality(S) - 1
  BY <1>10, SetLoses
<1>12. ASSUME NEW u \in Reactors
       PROVE  /\ \A c \in Buffers : c \in Mems(recycling'[u]) <=> c # y.mem /\ p[c] = "recycling" /\ k[c] = u
              /\ Unshared(recycling'[u])
  <2>1. \A c \in Buffers : c \in Mems(recycling[u]) <=> (p[c] = "recycling" /\ k[c] = u)
    BY <1>0 DEF InPlace
  <2>2. CASE u = r
    BY <1>9, <1>11, <2>1, <2>2
  <2>3. CASE u # r
    <3>1. recycling'[u] = recycling[u] /\ Unshared(recycling[u])
      BY <1>4, <2>3 DEF BounceInv, NoneShared
    <3> QED BY <1>3, <2>1, <2>3, <3>1
  <2> QED BY <2>2, <2>3
<1>13. BounceTyped'
  <2>1. shard'[r].out \in Int /\ shard'[r].flying \in Int
    BY <1>5, <1>6
  <2>2. shard'[r] \in ShardType
    BY <1>7, <1>8, <2>1 DEF ShardType
  <2>3. shard' \in [Reactors -> ShardType]
    BY <1>5, <1>6, <1>7, <2>2
  <2> QED BY <1>2, <1>4, <2>3 DEF BounceInv, BounceTyped
<1>14. NoneShared'
  BY <1>2, <1>8, <1>12 DEF BounceInv, NoneShared
<1>15. AllPlaced'
  <2> PICK q : q = [c \in Buffers |-> IF c = y.mem THEN "free" ELSE p[c]]
    OBVIOUS
  <2>1. \A c \in Buffers : q[c] = (IF c = y.mem THEN "free" ELSE p[c])
    OBVIOUS
  <2>2. \A u \in Reactors, c \in Buffers : c \in Mems(recycling'[u]) <=> (q[c] = "recycling" /\ k[c] = u)
    BY <1>12, <2>1
  <2>3. \A u \in Reactors, c \in Buffers : c \in ListMems(shard'[u].free) <=> (q[c] = "free" /\ k[c] = u)
    BY <1>3, <1>8, <2>1
  <2>4. InPlace(q, k)'
    BY <1>0, <1>2, <1>3, <2>1, <2>2, <2>3 DEF InPlace
  <2> QED BY <2>4 DEF AllPlaced
<1>16. SizesFit'
  <2>1. \A u \in Reactors : recycling'[u] \subseteq recycling[u]
    BY <1>4
  <2> QED BY <1>2, <1>8, <2>1 DEF BounceInv, SizesFit, Fits
<1>17. ShardsCounted'
  <2> SUFFICES ASSUME NEW u \in Reactors
               PROVE  /\ IsFiniteSet(held'[u]) /\ IsFiniteSet(recycling'[u])
                      /\ Len(shard'[u].free) + shard'[u].out + shard'[u].flying <= Cap
                      /\ shard'[u].flying = Cardinality(recycling'[u])
                      /\ shard'[u].out = Cardinality(held'[u]) + (IF asked'[u] = 0 THEN 0 ELSE 1)
    BY DEF ShardsCounted
  <2>1. /\ IsFiniteSet(held[u]) /\ IsFiniteSet(recycling[u])
        /\ Len(shard[u].free) + shard[u].out + shard[u].flying <= Cap
        /\ shard[u].flying = Cardinality(recycling[u])
        /\ shard[u].out = Cardinality(held[u]) + (IF asked[u] = 0 THEN 0 ELSE 1)
    BY DEF BounceInv, ShardsCounted
  <2>2. Len(shard[u].free) \in Nat /\ shard[u].out \in Int /\ shard[u].flying \in Int
    BY <1>5
  <2>3. held'[u] = held[u] /\ asked'[u] = asked[u]
    BY <1>2
  <2>4. CASE u = r
    <3>1. /\ Len(shard'[u].free) = Len(shard[u].free) + 1 /\ shard'[u].out = shard[u].out
          /\ shard'[u].flying = shard[u].flying - 1
      BY <1>6, <1>8, <2>4
    <3>2. IsFiniteSet(recycling'[u]) /\ Cardinality(recycling'[u]) = Cardinality(recycling[u]) - 1
      BY <1>9, <1>11, <2>1, <2>4
    <3> QED BY <2>1, <2>2, <2>3, <3>1, <3>2
  <2>5. CASE u # r
    BY <1>4, <1>6, <2>1, <2>3, <2>5
  <2> QED BY <2>4, <2>5
<1> QED BY <1>13, <1>14, <1>15, <1>16, <1>17 DEF BounceInv

\* The two outcomes of recycle_after() for the Buffer x.
Flies(r, x) ==
    /\ held' = [held EXCEPT ![r] = @ \ {x}]
    /\ shard' = [shard EXCEPT ![r].out = @ - 1, ![r].flying = @ + 1]
    /\ recycling' = [recycling EXCEPT ![r] = @ \cup {Free(x)}]
    /\ UNCHANGED <<setting, poolVars, bytes, asked, stale, returning, task>>

IsRefused(r, x) ==
    /\ held' = [held EXCEPT ![r] = @ \ {x}]
    /\ shard' = [shard EXCEPT ![r] = GiveBack(@)]
    /\ returning' = [returning EXCEPT ![r] = {Free(x)}]
    /\ UNCHANGED <<setting, poolVars, bytes, asked, stale, recycling, task>>

\* recycle_after(): a held Buffer is in flight until its callback runs.
LEMMA InFlightInv ==
    ASSUME BounceInv, NEW r \in Reactors, NEW x \in held[r], Flies(r, x)
    PROVE  BounceInv'
<1> USE BounceAssumption
<1>0. PICK p, k : InPlace(p, k)
  BY DEF BounceInv, AllPlaced
<1>2. /\ UNCHANGED <<setting, poolSize, poolFree, bytes, asked, stale, returning, task>>
      /\ r \in Threads /\ setting \in Nat
  BY DEF poolVars, Threads, BounceInv, BounceTyped, Flies
<1>3. x \in BufferType /\ x.mem \in Buffers /\ p[x.mem] = "held" /\ k[x.mem] = r /\ Fits(x)
  <2>1. x \in BufferType /\ x.mem \in Buffers /\ p[x.mem] = "held" /\ k[x.mem] = r
    BY <1>0, <1>2, OwnedPlace DEF BounceInv
  <2> QED BY <1>2, <2>1 DEF BounceInv, SizesFit
<1> PICK y : y = Free(x)
  OBVIOUS
<1>4. y \in BufferType /\ y.mem = x.mem /\ y.size = x.size /\ y.need = NoTask
  BY <1>3, FreeFields
<1>5. Fits(y)
  BY <1>3, <1>4, TaskFields DEF Fits, BounceInv, BounceTyped
<1>6. /\ held'[r] = held[r] \ {x} /\ \A u \in Threads : u # r => held'[u] = held[u]
      /\ held' \in [Threads -> SUBSET BufferType]
  BY <1>2 DEF BounceInv, BounceTyped, Flies
<1>7. /\ recycling'[r] = recycling[r] \cup {y} /\ \A u \in Reactors : u # r => recycling'[u] = recycling[u]
      /\ recycling' \in [Reactors -> SUBSET BufferType]
  BY <1>4 DEF BounceInv, BounceTyped, Flies
<1>8. \A u \in Reactors : /\ shard[u] \in ShardType /\ shard[u].free \in Seq(BufferType)
                          /\ shard[u].out \in Int /\ shard[u].flying \in Int
  BY DEF BounceInv, BounceTyped, ShardType
<1>9. /\ shard'[r].free = shard[r].free /\ shard'[r].out = shard[r].out - 1
      /\ shard'[r].flying = shard[r].flying + 1
      /\ \A u \in Reactors : u # r => shard'[u] = shard[u]
  BY <1>8 DEF BounceInv, BounceTyped, ShardType, Flies
<1>10. shard' \in [Reactors -> ShardType]
  <2>1. /\ shard' = [u \in Reactors |-> shard'[u]]
        /\ shard'[r] = [free |-> shard'[r].free, out |-> shard'[r].out, flying |-> shard'[r].flying]
    BY <1>8 DEF BounceInv, BounceTyped, ShardType, Flies
  <2>2. shard'[r].free \in Seq(BufferType) /\ shard'[r].out \in Int /\ shard'[r].flying \in Int
    BY <1>8, <1>9
  <2>3. shard'[r] \in ShardType
    BY <2>1, <2>2 DEF ShardType
  <2> QED BY <1>8, <1>9, <2>1, <2>3
<1>11. /\ \A u \in Threads, c \in Buffers : c \in Mems(held'[u]) <=> c # x.mem /\ p[c] = "held" /\ k[c] = u
       /\ \A u \in Threads : Unshared(held'[u])
       /\ \A u \in Threads : IsFiniteSet(held[u]) =>
             /\ IsFiniteSet(held'[u])
             /\ Cardinality(held'[u]) = Cardinality(held[u]) - (IF u = r THEN 1 ELSE 0)
  BY <1>0, <1>2, <1>6, HeldLoses
<1>12. \A u \in Reactors, c \in Buffers : c \in Mems(recycling[u]) <=> (p[c] = "recycling" /\ k[c] = u)
  BY <1>0 DEF InPlace
<1>13. PICK S, S2 : S = recycling[r] /\ S2 = recycling'[r]
  OBVIOUS
<1>14. S2 = S \cup {y} /\ Unshared(S) /\ y.mem \notin Mems(S)
  BY <1>3, <1>4, <1>7, <1>12, <1>13 DEF BounceInv, NoneShared
<1>15. /\ Mems(S2) = Mems(S) \cup {y.mem} /\ Unshared(S2)
       /\ IsFiniteSet(S) => IsFiniteSet(S2) /\ Cardinality(S2) = Cardinality(S) + 1
  BY <1>14, SetGains
<1>16. ASSUME NEW u \in Reactors
       PROVE  /\ \A c \in Buffers : c \in Mems(recycling'[u]) <=>
                     IF c = x.mem THEN u = r ELSE p[c] = "recycling" /\ k[c] = u
              /\ Unshared(recycling'[u])
  <2>1. CASE u = r
    BY <1>4, <1>12, <1>13, <1>15, <2>1
  <2>2. CASE u # r
    <3>1. recycling'[u] = recycling[u] /\ Unshared(recycling[u])
      BY <1>7, <2>2 DEF BounceInv, NoneShared
    <3> QED BY <1>3, <1>12, <2>2, <3>1
  <2> QED BY <2>1, <2>2
<1>17. BounceTyped'
  BY <1>2, <1>6, <1>7, <1>10 DEF BounceInv, BounceTyped
<1>25. \A u \in Reactors : shard'[u].free = shard[u].free
  BY <1>9
<1>18. NoneShared'
  BY <1>2, <1>11, <1>16, <1>25 DEF BounceInv, NoneShared
<1>19. AllPlaced'
  <2> PICK q, l : /\ q = [c \in Buffers |-> IF c = x.mem THEN "recycling" ELSE p[c]]
                  /\ l = [c \in Buffers |-> IF c = x.mem THEN r ELSE k[c]]
    OBVIOUS
  <2>1. \A c \in Buffers : /\ q[c] = (IF c = x.mem THEN "recycling" ELSE p[c])
                           /\ l[c] = (IF c = x.mem THEN r ELSE k[c])
    OBVIOUS
  <2>2. \A u \in Threads, c \in Buffers : c \in Mems(held'[u]) <=> (q[c] = "held" /\ l[c] = u)
    BY <1>11, <2>1
  <2>3. \A u \in Reactors, c \in Buffers : c \in Mems(recycling'[u]) <=> (q[c] = "recycling" /\ l[c] = u)
    BY <1>16, <2>1
  <2>4. InPlace(q, l)'
    BY <1>0, <1>2, <1>3, <1>25, <2>1, <2>2, <2>3 DEF InPlace
  <2> QED BY <2>4 DEF AllPlaced
<1>20. SizesFit'
  <2>1. \A u \in Threads : held'[u] \subseteq held[u]
    BY <1>6
  <2>2. \A u \in Reactors : \A z \in recycling'[u] : Fits(z)
    BY <1>5, <1>7 DEF BounceInv, SizesFit
  <2> QED BY <1>2, <1>25, <2>1, <2>2 DEF BounceInv, SizesFit, Fits
<1>21. ShardsCounted'
  <2> SUFFICES ASSUME NEW u \in Reactors
               PROVE  /\ IsFiniteSet(held'[u]) /\ IsFiniteSet(recycling'[u])
                      /\ Len(shard'[u].free) + shard'[u].out + shard'[u].flying <= Cap
                      /\ shard'[u].flying = Cardinality(recycling'[u])
                      /\ shard'[u].out = Cardinality(held'[u]) + (IF asked'[u] = 0 THEN 0 ELSE 1)
    BY DEF ShardsCounted
  <2>1. /\ IsFiniteSet(held[u]) /\ IsFiniteSet(recycling[u])
        /\ Len(shard[u].free) + shard[u].out + shard[u].flying <= Cap
        /\ shard[u].flying = Cardinality(recycling[u])
        /\ shard[u].out = Cardinality(held[u]) + (IF asked[u] = 0 THEN 0 ELSE 1)
    BY DEF BounceInv, ShardsCounted
  <2>2. /\ Cardinality(held[u]) \in Nat /\ u \in Threads /\ Len(shard[u].free) \in Nat
        /\ shard[u].out \in Int /\ shard[u].flying \in Int
    BY <1>8, <2>1, FS_CardinalityType DEF Threads
  <2>3. /\ IsFiniteSet(held'[u])
        /\ Cardinality(held'[u]) = Cardinality(held[u]) - (IF u = r THEN 1 ELSE 0)
    BY <1>11, <2>1, <2>2
  <2>4. asked'[u] = asked[u]
    BY <1>2
  <2>5. CASE u = r
    <3>1. /\ Len(shard'[u].free) = Len(shard[u].free) /\ shard'[u].out = shard[u].out - 1
          /\ shard'[u].flying = shard[u].flying + 1 /\ Cardinality(held'[u]) = Cardinality(held[u]) - 1
      BY <1>9, <2>3, <2>5
    <3>2. IsFiniteSet(recycling'[u]) /\ Cardinality(recycling'[u]) = Cardinality(recycling[u]) + 1
      BY <1>13, <1>15, <2>1, <2>5
    <3>3. Len(shard'[u].free) + shard'[u].out + shard'[u].flying <= Cap
      BY SMTT(30), <2>1, <2>2, <3>1
    <3>4. shard'[u].flying = Cardinality(recycling'[u])
      BY <2>1, <3>1, <3>2
    <3>5. shard'[u].out = Cardinality(held'[u]) + (IF asked'[u] = 0 THEN 0 ELSE 1)
      BY <2>1, <2>2, <2>4, <3>1
    <3> QED BY <2>3, <3>2, <3>3, <3>4, <3>5
  <2>6. CASE u # r
    <3>1. shard'[u] = shard[u] /\ recycling'[u] = recycling[u] /\ Cardinality(held'[u]) = Cardinality(held[u])
      BY <1>7, <1>9, <2>2, <2>3, <2>6
    <3> QED BY <2>1, <2>2, <2>3, <2>4, <3>1
  <2> QED BY <2>5, <2>6
<1> QED BY <1>17, <1>18, <1>19, <1>20, <1>21 DEF BounceInv

\* recycle_after(): the callback was refused, and the Buffer leaves the shard for the pool.
LEMMA RefusedInv ==
    ASSUME BounceInv, NEW r \in Reactors, NEW x \in held[r], returning[r] = {}, IsRefused(r, x)
    PROVE  BounceInv'
<1> USE BounceAssumption
<1>0. PICK p, k : InPlace(p, k)
  BY DEF BounceInv, AllPlaced
<1>2. /\ UNCHANGED <<setting, poolSize, poolFree, bytes, asked, stale, recycling, task>>
      /\ r \in Threads /\ setting \in Nat
  BY DEF poolVars, Threads, BounceInv, BounceTyped, IsRefused
<1>3. x \in BufferType /\ x.mem \in Buffers /\ p[x.mem] = "held" /\ k[x.mem] = r /\ Fits(x)
  <2>1. x \in BufferType /\ x.mem \in Buffers /\ p[x.mem] = "held" /\ k[x.mem] = r
    BY <1>0, <1>2, OwnedPlace DEF BounceInv
  <2> QED BY <1>2, <2>1 DEF BounceInv, SizesFit
<1> PICK y : y = Free(x)
  OBVIOUS
<1>4. y \in BufferType /\ y.mem = x.mem /\ y.size = x.size /\ y.need = NoTask
  BY <1>3, FreeFields
<1>5. Fits(y)
  BY <1>3, <1>4, TaskFields DEF Fits, BounceInv, BounceTyped
<1>6. /\ held'[r] = held[r] \ {x} /\ \A u \in Threads : u # r => held'[u] = held[u]
      /\ held' \in [Threads -> SUBSET BufferType]
  BY <1>2 DEF BounceInv, BounceTyped, IsRefused
<1>7. /\ returning'[r] = {y} /\ \A u \in Threads : u # r => returning'[u] = returning[u]
      /\ returning' \in [Threads -> SUBSET BufferType]
  BY <1>2, <1>4 DEF BounceInv, BounceTyped, IsRefused
<1>8. \A u \in Reactors : /\ shard[u] \in ShardType /\ shard[u].free \in Seq(BufferType)
                          /\ shard[u].out \in Int /\ shard[u].flying \in Int
  BY DEF BounceInv, BounceTyped, ShardType
<1>9. /\ shard'[r].free = shard[r].free /\ shard'[r].out = shard[r].out - 1
      /\ shard'[r].flying = shard[r].flying
      /\ \A u \in Reactors : u # r => shard'[u] = shard[u]
  BY <1>8 DEF BounceInv, BounceTyped, ShardType, GiveBack, IsRefused
<1>10. shard' \in [Reactors -> ShardType]
  <2>1. /\ shard' = [u \in Reactors |-> shard'[u]]
        /\ shard'[r] = [free |-> shard'[r].free, out |-> shard'[r].out, flying |-> shard'[r].flying]
    BY <1>8 DEF BounceInv, BounceTyped, ShardType, GiveBack, IsRefused
  <2>2. shard'[r].free \in Seq(BufferType) /\ shard'[r].out \in Int /\ shard'[r].flying \in Int
    BY <1>8, <1>9
  <2>3. shard'[r] \in ShardType
    BY <2>1, <2>2 DEF ShardType
  <2> QED BY <1>8, <1>9, <2>1, <2>3
<1>11. /\ \A u \in Threads, c \in Buffers : c \in Mems(held'[u]) <=> c # x.mem /\ p[c] = "held" /\ k[c] = u
       /\ \A u \in Threads : Unshared(held'[u])
       /\ \A u \in Threads : IsFiniteSet(held[u]) =>
             /\ IsFiniteSet(held'[u])
             /\ Cardinality(held'[u]) = Cardinality(held[u]) - (IF u = r THEN 1 ELSE 0)
  BY <1>0, <1>2, <1>6, HeldLoses
<1>12. \A u \in Threads, c \in Buffers : c \in Mems(returning[u]) <=> (p[c] = "returning" /\ k[c] = u)
  BY <1>0 DEF InPlace
<1>13. \A c \in Buffers : ~(p[c] = "returning" /\ k[c] = r)
  BY <1>2, <1>12, MemsNone
<1>16. ASSUME NEW u \in Threads
       PROVE  /\ \A c \in Buffers : c \in Mems(returning'[u]) <=>
                     IF c = x.mem THEN u = r ELSE p[c] = "returning" /\ k[c] = u
              /\ Unshared(returning'[u])
  <2>1. CASE u = r
    <3>1. Mems({y}) = {x.mem} /\ Unshared({y}) /\ returning'[u] = {y}
      BY <1>4, <1>7, <2>1, MemsOne
    <3> QED BY <1>13, <2>1, <3>1
  <2>2. CASE u # r
    <3>1. returning'[u] = returning[u] /\ Unshared(returning[u])
      BY <1>7, <2>2 DEF BounceInv, NoneShared
    <3> QED BY <1>3, <1>12, <2>2, <3>1
  <2> QED BY <2>1, <2>2
<1>17. BounceTyped'
  BY <1>2, <1>6, <1>7, <1>10 DEF BounceInv, BounceTyped
<1>25. \A u \in Reactors : shard'[u].free = shard[u].free
  BY <1>9
<1>18. NoneShared'
  BY <1>2, <1>11, <1>16, <1>25 DEF BounceInv, NoneShared
<1>19. AllPlaced'
  <2> PICK q, l : /\ q = [c \in Buffers |-> IF c = x.mem THEN "returning" ELSE p[c]]
                  /\ l = [c \in Buffers |-> IF c = x.mem THEN r ELSE k[c]]
    OBVIOUS
  <2>1. \A c \in Buffers : /\ q[c] = (IF c = x.mem THEN "returning" ELSE p[c])
                           /\ l[c] = (IF c = x.mem THEN r ELSE k[c])
    OBVIOUS
  <2>2. \A u \in Threads, c \in Buffers : c \in Mems(held'[u]) <=> (q[c] = "held" /\ l[c] = u)
    BY <1>11, <2>1
  <2>3. \A u \in Threads, c \in Buffers : c \in Mems(returning'[u]) <=> (q[c] = "returning" /\ l[c] = u)
    BY <1>16, <2>1
  <2>4. InPlace(q, l)'
    BY <1>0, <1>2, <1>3, <1>25, <2>1, <2>2, <2>3 DEF InPlace
  <2> QED BY <2>4 DEF AllPlaced
<1>20. SizesFit'
  <2>1. \A u \in Threads : held'[u] \subseteq held[u]
    BY <1>6
  <2>2. \A u \in Threads : \A z \in returning'[u] : Fits(z)
    BY <1>5, <1>7 DEF BounceInv, SizesFit
  <2> QED BY <1>2, <1>25, <2>1, <2>2 DEF BounceInv, SizesFit, Fits
<1>21. ShardsCounted'
  <2> SUFFICES ASSUME NEW u \in Reactors
               PROVE  /\ IsFiniteSet(held'[u]) /\ IsFiniteSet(recycling'[u])
                      /\ Len(shard'[u].free) + shard'[u].out + shard'[u].flying <= Cap
                      /\ shard'[u].flying = Cardinality(recycling'[u])
                      /\ shard'[u].out = Cardinality(held'[u]) + (IF asked'[u] = 0 THEN 0 ELSE 1)
    BY DEF ShardsCounted
  <2>1. /\ IsFiniteSet(held[u]) /\ IsFiniteSet(recycling[u])
        /\ Len(shard[u].free) + shard[u].out + shard[u].flying <= Cap
        /\ shard[u].flying = Cardinality(recycling[u])
        /\ shard[u].out = Cardinality(held[u]) + (IF asked[u] = 0 THEN 0 ELSE 1)
    BY DEF BounceInv, ShardsCounted
  <2>2. /\ Cardinality(held[u]) \in Nat /\ u \in Threads /\ Len(shard[u].free) \in Nat
        /\ shard[u].out \in Int /\ shard[u].flying \in Int
    BY <1>8, <2>1, FS_CardinalityType DEF Threads
  <2>3. /\ IsFiniteSet(held'[u])
        /\ Cardinality(held'[u]) = Cardinality(held[u]) - (IF u = r THEN 1 ELSE 0)
    BY <1>11, <2>1, <2>2
  <2>4. asked'[u] = asked[u] /\ recycling'[u] = recycling[u]
    BY <1>2
  <2>5. CASE u = r
    <3>1. /\ Len(shard'[u].free) = Len(shard[u].free) /\ shard'[u].out = shard[u].out - 1
          /\ shard'[u].flying = shard[u].flying /\ Cardinality(held'[u]) = Cardinality(held[u]) - 1
      BY <1>9, <2>3, <2>5
    <3> QED BY SMTT(30), <2>1, <2>2, <2>3, <2>4, <3>1
  <2>6. CASE u # r
    <3>1. shard'[u] = shard[u] /\ Cardinality(held'[u]) = Cardinality(held[u])
      BY <1>9, <2>2, <2>3, <2>6
    <3> QED BY <2>1, <2>2, <2>3, <2>4, <3>1
  <2> QED BY <2>5, <2>6
<1> QED BY <1>17, <1>18, <1>19, <1>20, <1>21 DEF BounceInv

LEMMA RecycleAfterInv ==
    ASSUME BounceInv, NEW r \in Reactors, RecycleAfter(r)
    PROVE  BounceInv'
<1>1. returning[r] = {} /\ \E x \in held[r] : Flies(r, x) \/ IsRefused(r, x)
  BY DEF RecycleAfter, AtRest, Flies, IsRefused
<1> QED BY <1>1, InFlightInv, RefusedInv

\* A free list of which the first m stay, the last ones from n + 1 on leave, and, if m < n,
\* the one in between is taken.
Splits(s, n, m, f, R) ==
    /\ s \in Seq(BufferType) /\ ListUnshared(s) /\ n \in 0..Len(s) /\ m \in Nat /\ (m = n \/ m = n - 1)
    /\ f \in Seq(BufferType) /\ Len(f) = m /\ \A i \in 1..m : f[i] = s[i]
    /\ R = {s[i] : i \in (n + 1)..Len(s)}

SplitParts(s, n, m, f, R) ==
    /\ ListUnshared(f) /\ Unshared(R)
    /\ \A c : c \in ListMems(s) <=> c \in ListMems(f) \/ c \in Mems(R) \/ (m < n /\ c = s[n].mem)
    /\ \A c : ~(c \in ListMems(f) /\ c \in Mems(R))
    /\ m < n => s[n].mem \notin ListMems(f) /\ s[n].mem \notin Mems(R)

LEMMA ListSplit ==
    ASSUME NEW s, NEW n, NEW m, NEW f, NEW R, Splits(s, n, m, f, R)
    PROVE  SplitParts(s, n, m, f, R)
<1>0. /\ s \in Seq(BufferType) /\ ListUnshared(s) /\ n \in 0..Len(s) /\ m \in Nat /\ (m = n \/ m = n - 1)
      /\ f \in Seq(BufferType) /\ Len(f) = m /\ \A i \in 1..m : f[i] = s[i]
      /\ R = {s[i] : i \in (n + 1)..Len(s)}
  BY DEF Splits
<1>1. /\ Len(s) \in Nat /\ n \in Nat /\ n <= Len(s) /\ DOMAIN s = 1..Len(s) /\ DOMAIN f = 1..m /\ m <= n
  BY <1>0
<1>2. \A c : c \in ListMems(f) <=> \E i \in 1..m : c = s[i].mem
  BY <1>0, <1>1 DEF ListMems
<1>3. \A c : c \in Mems(R) <=> \E i \in (n + 1)..Len(s) : c = s[i].mem
  BY <1>0 DEF Mems
<1>4. \A c : c \in ListMems(s) <=> \E i \in 1..Len(s) : c = s[i].mem
  BY <1>0, <1>1 DEF ListMems
<1>5. \A i, j \in 1..Len(s) : s[i].mem = s[j].mem => i = j
  BY <1>0, <1>1 DEF ListUnshared
<1>6. ListUnshared(f)
  BY <1>0, <1>1, <1>5 DEF ListUnshared
<1>7. Unshared(R)
  <2> SUFFICES ASSUME NEW x \in R, NEW y \in R, x.mem = y.mem PROVE x = y
    BY DEF Unshared
  <2>1. PICK i \in (n + 1)..Len(s) : x = s[i]
    BY <1>0
  <2>2. PICK j \in (n + 1)..Len(s) : y = s[j]
    BY <1>0
  <2>3. i \in 1..Len(s) /\ j \in 1..Len(s)
    BY <1>0, <1>1
  <2> QED BY <1>5, <2>1, <2>2, <2>3
<1>8. ASSUME NEW c
      PROVE  /\ c \in ListMems(s) <=> c \in ListMems(f) \/ c \in Mems(R) \/ (m < n /\ c = s[n].mem)
             /\ ~(c \in ListMems(f) /\ c \in Mems(R))
  <2>1. \A i : i \in 1..Len(s) <=> i \in 1..m \/ i \in (n + 1)..Len(s) \/ (m < n /\ i = n)
    BY <1>0, <1>1
  <2>2. \A i, j : i \in 1..m /\ j \in (n + 1)..Len(s) => i # j
    BY <1>0, <1>1
  <2>3. c \in ListMems(s) <=> c \in ListMems(f) \/ c \in Mems(R) \/ (m < n /\ c = s[n].mem)
    BY <1>2, <1>3, <1>4, <2>1
  <2>4. ~(c \in ListMems(f) /\ c \in Mems(R))
    BY <1>2, <1>3, <1>5, <2>1, <2>2
  <2> QED BY <2>3, <2>4
<1>9. ASSUME m < n PROVE s[n].mem \notin ListMems(f) /\ s[n].mem \notin Mems(R)
  <2>1. n \in 1..Len(s) /\ \A i : i \in 1..m \/ i \in (n + 1)..Len(s) => i \in 1..Len(s) /\ i # n
    BY <1>0, <1>1, <1>9
  <2> QED BY <1>2, <1>3, <1>5, <2>1
<1> QED BY <1>6, <1>7, <1>8, <1>9 DEF SplitParts

\* try_get() moves the stale tail of the free list of r from the shard to what r returns, and
\* takes the memory in taken: where everything is before (p) and after (q).
TailMoved(r, p, k, q, taken) ==
    /\ \A c \in Buffers : q[c] = "held" <=> p[c] = "held" \/ c \in taken
    /\ \A c \in taken : c \in Buffers /\ p[c] = "free" /\ k[c] = r
    /\ \A c \in Buffers : \A v \in {"none", "pool", "stale", "recycling"} : q[c] = v <=> p[c] = v
    /\ \A c \in Buffers : q[c] \in {"none", "pool", "stale", "held", "returning", "recycling", "free"}
    /\ \A c \in Buffers : /\ q[c] = "returning" => k[c] \in Threads
                          /\ q[c] = "free" => k[c] \in Reactors
    /\ \A u \in Threads, c \in Buffers : c \in Mems(returning'[u]) <=> (q[c] = "returning" /\ k[c] = u)
    /\ \A u \in Reactors, c \in Buffers : c \in ListMems(shard'[u].free) <=> (q[c] = "free" /\ k[c] = u)
    /\ \A u \in Threads : Unshared(returning'[u]) /\ \A x \in returning'[u] : Fits(x)
    /\ \A u \in Reactors : /\ ListUnshared(shard'[u].free)
                           /\ \A i \in DOMAIN shard'[u].free : Fits(shard'[u].free[i])

TailSplit(r, s, n, m, f, R) ==
    /\ returning[r] = {} /\ s = shard[r].free /\ n \in 0..Len(s) /\ m \in Nat /\ (m = n \/ m = n - 1)
    /\ f \in Seq(BufferType) /\ Len(f) = m /\ \A i \in 1..m : f[i] = s[i]
    /\ shard'[r].free = f /\ \A u \in Reactors : u # r => shard'[u].free = shard[u].free
    /\ R = {s[i] : i \in (n + 1)..Len(s)} /\ returning'[r] = R
    /\ \A u \in Threads : u # r => returning'[u] = returning[u]

LEMMA TailMoves ==
    ASSUME BounceInv, NEW p, NEW k, InPlace(p, k), NEW r \in Reactors,
           NEW s, NEW n, NEW m, NEW f, NEW R, TailSplit(r, s, n, m, f, R)
    PROVE  \E q : TailMoved(r, p, k, q, IF m < n THEN {s[n].mem} ELSE {})
<1> USE DEF TailSplit
<1>1. /\ s \in Seq(BufferType) /\ ListUnshared(s) /\ \A i \in DOMAIN s : Fits(s[i])
      /\ r \in Threads
  BY DEF BounceInv, NoneShared, BounceTyped, ShardType, SizesFit, Threads
<1>2. /\ ListUnshared(f) /\ Unshared(R)
      /\ \A c : c \in ListMems(s) <=> c \in ListMems(f) \/ c \in Mems(R) \/ (m < n /\ c = s[n].mem)
      /\ \A c : ~(c \in ListMems(f) /\ c \in Mems(R))
      /\ m < n => s[n].mem \notin ListMems(f) /\ s[n].mem \notin Mems(R)
  <2>1. Splits(s, n, m, f, R)
    BY <1>1, Zenon DEF Splits
  <2>2. SplitParts(s, n, m, f, R)
    BY <2>1, ListSplit
  <2> QED BY <2>2, Zenon DEF SplitParts
<1>3. PICK M, F, H : M = Mems(R) /\ F = ListMems(f) /\ H = IF m < n THEN {s[n].mem} ELSE {}
  OBVIOUS
<1>4. /\ \A c : c \in ListMems(s) <=> c \in F \/ c \in M \/ c \in H
      /\ \A c : ~(c \in F /\ c \in M) /\ ~(c \in F /\ c \in H) /\ ~(c \in M /\ c \in H)
  BY <1>2, <1>3
<1>5. \A c \in ListMems(s) : c \in Buffers
  <2>1. \A i \in DOMAIN s : s[i] \in BufferType
    BY <1>1
  <2>2. \A i \in DOMAIN s : s[i].mem \in Buffers
    BY <2>1 DEF BufferType
  <2> QED BY <2>2 DEF ListMems
<1>6. \A c \in Buffers : c \in ListMems(s) <=> (p[c] = "free" /\ k[c] = r)
  BY DEF InPlace
<1>7. \A c \in Buffers : ~(p[c] = "returning" /\ k[c] = r)
  BY <1>1, MemsNone DEF InPlace
<1> PICK q : q = [c \in Buffers |-> IF c \in M THEN "returning" ELSE IF c \in H THEN "held" ELSE p[c]]
  OBVIOUS
<1>8. \A c \in Buffers : q[c] = IF c \in M THEN "returning" ELSE IF c \in H THEN "held" ELSE p[c]
  OBVIOUS
<1>9. /\ \A c \in Buffers : q[c] = "held" <=> p[c] = "held" \/ c \in H
      /\ \A c \in H : c \in Buffers /\ p[c] = "free" /\ k[c] = r
  BY <1>4, <1>5, <1>6, <1>8
<1>10. \A c \in Buffers : \A v \in {"none", "pool", "stale", "recycling"} : q[c] = v <=> p[c] = v
  BY <1>4, <1>6, <1>8
<1>11. /\ \A c \in Buffers : q[c] \in {"none", "pool", "stale", "held", "returning", "recycling", "free"}
       /\ \A c \in Buffers : /\ q[c] = "returning" => k[c] \in Threads
                             /\ q[c] = "free" => k[c] \in Reactors
  BY <1>1, <1>4, <1>6, <1>8 DEF InPlace
<1>12. ASSUME NEW u \in Threads
       PROVE  /\ \A c \in Buffers : c \in Mems(returning'[u]) <=> (q[c] = "returning" /\ k[c] = u)
              /\ Unshared(returning'[u]) /\ \A x \in returning'[u] : Fits(x)
  <2>1. CASE u = r
    <3>1. \A c \in Buffers : c \in M <=> (q[c] = "returning" /\ k[c] = r)
      BY <1>4, <1>6, <1>7, <1>8
    <3>2. \A x \in R : Fits(x)
      <4> SUFFICES ASSUME NEW x \in R PROVE Fits(x)
        OBVIOUS
      <4>1. PICK i \in (n + 1)..Len(s) : x = s[i]
        OBVIOUS
      <4>2. i \in DOMAIN s
        BY <1>1
      <4> QED BY <1>1, <4>1, <4>2
    <3>3. returning'[u] = R
      BY <2>1
    <3> QED BY <1>2, <1>3, <2>1, <3>1, <3>2, <3>3, Zenon
  <2>2. CASE u # r
    <3>1. \A c \in Buffers : c \in Mems(returning[u]) <=> (p[c] = "returning" /\ k[c] = u)
      BY DEF InPlace
    <3>2. \A c \in Buffers : (q[c] = "returning" /\ k[c] = u) <=> (p[c] = "returning" /\ k[c] = u)
      BY <1>4, <1>6, <1>8, <2>2
    <3>3. Unshared(returning[u]) /\ \A x \in returning[u] : Fits(x)
      BY DEF BounceInv, NoneShared, SizesFit
    <3>4. returning'[u] = returning[u]
      BY <2>2
    <3> QED BY <3>1, <3>2, <3>3, <3>4, Zenon
  <2> QED BY <2>1, <2>2
<1>13. ASSUME NEW u \in Reactors
       PROVE  /\ \A c \in Buffers : c \in ListMems(shard'[u].free) <=> (q[c] = "free" /\ k[c] = u)
              /\ ListUnshared(shard'[u].free)
              /\ \A i \in DOMAIN shard'[u].free : Fits(shard'[u].free[i])
  <2>1. CASE u = r
    <3>1. \A c \in Buffers : c \in F <=> (q[c] = "free" /\ k[c] = r)
      BY <1>4, <1>6, <1>8
    <3>2. \A i \in DOMAIN f : Fits(f[i])
      <4> SUFFICES ASSUME NEW i \in DOMAIN f PROVE Fits(f[i])
        OBVIOUS
      <4>1. i \in DOMAIN s /\ f[i] = s[i]
        BY <1>1
      <4> QED BY <1>1, <4>1
    <3>3. shard'[u].free = f
      BY <2>1
    <3> QED BY <1>2, <1>3, <2>1, <3>1, <3>2, <3>3, Zenon
  <2>2. CASE u # r
    <3>1. \A c \in Buffers : c \in ListMems(shard[u].free) <=> (p[c] = "free" /\ k[c] = u)
      BY DEF InPlace
    <3>2. \A c \in Buffers : (q[c] = "free" /\ k[c] = u) <=> (p[c] = "free" /\ k[c] = u)
      BY <1>4, <1>6, <1>8, <2>2
    <3>3. ListUnshared(shard[u].free) /\ \A i \in DOMAIN shard[u].free : Fits(shard[u].free[i])
      BY DEF BounceInv, NoneShared, SizesFit
    <3>4. shard'[u].free = shard[u].free
      BY <2>2
    <3> QED BY <3>1, <3>2, <3>3, <3>4, Zenon
  <2> QED BY <2>1, <2>2
<1>14. TailMoved(r, p, k, q, H)
  BY <1>9, <1>10, <1>11, <1>12, <1>13, Zenon DEF TailMoved
<1> QED BY <1>3, <1>14, Zenon

\* What every outcome of try_get() does to the lists: the first m of the n usable Buffers stay.
TryFrame(r, s, n, m, f, R) ==
    /\ TailSplit(r, s, n, m, f, R)
    /\ shard' \in [Reactors -> ShardType] /\ shard'[r].flying = shard[r].flying
    /\ \A u \in Reactors : u # r => shard'[u] = shard[u]
    /\ returning' \in [Threads -> SUBSET BufferType]
    /\ UNCHANGED <<setting, poolSize, poolFree, bytes, stale, recycling>>

\* try_get() reuses the last usable Buffer of the shard, as x.
ReusesLast(r, s, n, m, x) ==
    /\ m = n - 1 /\ s[n].size = setting /\ asked' = asked
    /\ x \in BufferType /\ x.mem = s[n].mem /\ x.size = s[n].size /\ x.need = task[r]
    /\ Take(r, x) /\ shard'[r].out = shard[r].out + 1

LEMMA TryReuseInv ==
    ASSUME BounceInv, NEW r \in Reactors, NEW s, NEW n, NEW m, NEW f, NEW R, TryFrame(r, s, n, m, f, R),
           NEW x, ReusesLast(r, s, n, m, x)
    PROVE  BounceInv'
<1> USE BounceAssumption DEF ReusesLast
<1>0. PICK p, k : InPlace(p, k)
  BY DEF BounceInv, AllPlaced
<1>1. /\ shard' \in [Reactors -> ShardType] /\ shard'[r].flying = shard[r].flying
      /\ \A u \in Reactors : u # r => shard'[u] = shard[u]
      /\ returning' \in [Threads -> SUBSET BufferType]
      /\ UNCHANGED <<setting, poolSize, poolFree, bytes, stale, recycling, asked>>
      /\ s = shard[r].free /\ n \in Nat /\ n <= Len(s) /\ n > 0 /\ Len(shard'[r].free) = n - 1 /\ Len(s) \in Nat
  <2>1. s \in Seq(BufferType)
    BY DEF TryFrame, TailSplit, BounceInv, BounceTyped, ShardType
  <2> QED BY <2>1 DEF TryFrame, TailSplit
<1>2. setting \in Nat /\ r \in Threads /\ n \in DOMAIN s
  BY <1>1 DEF BounceInv, BounceTyped, Threads, ShardType
<1>3. PICK q : TailMoved(r, p, k, q, {x.mem})
  <2>1. PICK q : TailMoved(r, p, k, q, IF m < n THEN {s[n].mem} ELSE {})
    BY <1>0, TailMoves DEF TryFrame
  <2>2. (IF m < n THEN {s[n].mem} ELSE {}) = {x.mem}
    BY <1>1
  <2> QED BY <2>1, <2>2
<1>4. /\ \A c \in Buffers : q[c] = "held" <=> p[c] = "held" \/ c = x.mem
      /\ x.mem \in Buffers /\ p[x.mem] = "free" /\ k[x.mem] = r
  BY <1>3 DEF TailMoved
<1>5. /\ held'[r] = held[r] \cup {x} /\ \A u \in Threads : u # r => held'[u] = held[u]
      /\ held' \in [Threads -> SUBSET BufferType] /\ task' \in [Reactors -> TaskType]
      /\ \A u \in Reactors : task'[u] = IF u = r THEN NoTask ELSE task[u]
  BY <1>2, TakeEffect
<1>6. /\ \A u \in Threads, c \in Buffers :
            c \in Mems(held'[u]) <=> IF c = x.mem THEN u = r ELSE p[c] = "held" /\ k[c] = u
      /\ \A u \in Threads : Unshared(held'[u])
      /\ \A u \in Threads : IsFiniteSet(held[u]) =>
            /\ IsFiniteSet(held'[u])
            /\ Cardinality(held'[u]) = Cardinality(held[u]) + (IF u = r THEN 1 ELSE 0)
  BY <1>0, <1>2, <1>4, <1>5, HeldGains
<1>7. BounceTyped'
  BY <1>1, <1>5 DEF BounceInv, BounceTyped
<1>8. NoneShared'
  BY <1>1, <1>3, <1>6 DEF BounceInv, NoneShared, TailMoved
<1>9. AllPlaced'
  <2>1. \A u \in Threads, c \in Buffers : c \in Mems(held'[u]) <=> (q[c] = "held" /\ k[c] = u)
    BY <1>4, <1>6
  <2>2. \A c \in Buffers : q[c] = "held" => k[c] \in Threads
    BY <1>0, <1>2, <1>4 DEF InPlace
  <2>3. \A c \in Buffers : /\ q[c] = "stale" => k[c] \in Threads
                           /\ q[c] = "recycling" => k[c] \in Reactors
    BY <1>0, <1>3 DEF InPlace, TailMoved
  <2>4. InPlace(q, k)'
    BY <1>0, <1>1, <1>3, <2>1, <2>2, <2>3 DEF InPlace, TailMoved
  <2> QED BY <2>4 DEF AllPlaced
<1>10. SizesFit'
  <2>1. Fits(s[n])
    BY <1>1, <1>2 DEF BounceInv, SizesFit
  <2>2. task[r].floor <= setting /\ task[r] \in TaskType
    BY DEF BounceInv, SizesFit, BounceTyped
  <2>3. Fits(x)
    BY <2>1, <2>2 DEF Fits
  <2>4. \A u \in Threads : \A y \in held'[u] : Fits(y)
    BY <1>5, <2>3 DEF BounceInv, SizesFit
  <2>5. \A u \in Reactors : task'[u].floor <= setting /\ (asked[u] > 0 => task'[u].floor <= asked[u])
    BY <1>2, <1>5, TaskFields DEF BounceInv, SizesFit, BounceTyped, Threads
  <2> QED BY <1>1, <1>3, <2>4, <2>5 DEF BounceInv, SizesFit, Fits, TailMoved
<1>11. ShardsCounted'
  <2> SUFFICES ASSUME NEW u \in Reactors
               PROVE  /\ IsFiniteSet(held'[u]) /\ IsFiniteSet(recycling'[u])
                      /\ Len(shard'[u].free) + shard'[u].out + shard'[u].flying <= Cap
                      /\ shard'[u].flying = Cardinality(recycling'[u])
                      /\ shard'[u].out = Cardinality(held'[u]) + (IF asked'[u] = 0 THEN 0 ELSE 1)
    BY DEF ShardsCounted
  <2>1. /\ IsFiniteSet(held[u]) /\ IsFiniteSet(recycling[u])
        /\ Len(shard[u].free) + shard[u].out + shard[u].flying <= Cap
        /\ shard[u].flying = Cardinality(recycling[u])
        /\ shard[u].out = Cardinality(held[u]) + (IF asked[u] = 0 THEN 0 ELSE 1)
    BY DEF BounceInv, ShardsCounted
  <2>2. /\ Cardinality(held[u]) \in Nat /\ u \in Threads
        /\ shard[u].out \in Int /\ shard[u].flying \in Int
    BY <2>1, FS_CardinalityType DEF Threads, BounceInv, BounceTyped, ShardType
  <2>3. /\ IsFiniteSet(held'[u])
        /\ Cardinality(held'[u]) = Cardinality(held[u]) + (IF u = r THEN 1 ELSE 0)
    BY <1>6, <2>1, <2>2
  <2>4. asked'[u] = asked[u] /\ recycling'[u] = recycling[u]
    BY <1>1
  <2>5. CASE u = r
    <3>1. /\ Len(shard'[u].free) = n - 1 /\ shard'[u].out = shard[u].out + 1 /\ Len(shard[u].free) = Len(s)
          /\ shard'[u].flying = shard[u].flying /\ Cardinality(held'[u]) = Cardinality(held[u]) + 1
      BY <1>1, <2>3, <2>5
    <3>3. Len(s) \in Nat /\ n \in Nat /\ n <= Len(s)
      BY <1>1
    <3>2. Len(shard'[u].free) + shard'[u].out + shard'[u].flying <= Cap
      BY <2>1, <2>2, <3>1, <3>3
    <3> QED BY <2>1, <2>2, <2>3, <2>4, <3>1, <3>2
  <2>6. CASE u # r
    <3>1. shard'[u] = shard[u] /\ Cardinality(held'[u]) = Cardinality(held[u])
      BY <1>1, <2>2, <2>3, <2>6
    <3> QED BY <2>1, <2>2, <2>3, <2>4, <3>1
  <2> QED BY <2>5, <2>6
<1> QED BY <1>7, <1>8, <1>9, <1>10, <1>11 DEF BounceInv

\* try_get() finds no usable Buffer: the pool is asked for one, or the cap is reached.
LEMMA TryMissInv ==
    ASSUME BounceInv, NEW r \in Reactors, NEW s, NEW n, NEW m, NEW f, NEW R, TryFrame(r, s, n, m, f, R),
           m = n, n = 0, asked[r] = 0, held' = held, task' = task,
           \/ asked' = [asked EXCEPT ![r] = Asking] /\ shard'[r].out = shard[r].out + 1
                 /\ shard[r].out + shard[r].flying < Cap
           \/ asked' = asked /\ shard'[r].out = shard[r].out
    PROVE  BounceInv'
<1> USE BounceAssumption
<1>0. PICK p, k : InPlace(p, k)
  BY DEF BounceInv, AllPlaced
<1>1. /\ shard' \in [Reactors -> ShardType] /\ shard'[r].flying = shard[r].flying
      /\ \A u \in Reactors : u # r => shard'[u] = shard[u]
      /\ returning' \in [Threads -> SUBSET BufferType]
      /\ UNCHANGED <<setting, poolSize, poolFree, bytes, stale, recycling, held, task>>
      /\ s = shard[r].free /\ Len(shard'[r].free) = 0 /\ Len(s) \in Nat
  <2>1. s \in Seq(BufferType)
    BY DEF TryFrame, TailSplit, BounceInv, BounceTyped, ShardType
  <2> QED BY <2>1 DEF TryFrame, TailSplit
<1>2. /\ asked' \in [Threads -> Int] /\ \A u \in Threads : u # r => asked'[u] = asked[u]
      /\ asked'[r] <= 0 /\ asked'[r] \in Int /\ r \in Threads
      /\ \/ asked'[r] # 0 /\ shard'[r].out = shard[r].out + 1 /\ shard[r].out + shard[r].flying < Cap
         \/ asked'[r] = 0 /\ shard'[r].out = shard[r].out
  BY DEF BounceInv, BounceTyped, Threads, Asking
<1>3. PICK q : TailMoved(r, p, k, q, {})
  <2>1. PICK q : TailMoved(r, p, k, q, IF m < n THEN {s[n].mem} ELSE {})
    BY <1>0, TailMoves DEF TryFrame
  <2>2. (IF m < n THEN {s[n].mem} ELSE {}) = {}
    OBVIOUS
  <2> QED BY <2>1, <2>2
<1>7. BounceTyped'
  BY <1>1, <1>2 DEF BounceInv, BounceTyped
<1>8. NoneShared'
  BY <1>1, <1>3 DEF BounceInv, NoneShared, TailMoved
<1>9. AllPlaced'
  <2>1. \A u \in Threads, c \in Buffers : c \in Mems(held'[u]) <=> (q[c] = "held" /\ k[c] = u)
    BY <1>0, <1>1, <1>3 DEF InPlace, TailMoved
  <2>3. \A c \in Buffers : /\ q[c] \in {"stale", "held"} => k[c] \in Threads
                           /\ q[c] = "recycling" => k[c] \in Reactors
    BY <1>0, <1>3 DEF InPlace, TailMoved
  <2>4. InPlace(q, k)'
    BY <1>0, <1>1, <1>3, <2>1, <2>3 DEF InPlace, TailMoved
  <2> QED BY <2>4 DEF AllPlaced
<1>10. SizesFit'
  <2>5. \A u \in Reactors : task[u].floor <= setting /\ (asked'[u] > 0 => task[u].floor <= asked'[u])
    BY <1>2 DEF BounceInv, SizesFit, BounceTyped, Threads
  <2> QED BY <1>1, <1>3, <2>5 DEF BounceInv, SizesFit, Fits, TailMoved
<1>11. ShardsCounted'
  <2> SUFFICES ASSUME NEW u \in Reactors
               PROVE  /\ IsFiniteSet(held'[u]) /\ IsFiniteSet(recycling'[u])
                      /\ Len(shard'[u].free) + shard'[u].out + shard'[u].flying <= Cap
                      /\ shard'[u].flying = Cardinality(recycling'[u])
                      /\ shard'[u].out = Cardinality(held'[u]) + (IF asked'[u] = 0 THEN 0 ELSE 1)
    BY DEF ShardsCounted
  <2>1. /\ IsFiniteSet(held[u]) /\ IsFiniteSet(recycling[u])
        /\ Len(shard[u].free) + shard[u].out + shard[u].flying <= Cap
        /\ shard[u].flying = Cardinality(recycling[u])
        /\ shard[u].out = Cardinality(held[u]) + (IF asked[u] = 0 THEN 0 ELSE 1)
    BY DEF BounceInv, ShardsCounted
  <2>2. /\ Cardinality(held[u]) \in Nat /\ u \in Threads
        /\ shard[u].out \in Int /\ shard[u].flying \in Int
    BY <2>1, FS_CardinalityType DEF Threads, BounceInv, BounceTyped, ShardType
  <2>4. held'[u] = held[u] /\ recycling'[u] = recycling[u]
    BY <1>1
  <2>5. CASE u = r
    <3>1. /\ Len(shard'[u].free) = 0 /\ Len(shard[u].free) = Len(s)
          /\ shard'[u].flying = shard[u].flying /\ asked[u] = 0
          /\ \/ asked'[u] # 0 /\ shard'[u].out = shard[u].out + 1 /\ shard[u].out + shard[u].flying < Cap
             \/ asked'[u] = 0 /\ shard'[u].out = shard[u].out
      BY <1>1, <1>2, <2>5
    <3>2. Len(shard'[u].free) + shard'[u].out + shard'[u].flying <= Cap
      BY <1>1, <2>1, <2>2, <3>1
    <3>3. shard'[u].out = Cardinality(held[u]) + (IF asked'[u] = 0 THEN 0 ELSE 1)
      BY <2>1, <2>2, <3>1
    <3> QED BY <2>1, <2>4, <3>1, <3>2, <3>3
  <2>6. CASE u # r
    <3>1. shard'[u] = shard[u] /\ asked'[u] = asked[u]
      BY <1>1, <1>2, <2>2, <2>6
    <3> QED BY <2>1, <2>4, <3>1
  <2> QED BY <2>5, <2>6
<1> QED BY <1>7, <1>8, <1>9, <1>10, <1>11 DEF BounceInv

LEMMA TryGetInv ==
    ASSUME BounceInv, NEW r \in Reactors, TryGet(r)
    PROVE  BounceInv'
<1> USE BounceAssumption
<1> PICK s : s = shard[r].free
  OBVIOUS
<1>1. /\ s \in Seq(BufferType) /\ Len(s) \in Nat /\ r \in Threads
      /\ \A u \in Reactors : /\ shard[u] \in ShardType /\ shard[u].out \in Int /\ shard[u].flying \in Int
                             /\ shard[u].free \in Seq(BufferType)
  BY DEF BounceInv, BounceTyped, ShardType, Threads
<1>2. PICK n \in 0..Len(s) : /\ StaleTail(s) = (n + 1)..Len(s) /\ Usable(s) = SubSeq(s, 1, n)
                             /\ n > 0 => s[n].size = setting
  BY <1>1, UsablePart
<1> PICK R : R = {s[i] : i \in (n + 1)..Len(s)}
  OBVIOUS
<1> PICK g : g = SubSeq(s, 1, n)
  OBVIOUS
<1>3. g \in Seq(BufferType) /\ Len(g) = n /\ DOMAIN g = 1..n /\ \A i \in 1..n : g[i] = s[i]
  BY <1>1, ListFirst
<1>4. /\ asked[r] = 0 /\ returning[r] = {} /\ returning' = [returning EXCEPT ![r] = R]
      /\ UNCHANGED <<setting, poolSize, poolFree, bytes, stale, recycling>>
  <2>1. {shard[r].free[i] : i \in StaleTail(shard[r].free)} = R
    BY <1>2
  <2> QED BY <2>1 DEF TryGet, AtRest, poolVars
<1>5. R \subseteq BufferType
  <2>1. \A i \in (n + 1)..Len(s) : s[i] \in BufferType
    BY <1>1, <1>2
  <2> QED BY <2>1
<1>6. /\ returning'[r] = R /\ \A u \in Threads : u # r => returning'[u] = returning[u]
      /\ returning' \in [Threads -> SUBSET BufferType]
  BY <1>1, <1>4, <1>5 DEF BounceInv, BounceTyped
<1>7. Usable(shard[r].free) = g
  BY <1>2
<1>8. CASE /\ g # <<>>
           /\ Take(r, [Last(g) EXCEPT !.need = task[r]])
           /\ shard' = [shard EXCEPT ![r].free = Front(g), ![r].out = @ + 1]
           /\ UNCHANGED asked
  <2>1. n > 0 /\ n \in Nat /\ s[n].size = setting /\ n \in DOMAIN s
    BY <1>1, <1>2, <1>3, <1>8
  <2> PICK m, f : m = n - 1 /\ f = Front(g)
    OBVIOUS
  <2>2. m \in Nat /\ m \in 0..Len(g)
    BY <1>3, <2>1
  <2>3. f \in Seq(BufferType) /\ Len(f) = m /\ \A i \in 1..m : f[i] = s[i]
    <3>1. f = SubSeq(g, 1, m)
      BY <1>3 DEF Front
    <3>2. f \in Seq(BufferType) /\ Len(f) = m /\ \A i \in 1..m : f[i] = g[i]
      BY <1>3, <2>2, <3>1, ListFirst
    <3>3. \A i \in 1..m : i \in 1..n
      BY <2>1, <2>2
    <3> QED BY <1>3, <3>2, <3>3
  <2>4. Last(g) = s[n] /\ s[n] \in BufferType
    <3>1. Last(g) = g[n] /\ n \in 1..n
      BY <1>3, <2>1 DEF Last
    <3> QED BY <1>1, <1>3, <2>1, <3>1
  <2> PICK x : x = [Last(g) EXCEPT !.need = task[r]]
    OBVIOUS
  <2>5. x \in BufferType /\ x.mem = s[n].mem /\ x.size = s[n].size /\ x.need = task[r]
    <3>1. task[r] \in TaskType
      BY DEF BounceInv, BounceTyped
    <3> QED BY <2>4, <3>1 DEF BufferType
  <2>6. shard' = [shard EXCEPT ![r].free = f, ![r].out = @ + 1]
    BY <1>8
  <2>7. /\ shard' \in [Reactors -> ShardType] /\ shard'[r].flying = shard[r].flying
        /\ shard'[r].out = shard[r].out + 1 /\ shard'[r].free = f
        /\ \A u \in Reactors : u # r => shard'[u] = shard[u]
    <3>1. /\ shard'[r].free = f /\ shard'[r].out = shard[r].out + 1 /\ shard'[r].flying = shard[r].flying
          /\ \A u \in Reactors : u # r => shard'[u] = shard[u]
      BY <1>1, <2>6 DEF BounceInv, BounceTyped, ShardType
    <3>2. /\ shard' = [u \in Reactors |-> shard'[u]]
          /\ shard'[r] = [free |-> shard'[r].free, out |-> shard'[r].out, flying |-> shard'[r].flying]
      BY <1>1, <2>6 DEF BounceInv, BounceTyped, ShardType
    <3>3. shard'[r].free \in Seq(BufferType) /\ shard'[r].out \in Int /\ shard'[r].flying \in Int
      BY <1>1, <2>3, <3>1
    <3>4. shard'[r] \in ShardType
      BY <3>2, <3>3 DEF ShardType
    <3>5. shard' \in [Reactors -> ShardType]
      BY <1>1, <3>1, <3>2, <3>4
    <3> QED BY <3>1, <3>5
  <2>8. TailSplit(r, s, n, m, f, R)
    BY <1>4, <1>6, <2>2, <2>3, <2>7 DEF TailSplit
  <2>9. TryFrame(r, s, n, m, f, R)
    BY <1>4, <1>6, <2>7, <2>8 DEF TryFrame
  <2>10. Take(r, x) /\ asked' = asked
    BY <1>8
  <2>11. ReusesLast(r, s, n, m, x)
    BY <2>1, <2>5, <2>7, <2>10 DEF ReusesLast
  <2> QED BY <2>9, <2>11, TryReuseInv
<1>9. CASE /\ g = <<>> /\ UNCHANGED <<held, task>>
           /\ \/ /\ ~CapReached(shard[r], g)
                 /\ shard' = [shard EXCEPT ![r].free = g, ![r].out = @ + 1]
                 /\ asked' = [asked EXCEPT ![r] = Asking]
              \/ /\ shard' = [shard EXCEPT ![r].free = g]
                 /\ UNCHANGED asked
  <2>1. n = 0 /\ n \in Nat
    BY <1>2, <1>3, <1>9
  <2>2. /\ shard' \in [Reactors -> ShardType] /\ shard'[r].flying = shard[r].flying
        /\ shard'[r].free = g
        /\ \A u \in Reactors : u # r => shard'[u] = shard[u]
    <3>0. PICK d \in {0, 1} : \/ d = 1 /\ shard' = [shard EXCEPT ![r].free = g, ![r].out = @ + 1]
                              \/ d = 0 /\ shard' = [shard EXCEPT ![r].free = g]
      BY <1>9
    <3>1. /\ shard'[r].free = g /\ shard'[r].out = shard[r].out + d /\ shard'[r].flying = shard[r].flying
          /\ \A u \in Reactors : u # r => shard'[u] = shard[u]
      <4>1. CASE d = 1 /\ shard' = [shard EXCEPT ![r].free = g, ![r].out = @ + 1]
        BY <1>1, <4>1 DEF BounceInv, BounceTyped, ShardType
      <4>2. CASE d = 0 /\ shard' = [shard EXCEPT ![r].free = g]
        BY <1>1, <4>2 DEF BounceInv, BounceTyped, ShardType
      <4> QED BY <3>0, <4>1, <4>2
    <3>2. /\ shard' = [u \in Reactors |-> shard'[u]]
          /\ shard'[r] = [free |-> shard'[r].free, out |-> shard'[r].out, flying |-> shard'[r].flying]
      <4>1. CASE shard' = [shard EXCEPT ![r].free = g, ![r].out = @ + 1]
        BY <1>1, <4>1 DEF BounceInv, BounceTyped, ShardType
      <4>2. CASE shard' = [shard EXCEPT ![r].free = g]
        BY <1>1, <4>2 DEF BounceInv, BounceTyped, ShardType
      <4> QED BY <3>0, <4>1, <4>2
    <3>3. shard'[r].free \in Seq(BufferType) /\ shard'[r].out \in Int /\ shard'[r].flying \in Int
      BY <1>1, <1>3, <3>1
    <3>4. shard'[r] \in ShardType
      BY <3>2, <3>3 DEF ShardType
    <3>5. shard' \in [Reactors -> ShardType]
      BY <1>1, <3>1, <3>2, <3>4
    <3> QED BY <3>1, <3>5
  <2>3. \/ /\ asked' = [asked EXCEPT ![r] = Asking] /\ shard'[r].out = shard[r].out + 1
           /\ shard[r].out + shard[r].flying < Cap
        \/ asked' = asked /\ shard'[r].out = shard[r].out
    <3>1. CASE /\ ~CapReached(shard[r], g)
               /\ shard' = [shard EXCEPT ![r].free = g, ![r].out = @ + 1]
               /\ asked' = [asked EXCEPT ![r] = Asking]
      <4>1. Total([shard[r] EXCEPT !.free = g]) = shard[r].out + shard[r].flying
        BY <1>1, <1>3, <2>1 DEF Total, ShardType
      <4>2. shard[r].out + shard[r].flying < Cap
        BY <1>1, <3>1, <4>1 DEF CapReached
      <4>3. shard'[r].out = shard[r].out + 1
        BY <1>1, <3>1 DEF BounceInv, BounceTyped, ShardType
      <4> QED BY <3>1, <4>2, <4>3
    <3>2. CASE shard' = [shard EXCEPT ![r].free = g] /\ UNCHANGED asked
      <4>1. shard'[r].out = shard[r].out
        BY <1>1, <3>2 DEF BounceInv, BounceTyped, ShardType
      <4> QED BY <3>2, <4>1
    <3> QED BY <1>9, <3>1, <3>2
  <2>4. TailSplit(r, s, n, n, g, R)
    BY <1>3, <1>4, <1>6, <2>1, <2>2 DEF TailSplit
  <2>5. TryFrame(r, s, n, n, g, R)
    BY <1>4, <1>6, <2>2, <2>4 DEF TryFrame
  <2>6. held' = held /\ task' = task
    BY <1>9
  <2> QED BY <1>4, <2>1, <2>3, <2>5, <2>6, TryMissInv
<1> QED BY <1>7, <1>8, <1>9 DEF TryGet

LEMMA BounceStepInv == BounceInv /\ [BounceNext]_bounceVars => BounceInv'
<1> SUFFICES ASSUME BounceInv, [BounceNext]_bounceVars PROVE BounceInv'
  OBVIOUS
<1>1. ASSUME NEW n \in Sizes, SetBounceBufferSize(n) PROVE BounceInv'
  BY <1>1, SettingInv
<1>2. ASSUME NEW t \in Threads, Deallocate(t) \/ Allocate(t) PROVE BounceInv'
  BY <1>2, DeallocateInv, AllocateInv
<1>3. ASSUME NEW t \in Users, UserStep(t) PROVE BounceInv'
  <2>1. t \in Threads /\ t \notin Reactors
    BY BounceAssumption DEF Threads
  <2>2. CASE UserGet(t)
    <3>1. LockedGet(t) /\ UNCHANGED <<setting, bytes, returning, shard, recycling>>
      BY <2>2 DEF UserGet
    <3> QED BY <2>1, <3>1, LockedGetInv
  <2>3. CASE UserPut(t)
    BY <2>3, UserPutInv
  <2>4. CASE Clear(t)
    BY <2>1, <2>4, ClearInv
  <2> QED BY <1>3, <2>2, <2>3, <2>4 DEF UserStep
<1>4. ASSUME NEW r \in Reactors, ReactorStep(r) PROVE BounceInv'
  <2>1. r \in Threads
    BY DEF Threads
  <2>2. ASSUME NEW n \in Sizes, Submit(r, n) PROVE BounceInv'
    BY <2>2, SubmitInv
  <2>3. CASE AskPool(r)
    <3>1. asked[r] # 0 /\ LockedGet(r) /\ UNCHANGED <<setting, bytes, returning, shard, recycling>>
      BY <2>3 DEF AskPool, Asking
    <3> QED BY <2>1, <3>1, LockedGetInv
  <2>4. TryGet(r) \/ ReturnOne(r) => BounceInv'
    BY TryGetInv, ReturnOneInv
  <2>5. RecycleNow(r) \/ RecycleAfter(r) \/ RecycleCallback(r) => BounceInv'
    BY RecycleNowInv, RecycleAfterInv, RecycleCallbackInv
  <2> QED BY <1>4, <2>2, <2>3, <2>4, <2>5 DEF ReactorStep
<1>5. CASE UNCHANGED bounceVars
  <2>1. UNCHANGED <<setting, poolSize, poolFree, bytes, asked, held, stale, returning, shard, recycling, task>>
    BY <1>5 DEF bounceVars, poolVars, threadVars, cacheVars
  <2>2. BounceTyped' /\ NoneShared'
    BY <2>1 DEF BounceInv, BounceTyped, NoneShared
  <2>3. AllPlaced'
    BY <2>1 DEF BounceInv, AllPlaced, InPlace
  <2>4. SizesFit' /\ ShardsCounted'
    BY <2>1 DEF BounceInv, SizesFit, Fits, ShardsCounted
  <2> QED BY <2>2, <2>3, <2>4 DEF BounceInv
<1> QED BY <1>1, <1>2, <1>3, <1>4, <1>5 DEF BounceNext

\* What the inductive invariant says of the Buffers that OwnedBy() collects.
LEMMA OwnedFits ==
    ASSUME BounceInv, NEW p, NEW k, InPlace(p, k), NEW t \in Threads, NEW x \in OwnedBy(t)
    PROVE  x \in BufferType /\ Fits(x) /\ x.mem \in Buffers /\ k[x.mem] = t /\ p[x.mem] \notin {"none", "pool", "stale"}
<1>1. CASE x \in held[t]
  <2>1. x \in BufferType /\ x.mem \in Buffers /\ p[x.mem] = "held" /\ k[x.mem] = t
    BY <1>1, OwnedPlace DEF BounceInv
  <2> QED BY <1>1, <2>1 DEF BounceInv, SizesFit
<1>2. CASE x \in returning[t]
  <2>1. x \in BufferType /\ x.mem \in Buffers /\ p[x.mem] = "returning" /\ k[x.mem] = t
    BY <1>2, OwnedPlace DEF BounceInv
  <2> QED BY <1>2, <2>1 DEF BounceInv, SizesFit
<1>3. CASE t \in Reactors /\ x \in recycling[t]
  <2>1. x \in BufferType /\ x.mem \in Buffers /\ p[x.mem] = "recycling" /\ k[x.mem] = t
    BY <1>3, OwnedPlace DEF BounceInv
  <2> QED BY <1>3, <2>1 DEF BounceInv, SizesFit
<1>4. CASE t \in Reactors /\ x \in ToSet(shard[t].free)
  <2>1. PICK i \in DOMAIN shard[t].free : x = shard[t].free[i]
    BY <1>4 DEF ToSet
  <2>2. /\ shard[t].free[i] \in BufferType /\ shard[t].free[i].mem \in Buffers
        /\ p[shard[t].free[i].mem] = "free" /\ k[shard[t].free[i].mem] = t
    BY <1>4, OwnedPlace DEF BounceInv
  <2>3. Fits(shard[t].free[i])
    BY <1>4 DEF BounceInv, SizesFit
  <2>4. Fits(x)
    BY <2>1, <2>3
  <2> QED BY <2>1, <2>2, <2>4
<1> QED BY <1>1, <1>2, <1>3, <1>4 DEF OwnedBy

LEMMA SizesFromInv == BounceInv => BufferSizesHold
<1> SUFFICES ASSUME BounceInv PROVE BufferSizesHold
  OBVIOUS
<1>1. PICK p, k : InPlace(p, k)
  BY DEF BounceInv, AllPlaced
<1>2. \A t \in Threads : \A x \in OwnedBy(t) : Fits(x)
  BY <1>1, OwnedFits
<1> QED BY <1>2 DEF BounceInv, SizesFit, BufferSizesHold, Fits

LEMMA CountedFromInv == BounceInv => ShardIsCounted
  BY DEF BounceInv, ShardsCounted, ShardIsCounted, Total

\* The Buffer that owns an allocation that is neither free in the pool nor about to be freed.
LEMMA OneHolder ==
    ASSUME BounceInv, NEW p, NEW k, InPlace(p, k), NEW b \in Buffers
    PROVE  /\ p[b] \in {"none", "pool", "stale"} => ~ \E t \in Threads : \E x \in OwnedBy(t) : x.mem = b
           /\ p[b] \notin {"none", "pool", "stale"} =>
                 /\ k[b] \in Threads
                 /\ \E x \in OwnedBy(k[b]) : x.mem = b
                 /\ \A x, y \in OwnedBy(k[b]) : x.mem = b /\ y.mem = b => x = y
<1>1. p[b] \in {"none", "pool", "stale"} => ~ \E t \in Threads : \E x \in OwnedBy(t) : x.mem = b
  BY OwnedFits
<1>2. ASSUME p[b] \notin {"none", "pool", "stale"}
      PROVE  /\ k[b] \in Threads
             /\ \E x \in OwnedBy(k[b]) : x.mem = b
             /\ \A x, y \in OwnedBy(k[b]) : x.mem = b /\ y.mem = b => x = y
  <2> PICK t : t = k[b]
    OBVIOUS
  <2>0. t \in Threads
    BY <1>2 DEF InPlace, Threads
  <2>1. \A x \in held[t] : p[x.mem] = "held"
    BY <2>0, OwnedPlace DEF BounceInv
  <2>2. \A x \in returning[t] : p[x.mem] = "returning"
    BY <2>0, OwnedPlace DEF BounceInv
  <2>3. t \in Reactors => \A x \in recycling[t] : p[x.mem] = "recycling"
    BY OwnedPlace DEF BounceInv
  <2>4. t \in Reactors => \A x \in ToSet(shard[t].free) : p[x.mem] = "free"
    BY OwnedPlace DEF BounceInv, ToSet
  <2>5. CASE p[b] = "held"
    <3>1. b \in Mems(held[t])
      BY <2>0, <2>5 DEF InPlace
    <3>2. PICK x \in held[t] : x.mem = b
      BY <3>1 DEF Mems
    <3>3. \A y \in OwnedBy(t) : y.mem = b => y \in held[t]
      BY <2>2, <2>3, <2>4, <2>5 DEF OwnedBy
    <3>4. x \in OwnedBy(t)
      BY DEF OwnedBy
    <3>5. \A y, z \in held[t] : y.mem = z.mem => y = z
      BY <2>0 DEF BounceInv, NoneShared, Unshared
    <3> QED BY <2>0, <3>2, <3>3, <3>4, <3>5
  <2>6. CASE p[b] = "returning"
    <3>1. b \in Mems(returning[t])
      BY <2>0, <2>6 DEF InPlace
    <3>2. PICK x \in returning[t] : x.mem = b
      BY <3>1 DEF Mems
    <3>3. \A y \in OwnedBy(t) : y.mem = b => y \in returning[t]
      BY <2>1, <2>3, <2>4, <2>6 DEF OwnedBy
    <3>4. x \in OwnedBy(t)
      BY DEF OwnedBy
    <3>5. \A y, z \in returning[t] : y.mem = z.mem => y = z
      BY <2>0 DEF BounceInv, NoneShared, Unshared
    <3> QED BY <2>0, <3>2, <3>3, <3>4, <3>5
  <2>7. CASE p[b] = "recycling"
    <3>0. t \in Reactors
      BY <2>7 DEF InPlace
    <3>1. b \in Mems(recycling[t])
      BY <3>0, <2>7 DEF InPlace
    <3>2. PICK x \in recycling[t] : x.mem = b
      BY <3>1 DEF Mems
    <3>3. \A y \in OwnedBy(t) : y.mem = b => y \in recycling[t]
      BY <2>1, <2>2, <2>4, <2>7, <3>0 DEF OwnedBy
    <3>4. x \in OwnedBy(t)
      BY <3>0 DEF OwnedBy
    <3>5. \A y, z \in recycling[t] : y.mem = z.mem => y = z
      BY <3>0 DEF BounceInv, NoneShared, Unshared
    <3> QED BY <2>0, <3>2, <3>3, <3>4, <3>5
  <2>8. CASE p[b] = "free"
    <3>0. t \in Reactors
      BY <2>8 DEF InPlace
    <3>1. b \in ListMems(shard[t].free)
      BY <3>0, <2>8 DEF InPlace
    <3> PICK S : S = ToSet(shard[t].free)
      OBVIOUS
    <3>2. PICK x \in S : x.mem = b
      BY <3>1 DEF ListMems, ToSet
    <3>3. \A y \in OwnedBy(t) : y.mem = b => y \in S
      BY <2>1, <2>2, <2>3, <2>8, <3>0 DEF OwnedBy
    <3>4. x \in OwnedBy(t)
      BY <3>0 DEF OwnedBy
    <3>5. \A y, z \in S : y.mem = z.mem => y = z
      BY <3>0 DEF BounceInv, NoneShared, ListUnshared, ToSet
    <3> QED BY <2>0, <3>2, <3>3, <3>4, <3>5
  <2>9. p[b] \in {"none", "pool", "stale", "held", "returning", "recycling", "free"}
    BY DEF InPlace
  <2> QED BY <1>2, <2>5, <2>6, <2>7, <2>8, <2>9
<1> QED BY <1>1, <1>2

\* The two sets of owners that OneOwner counts for b.
StaleOwners(b) == {t \in Threads : b \in stale[t]}
Holders(b) == {o \in Threads \X UNION {OwnedBy(t) : t \in Threads} : o[2] \in OwnedBy(o[1]) /\ o[2].mem = b}

LEMMA OneOwnerFromInv == BounceInv => OneOwner
<1> SUFFICES ASSUME BounceInv, NEW b \in Buffers
             PROVE  (IF b \in poolFree THEN 1 ELSE 0) + Cardinality(StaleOwners(b)) + Cardinality(Holders(b))
                        = IF bytes[b] = 0 THEN 0 ELSE 1
  BY DEF OneOwner, StaleOwners, Holders
<1>1. PICK p, k : InPlace(p, k)
  BY DEF BounceInv, AllPlaced
<1>2. Cardinality({}) = 0 /\ \A x : Cardinality({x}) = 1
  BY FS_EmptySet, FS_Singleton
<1>3. /\ b \in poolFree <=> p[b] = "pool"
      /\ bytes[b] = 0 <=> p[b] = "none"
  BY <1>1 DEF InPlace
<1>4. Cardinality(StaleOwners(b)) = IF p[b] = "stale" THEN 1 ELSE 0
  <2>1. \A t \in Threads : b \in stale[t] <=> (p[b] = "stale" /\ k[b] = t)
    BY <1>1 DEF InPlace
  <2>2. CASE p[b] = "stale"
    <3>1. k[b] \in Threads
      BY <1>1, <2>2 DEF InPlace
    <3>2. StaleOwners(b) = {k[b]}
      BY <2>1, <2>2, <3>1 DEF StaleOwners
    <3>3. Cardinality(StaleOwners(b)) = 1
      BY <1>2, <3>2, Zenon
    <3> QED BY <2>2, <3>3
  <2>3. CASE p[b] # "stale"
    <3>1. StaleOwners(b) = {}
      BY <2>1, <2>3 DEF StaleOwners
    <3>2. Cardinality(StaleOwners(b)) = 0
      BY <1>2, <3>1, Zenon
    <3> QED BY <2>3, <3>2
  <2> QED BY <2>2, <2>3
<1>5. Cardinality(Holders(b)) = IF p[b] \in {"none", "pool", "stale"} THEN 0 ELSE 1
  <2>1. CASE p[b] \in {"none", "pool", "stale"}
    <3>1. ~ \E t \in Threads : \E x \in OwnedBy(t) : x.mem = b
      BY <1>1, <2>1, OneHolder
    <3>2. Holders(b) = {}
      BY <3>1 DEF Holders
    <3>3. Cardinality(Holders(b)) = 0
      BY <1>2, <3>2, Zenon
    <3> QED BY <2>1, <3>3
  <2>2. CASE p[b] \notin {"none", "pool", "stale"}
    <3> PICK t : t = k[b]
      OBVIOUS
    <3>1. /\ t \in Threads
          /\ \E x \in OwnedBy(t) : x.mem = b
          /\ \A x, y \in OwnedBy(t) : x.mem = b /\ y.mem = b => x = y
      BY <1>1, <2>2, OneHolder
    <3>2. PICK x \in OwnedBy(t) : x.mem = b
      BY <3>1
    <3>3. \A u \in Threads : \A y \in OwnedBy(u) : y.mem = b => u = t
      BY <1>1, OwnedFits
    <3>4. \A o \in Holders(b) : o = <<t, x>>
      <4> SUFFICES ASSUME NEW o \in Holders(b) PROVE o = <<t, x>>
        OBVIOUS
      <4>1. o \in Threads \X UNION {OwnedBy(u) : u \in Threads} /\ o[2] \in OwnedBy(o[1]) /\ o[2].mem = b
        BY DEF Holders
      <4>2. o = <<o[1], o[2]>> /\ o[1] \in Threads
        BY <4>1
      <4>3. o[1] = t
        BY <3>3, <4>1, <4>2
      <4>4. o[2] = x
        BY <3>1, <3>2, <4>1, <4>3
      <4> QED BY <4>2, <4>3, <4>4
    <3>5. <<t, x>> \in Holders(b)
      BY <3>1, <3>2 DEF Holders
    <3>6. Holders(b) = {<<t, x>>}
      BY <3>4, <3>5
    <3>7. Cardinality(Holders(b)) = 1
      BY <1>2, <3>6, Zenon
    <3> QED BY <2>2, <3>7
  <2> QED BY <2>1, <2>2
<1> QED BY <1>3, <1>4, <1>5

LEMMA BounceInvariant == BounceSpec => []BounceInv
  BY BounceInitInv, BounceStepInv, PTL DEF BounceSpec

\* BounceBufferPool and the cache of the reactors: whatever changes bounce_buffer_size() and
\* whenever, all free buffers of the pool are of the pool's size, and every Buffer claims what
\* was allocated and holds the task it was given to.
THEOREM BufferSizesAreTrue == BounceSpec => []BufferSizesHold
  BY BounceInvariant, SizesFromInv, PTL

\* BounceBufferPool, Buffer, the cache of the reactors: every allocation has one owner until
\* it is freed, for any number of threads and reactors.
THEOREM BuffersHaveOneOwner == BounceSpec => []OneOwner
  BY BounceInvariant, OneOwnerFromInv, PTL

\* Shard: the counters of a shard say what is checked out and in flight, and the cap holds.
THEOREM ShardsAreCounted == BounceSpec => []ShardIsCounted
  BY BounceInvariant, CountedFromInv, PTL

-------------------------------------------------------------------------------
(* PosixIo: rounding to pages.                                             *)

LEMMA PageRest ==
    ASSUME NEW n \in Int
    PROVE  /\ n % Page \in 0..(Page - 1) /\ n \div Page \in Int
           /\ n = Page * (n \div Page) + (n % Page)
  BY PosixAssumption

LEMMA DownIsAligned ==
    ASSUME NEW n \in Int
    PROVE  /\ AlignDown(n) \in Int /\ Aligned(AlignDown(n))
           /\ n - Page < AlignDown(n) /\ AlignDown(n) <= n
           /\ n >= 0 => AlignDown(n) >= 0
  <1>1. AlignDown(n) \in Int /\ AlignDown(n) <= n /\ AlignDown(n) > n - Page
    BY PageRest, PosixAssumption DEF AlignDown
  <1>2. AlignDown(n) = Page * (n \div Page)
    BY PageRest, PosixAssumption DEF AlignDown
  <1>3. \A q \in Int : (Page * q) % Page = 0
    BY PosixAssumption
  <1>4. n >= 0 => n \div Page >= 0
    BY PosixAssumption
  <1>5. n >= 0 => Page * (n \div Page) >= 0
    BY <1>4, PageRest, PosixAssumption
  <1> QED
    BY <1>1, <1>2, <1>3, <1>5, PageRest DEF Aligned

LEMMA PagesApart ==
    ASSUME NEW x \in Int, NEW y \in Int, x >= y + 1
    PROVE  Page * x >= Page * y + Page
  BY PosixAssumption

LEMMA DownIsMonotone ==
    ASSUME NEW a \in Int, NEW b \in Int, a <= b
    PROVE  AlignDown(a) <= AlignDown(b)
  <1> DEFINE x == a \div Page
             y == b \div Page
  <1>1. x \in Int /\ y \in Int /\ AlignDown(a) = Page * x /\ AlignDown(b) = Page * y
    BY PageRest, PosixAssumption DEF AlignDown
  <1>2. Page * x <= a /\ Page * y > b - Page
    BY <1>1, DownIsAligned
  <1> HIDE DEF x, y
  <1>3. Page * x \in Int /\ Page * y \in Int
    BY <1>1, PosixAssumption
  <1>4. CASE x >= y + 1
    BY <1>1, <1>2, <1>3, <1>4, PagesApart, PosixAssumption
  <1>5. CASE x <= y
    <2>1. x = y \/ y >= x + 1
      BY <1>1, <1>5
    <2> QED
      BY <2>1, <1>1, <1>3, PagesApart, PosixAssumption
  <1> QED
    BY <1>1, <1>4, <1>5

LEMMA UpIsAbove ==
    ASSUME NEW n \in Int
    PROVE  AlignUp(n) \in Int /\ n <= AlignUp(n)
  <1>1. n + Page - 1 \in Int
    BY PosixAssumption
  <1> QED
    BY <1>1, DownIsAligned, PosixAssumption DEF AlignUp

LEMMA UpIsMonotone ==
    ASSUME NEW a \in Int, NEW b \in Int, a <= b
    PROVE  AlignUp(a) <= AlignUp(b)
  <1>1. a + Page - 1 \in Int /\ b + Page - 1 \in Int /\ a + Page - 1 <= b + Page - 1
    BY PosixAssumption
  <1> QED
    BY <1>1, DownIsMonotone DEF AlignUp

-------------------------------------------------------------------------------
(* PosixIo: a call moves its range.                                        *)

\* n bytes from file position f on, at the positions of a buffer from 0 on.
Piece(f, n) == {<<f + i, i>> : i \in 0..(n - 1)}

CallHolds ==
    /\ call \in IoCalls /\ ~Undersized
    /\ call.path = "overread" => ~call.write
ProgressHolds ==
    /\ done \in Nat /\ done <= call.size
    /\ inner \in [off : Int, left : Nat, at : Nat]
    /\ ioPc \in {"outer", "io", "copy", "returned", "failed"}
    /\ call.path # "host" => inner.at + inner.left <= AlignUp(call.bounce)

OuterHolds == done < call.size /\ moved = Piece(call.off, done)

\* Inside a turn: what has arrived, and what is left of the turn's request.
IoHolds ==
    /\ done < call.size /\ inner.left > 0
    /\ call.path = "host" => /\ done = 0 /\ inner.off = call.off + inner.at
                             /\ inner.at + inner.left = call.size
                             /\ moved = Piece(call.off, inner.at)
    /\ call.path = "device" /\ call.write =>
          /\ inner.off = Cur + inner.at /\ inner.at + inner.left <= Left
          /\ staged = Piece(Cur, inner.at + inner.left)
          /\ moved = Piece(call.off, done + inner.at)
    /\ Partial => /\ inner.at = 0 /\ inner.off = Cur - Skip
                  /\ call.path = "device" => inner.left <= Left
                  /\ moved = Piece(call.off, done)
CopyHolds ==
    /\ done < call.size /\ inner.at > 0
    /\ call.path = "host" => /\ done = 0 /\ inner.at = call.size
                             /\ moved = Piece(call.off, call.size)
    /\ call.path = "device" => inner.at <= Left
    /\ call.path = "device" /\ call.write => moved = Piece(call.off, done + inner.at)
    /\ Partial => /\ staged = Piece(Cur - Skip, inner.at)
                  /\ moved = Piece(call.off, done)

\* A host call is one turn.
HostStarts == call.path = "host" /\ ioPc # "returned" => done = 0

PosixInv ==
    /\ CallHolds /\ ProgressHolds
    /\ moved \subseteq WantedBytes
    /\ HostStarts
    /\ ioPc = "outer" => OuterHolds
    /\ ioPc = "io" => IoHolds
    /\ ioPc = "copy" => CopyHolds
    /\ ioPc = "returned" => moved = WantedBytes

LEMMA CallFacts ==
    ASSUME CallHolds
    PROVE  /\ call.off \in Nat /\ call.size \in Nat \ {0}
           /\ call.bounce \in Nat \ {0} /\ (call.path = "overread" => call.bounce >= Page)
           /\ call.path \in IoPaths /\ call.write \in BOOLEAN /\ call.direct \in BOOLEAN
  <1>1. /\ call.off \in IoOffsets /\ call.size \in IoSizes /\ call.bounce \in BounceSizes
        /\ call.path \in IoPaths /\ call.write \in BOOLEAN /\ call.direct \in BOOLEAN
    BY DEF CallHolds, IoCalls
  <1>2. call.off \in Nat /\ call.size \in Nat \ {0} /\ call.bounce \in Nat \ {0}
    BY <1>1, PosixAssumption
  <1>3. call.path = "overread" => call.bounce >= Page
    BY <1>2, PosixAssumption DEF CallHolds, Undersized
  <1> QED
    BY <1>1, <1>2, <1>3

LEMMA PieceGrows ==
    \A f \in Int : \A n, k \in Nat :
       Piece(f, n) \cup {<<f + n + i, n + i>> : i \in 0..(k - 1)} = Piece(f, n + k)
  <1> SUFFICES
        ASSUME NEW f \in Int, NEW n \in Nat, NEW k \in Nat
        PROVE  Piece(f, n) \cup {<<f + n + i, n + i>> : i \in 0..(k - 1)} = Piece(f, n + k)
    OBVIOUS
  <1> DEFINE T == {<<f + n + i, n + i>> : i \in 0..(k - 1)}
  <1>1. \A x \in T : x \in Piece(f, n + k)
    <2> SUFFICES ASSUME NEW i \in 0..(k - 1) PROVE <<f + n + i, n + i>> \in Piece(f, n + k)
      OBVIOUS
    <2>1. n + i \in 0..(n + k - 1) /\ f + n + i = f + (n + i)
      OBVIOUS
    <2> QED
      BY <2>1 DEF Piece
  <1>2. \A x \in Piece(f, n) : x \in Piece(f, n + k)
    BY DEF Piece
  <1>3. \A x \in Piece(f, n + k) : x \in Piece(f, n) \cup T
    <2> SUFFICES ASSUME NEW x \in Piece(f, n + k) PROVE x \in Piece(f, n) \cup T
      OBVIOUS
    <2>1. PICK j \in 0..(n + k - 1) : x = <<f + j, j>>
      BY DEF Piece
    <2>2. CASE j < n
      <3>1. j \in 0..(n - 1)
        BY <2>2
      <3> QED
        BY <2>1, <3>1 DEF Piece
    <2>3. CASE j >= n
      <3>1. j - n \in 0..(k - 1) /\ x = <<f + n + (j - n), n + (j - n)>>
        BY <2>1, <2>3
      <3> QED
        BY <3>1
    <2> QED
      BY <2>2, <2>3
  <1> QED
    BY <1>1, <1>2, <1>3

LEMMA PieceIsWanted ==
    ASSUME CallHolds, NEW n \in Nat, n <= call.size
    PROVE  /\ Piece(call.off, n) \subseteq WantedBytes
           /\ WantedBytes = Piece(call.off, call.size)
  BY CallFacts DEF Piece, WantedBytes

\* Where the current page begins, and how much of a turn is of use.
LEMMA PrefixFacts ==
    ASSUME CallHolds, done \in Nat, done < call.size
    PROVE  /\ Prefix \in Nat /\ Prefix < Page
           /\ call.path = "overread" =>
                 Expected \in Nat \ {0} /\ Expected <= Left /\ Prefix + Expected <= call.bounce
           /\ Cur \in Nat /\ Left \in Nat \ {0}
  <1>1. Cur \in Nat /\ Left \in Nat \ {0}
    BY CallFacts DEF Cur, Left
  <1>2. Prefix \in Nat /\ Prefix < Page
    BY <1>1, DownIsAligned, PosixAssumption DEF Prefix
  <1>3. call.path = "overread" =>
            Left \in Int /\ call.bounce - Prefix \in Int /\ call.bounce - Prefix >= 1 /\ ~(call.bounce < Prefix)
    BY <1>1, <1>2, CallFacts, PosixAssumption
  <1>4. call.path = "overread" => Expected = IF Left <= call.bounce - Prefix THEN Left ELSE call.bounce - Prefix
    BY <1>3, MinOfTwo DEF Expected
  <1> QED
    BY <1>1, <1>2, <1>3, <1>4, CallFacts

\* posix_host_io(): a request is within what remains, and aligned when it is direct and
\* bounce buffers are.
LEMMA RequestFacts ==
    ASSUME CallHolds, inner \in [off : Int, left : Nat, at : Nat]
    PROVE  /\ Request.size \in Nat /\ Request.size <= inner.left
           /\ Request.direct => Aligned(inner.off) /\ (Aligned(call.bounce) => Aligned(Request.size))
  <1> DEFINE up == AlignUp(inner.off) - inner.off
             down == AlignDown(inner.left)
  <1>1. inner.off \in Int /\ inner.left \in Nat /\ inner.left \in Int
    OBVIOUS
  <1>2. up \in Nat
    BY <1>1, UpIsAbove
  <1>3. down \in Nat /\ down <= inner.left /\ Aligned(down)
    BY <1>1, DownIsAligned
  <1> HIDE DEF up, down
  <1>4. Min({up, inner.left}) = IF up <= inner.left THEN up ELSE inner.left
    BY <1>1, <1>2, MinOfTwo
  <1>5. Min({down, call.bounce}) = IF down <= call.bounce THEN down ELSE call.bounce
    BY <1>3, CallFacts, MinOfTwo
  <1>6. Request =
          IF ~call.direct THEN [direct |-> FALSE, size |-> inner.left]
          ELSE IF ~Aligned(inner.off)
          THEN [direct |-> FALSE, size |-> Min({up, inner.left})]
          ELSE IF inner.left < Page THEN [direct |-> FALSE, size |-> inner.left]
          ELSE [direct |-> TRUE, size |-> IF AddressAligned THEN down
                                          ELSE Min({down, call.bounce})]
    BY DEF Request, up, down
  <1>7. CASE ~call.direct
    BY <1>1, <1>6, <1>7
  <1>8. CASE call.direct /\ ~Aligned(inner.off)
    BY <1>1, <1>2, <1>4, <1>6, <1>8
  <1>9. CASE call.direct /\ Aligned(inner.off) /\ inner.left < Page
    BY <1>1, <1>6, <1>9
  <1>10. CASE call.direct /\ Aligned(inner.off) /\ ~(inner.left < Page)
    <2>1. Request.direct /\ Request.size \in {down, Min({down, call.bounce})}
      BY <1>6, <1>10
    <2>2. Request.size \in {down, call.bounce} /\ Request.size <= down
      BY <2>1, <1>3, <1>5, CallFacts
    <2> QED
      BY <2>2, <1>1, <1>3, <1>10, CallFacts
  <1> QED
    BY <1>7, <1>8, <1>9, <1>10

LEMMA AnswerFacts ==
    ASSUME CallHolds, inner \in [off : Int, left : Nat, at : Nat],
           NEW k \in 0..Request.size
    PROVE  k \in Nat /\ k <= inner.left
  BY RequestFacts

LEMMA PosixInitInv == PosixInit /\ ~Undersized => PosixInv
  <1> SUFFICES ASSUME PosixInit, ~Undersized PROVE PosixInv
    OBVIOUS
  <1>1. CallHolds
    BY DEF PosixInit, CallHolds
  <1>2. 0 <= AlignUp(call.bounce)
    <2>1. call.bounce \in Int /\ call.bounce >= 0
      BY <1>1, CallFacts
    <2> QED
      BY <2>1, UpIsAbove
  <1>3. ProgressHolds
    BY <1>1, <1>2, CallFacts DEF PosixInit, ProgressHolds
  <1>4. Piece(call.off, 0) = {}
    BY DEF Piece
  <1> QED
    BY <1>1, <1>3, <1>4, CallFacts DEF PosixInit, PosixInv, OuterHolds, HostStarts

LEMMA BeginTurnInv == PosixInv /\ BeginTurn => PosixInv'
  <1> SUFFICES ASSUME PosixInv, BeginTurn PROVE PosixInv'
    OBVIOUS
  <1>1. /\ CallHolds /\ ProgressHolds /\ OuterHolds /\ moved \subseteq WantedBytes
        /\ call' = call /\ done' = done /\ moved' = moved /\ ioPc' = "io"
        /\ inner' = Turn /\ HostStarts /\ ioPc = "outer"
    BY DEF PosixInv, BeginTurn
  <1>2. done \in Nat /\ done < call.size
    BY <1>1 DEF ProgressHolds, OuterHolds
  <1>3. /\ call.off \in Nat /\ call.size \in Nat \ {0} /\ call.bounce \in Nat \ {0}
        /\ call.path \in IoPaths /\ call.write \in BOOLEAN
        /\ call.path = "overread" => ~call.write
    BY <1>1, CallFacts DEF CallHolds
  <1>4. /\ Prefix \in Nat
        /\ call.path = "overread" => Expected \in Nat \ {0} /\ Prefix + Expected <= call.bounce
        /\ Cur \in Nat /\ Left \in Nat \ {0}
    BY <1>1, <1>2, PrefixFacts
  <1>5. CallHolds' /\ Cur' = Cur /\ Left' = Left /\ Skip' = Skip /\ Partial' = Partial /\ WantedBytes' = WantedBytes
    BY <1>1 DEF CallHolds, Undersized, Cur, Left, Skip, Prefix, Partial, WantedBytes
  <1>6. Min({call.bounce, Left}) = IF call.bounce <= Left THEN call.bounce ELSE Left
    BY <1>3, <1>4, MinOfTwo
  <1>7. /\ AlignUp(call.bounce) \in Int /\ call.bounce <= AlignUp(call.bounce)
        /\ call.path = "overread" =>
              /\ AlignUp(Prefix + Expected) \in Int /\ Prefix + Expected <= AlignUp(Prefix + Expected)
              /\ AlignUp(Prefix + Expected) <= AlignUp(call.bounce)
    <2>1. call.bounce \in Int /\ (call.path = "overread" => Prefix + Expected \in Int)
      BY <1>3, <1>4
    <2> QED
      BY <2>1, <1>4, UpIsAbove, UpIsMonotone
  <1>8. (call' = call) /\ AlignUp(call'.bounce) = AlignUp(call.bounce)
    BY <1>1
  <1>9. CASE call.path = "host"
    <2>1. inner' = [off |-> call.off, left |-> call.size, at |-> 0]
      BY <1>1, <1>9 DEF Turn
    <2>2. ProgressHolds'
      BY <1>1, <1>3, <1>9, <2>1 DEF ProgressHolds
    <2>3. done = 0
      BY <1>1, <1>9 DEF HostStarts
    <2>4. ~Partial
      BY <1>9 DEF Partial
    <2>5. IoHolds'
      BY <1>1, <1>2, <1>3, <1>5, <1>9, <2>1, <2>3, <2>4 DEF IoHolds, OuterHolds
    <2> QED
      BY <1>1, <1>5, <2>2, <2>3, <2>5 DEF PosixInv, HostStarts
  <1>10. CASE call.path = "device"
    <2>1. /\ inner' = [off |-> Cur, left |-> Min({call.bounce, Left}), at |-> 0]
          /\ Turn.left = Min({call.bounce, Left})
      BY <1>1, <1>10 DEF Turn
    <2>2. inner'.left \in Nat \ {0} /\ inner'.left <= Left /\ inner'.left <= call.bounce
      BY <1>3, <1>4, <1>6, <2>1
    <2>3. ProgressHolds'
      BY <1>1, <1>3, <1>4, <1>7, <1>10, <2>1, <2>2 DEF ProgressHolds
    <2>4. call.write => staged' = Piece(Cur, inner'.left)
      BY <1>1, <1>10, <2>1 DEF BeginTurn, Piece
    <2>5. Skip = 0
      BY <1>10 DEF Skip
    <2>6. IoHolds'
      BY <1>1, <1>2, <1>3, <1>4, <1>5, <1>10, <2>1, <2>2, <2>4, <2>5 DEF IoHolds, OuterHolds
    <2> QED
      BY <1>1, <1>5, <1>10, <2>3, <2>6 DEF PosixInv, HostStarts
  <1>11. CASE call.path = "overread"
    <2>1. inner' = [off |-> Cur - Prefix, left |-> AlignUp(Prefix + Expected), at |-> 0]
      BY <1>1, <1>11 DEF Turn
    <2>2. inner'.left \in Nat \ {0} /\ inner'.left <= AlignUp(call.bounce)
      BY <1>4, <1>7, <1>11, <2>1
    <2>3. ProgressHolds'
      BY <1>1, <1>3, <1>4, <1>7, <1>11, <2>1, <2>2 DEF ProgressHolds
    <2>4. Skip = Prefix
      BY <1>11 DEF Skip
    <2>5. IoHolds'
      BY <1>1, <1>2, <1>3, <1>4, <1>5, <1>11, <2>1, <2>2, <2>4 DEF IoHolds, OuterHolds
    <2> QED
      BY <1>1, <1>5, <1>11, <2>3, <2>5 DEF PosixInv, HostStarts
  <1> QED
    BY <1>3, <1>9, <1>10, <1>11 DEF IoPaths

LEMMA TransferInv ==
    ASSUME PosixInv, NEW k \in 0..Request.size, Transfer(k)
    PROVE  PosixInv'
  <1>1. /\ CallHolds /\ ProgressHolds /\ IoHolds /\ HostStarts /\ moved \subseteq WantedBytes
        /\ call' = call /\ done' = done /\ ioPc = "io"
        /\ ioPc' = IF k = 0 THEN "failed" ELSE IF Partial \/ k = inner.left THEN "copy" ELSE "io"
        /\ inner' = [off |-> inner.off + k, left |-> inner.left - k, at |-> inner.at + k]
    BY DEF PosixInv, Transfer
  <1>2. /\ done \in Nat /\ done < call.size
        /\ inner.off \in Int /\ inner.left \in Nat /\ inner.at \in Nat
    BY <1>1 DEF ProgressHolds, IoHolds
  <1>3. /\ call.off \in Nat /\ call.size \in Nat \ {0} /\ call.bounce \in Nat \ {0}
        /\ call.path \in IoPaths /\ call.write \in BOOLEAN
        /\ call.path = "overread" => ~call.write
    BY <1>1, CallFacts DEF CallHolds
  <1>4. /\ Prefix \in Nat /\ Cur \in Nat /\ Left \in Nat \ {0} /\ Cur = call.off + done
    BY <1>1, <1>2, PrefixFacts DEF Cur
  <1>5. /\ CallHolds' /\ Cur' = Cur /\ Left' = Left /\ Skip' = Skip /\ Partial' = Partial
        /\ WantedBytes' = WantedBytes /\ AlignUp(call'.bounce) = AlignUp(call.bounce)
    BY <1>1 DEF CallHolds, Undersized, Cur, Left, Skip, Prefix, Partial, WantedBytes
  <1>6. k \in Nat /\ k <= inner.left
    BY <1>1, AnswerFacts DEF ProgressHolds
  <1>7. /\ inner'.off = inner.off + k /\ inner'.left = inner.left - k
        /\ inner'.at = inner.at + k /\ inner'.at + inner'.left = inner.at + inner.left
        /\ inner' \in [off : Int, left : Nat, at : Nat]
    BY <1>1, <1>2, <1>6
  <1>8. ProgressHolds' /\ HostStarts'
    BY <1>1, <1>5, <1>7 DEF ProgressHolds, HostStarts
  <1>9. Left = call.size - done
    BY DEF Left
  <1>10. CASE call.path = "host"
    <2>1. moved' = moved \cup Bytes(k)
      BY <1>10 DEF Transfer
    <2>2. /\ done = 0 /\ inner.off = call.off + inner.at /\ inner.at + inner.left = call.size
          /\ moved = Piece(call.off, inner.at) /\ inner.left > 0
      BY <1>1, <1>10 DEF IoHolds
    <2>3. Bytes(k) = {<<call.off + inner.at + i, inner.at + i>> : i \in 0..(k - 1)}
      BY <2>2 DEF Bytes
    <2>4. moved' = Piece(call.off, inner.at + k)
      <3>1. call.off \in Int
        BY <1>3
      <3> QED
        <4>1. Piece(call.off, inner.at) \cup Bytes(k) = Piece(call.off, inner.at + k)
          <5>1. inner.at \in Nat
            BY <1>2
          <5>2. k \in Nat
            BY <1>6
          <5> QED
            BY <3>1, <5>1, <5>2, <2>3, PieceGrows, Zenon
        <4> QED
          BY <2>1, <2>2, <4>1
    <2>5. inner.at + k \in Nat /\ inner.at + k <= call.size
      BY <1>2, <1>6, <2>2
    <2>6. moved' \subseteq WantedBytes'
      BY <1>1, <1>5, <2>4, <2>5, PieceIsWanted
    <2>7. ~Partial
      BY <1>10 DEF Partial
    <2>8. ioPc' = "io" => IoHolds'
      BY <1>1, <1>2, <1>3, <1>5, <1>6, <1>7, <1>10, <2>2, <2>4, <2>7 DEF IoHolds
    <2>9. ioPc' = "copy" => CopyHolds'
      BY <1>1, <1>2, <1>3, <1>5, <1>6, <1>7, <1>10, <2>2, <2>4, <2>7 DEF CopyHolds
    <2> QED
      BY <1>1, <1>5, <1>8, <2>6, <2>8, <2>9 DEF PosixInv
  <1>11. CASE call.path = "device" /\ call.write
    <2> DEFINE T == {<<inner.off + (b[2] - inner.at), b[1] - call.off>> :
                       b \in {s \in staged : s[2] \in inner.at..(inner.at + k - 1)}}
    <2>1. moved' = moved \cup T /\ staged' = staged
      BY <1>11 DEF Transfer
    <2>2. /\ inner.off = Cur + inner.at /\ inner.at + inner.left <= Left
          /\ staged = Piece(Cur, inner.at + inner.left) /\ inner.left > 0
          /\ moved = Piece(call.off, done + inner.at)
      BY <1>1, <1>11 DEF IoHolds
    <2> DEFINE d == done + inner.at
    <2>3. T = {<<call.off + d + i, d + i>> : i \in 0..(k - 1)}
      <3> DEFINE R == {<<call.off + d + i, d + i>> : i \in 0..(k - 1)}
      <3>1. staged = {<<Cur + j, j>> : j \in 0..((inner.at + inner.left) - 1)}
        <4>1. staged = Piece(Cur, inner.at + inner.left)
          BY <2>2
        <4> QED
          BY <4>1 DEF Piece
      <3>2. ASSUME NEW x \in T PROVE x \in R
        <4>1. PICK b \in staged : /\ b[2] \in inner.at..(inner.at + k - 1)
                                  /\ x = <<inner.off + (b[2] - inner.at), b[1] - call.off>>
          BY <3>2
        <4>2. PICK j \in 0..((inner.at + inner.left) - 1) : b = <<Cur + j, j>>
          BY <3>1
        <4>3. b[1] = Cur + j /\ b[2] = j
          BY <4>2
        <4>4. /\ j - inner.at \in 0..(k - 1)
              /\ inner.off + (j - inner.at) = call.off + d + (j - inner.at)
              /\ (Cur + j) - call.off = d + (j - inner.at)
          BY <1>2, <1>3, <1>4, <1>6, <2>2, <4>1, <4>3
        <4>5. x = <<call.off + d + (j - inner.at), d + (j - inner.at)>>
          <5>1. x = <<inner.off + (j - inner.at), (Cur + j) - call.off>>
            BY <4>1, <4>3, Zenon
          <5> HIDE DEF d
          <5> QED
            BY <4>4, <5>1
        <4> HIDE DEF d
        <4> QED
          BY <4>4, <4>5
      <3>3. ASSUME NEW i \in 0..(k - 1) PROVE <<call.off + d + i, d + i>> \in T
        <4> DEFINE j == inner.at + i
                   b == <<Cur + j, j>>
        <4>1. j \in 0..((inner.at + inner.left) - 1) /\ j \in inner.at..(inner.at + k - 1)
          BY <1>2, <1>6
        <4>2. b \in staged /\ b[1] = Cur + j /\ b[2] = j
          BY <3>1, <4>1
        <4>3. inner.off + (j - inner.at) = call.off + d + i /\ (Cur + j) - call.off = d + i
          BY <1>2, <1>3, <1>4, <1>6, <2>2
        <4>4. /\ <<call.off + d + i, d + i>> = <<inner.off + (b[2] - inner.at), b[1] - call.off>>
              /\ b[2] \in inner.at..(inner.at + k - 1)
          <5> HIDE DEF b, j, d
          <5> QED
            BY <4>1, <4>2, <4>3, Zenon
        <4> HIDE DEF b, d
        <4> QED
          BY <4>2, <4>4
      <3> QED
        BY <3>2, <3>3
    <2> HIDE DEF T
    <2>4. moved' = Piece(call.off, done + inner.at + k)
      <3>1. call.off \in Int /\ d \in Nat
        BY <1>2, <1>3
      <3>2. moved = Piece(call.off, d)
        BY <2>2
      <3> HIDE DEF d
      <3>3. moved' = Piece(call.off, d + k)
        BY <3>1, <3>2, <1>6, <2>1, <2>3, PieceGrows
      <3> QED
        BY <3>3 DEF d
    <2>5. done + inner.at + k \in Nat /\ done + inner.at + k <= call.size
      BY <1>2, <1>3, <1>6, <1>9, <2>2
    <2>6. moved' \subseteq WantedBytes'
      BY <1>1, <1>5, <2>4, <2>5, PieceIsWanted
    <2>7. ~Partial
      BY <1>11 DEF Partial
    <2>8. ioPc' = "io" => IoHolds'
      <3> SUFFICES ASSUME ioPc' = "io" PROVE IoHolds'
        OBVIOUS
      <3>1. inner'.left > 0 /\ inner'.off = Cur + inner'.at
        BY <1>1, <1>2, <1>4, <1>6, <1>7, <2>2, <2>7
      <3>2. moved' = Piece(call.off, done + inner'.at)
        BY <1>2, <1>6, <1>7, <2>4
      <3> QED
        BY <1>1, <1>2, <1>5, <1>7, <1>11, <2>1, <2>2, <2>7, <3>1, <3>2 DEF IoHolds
    <2>9. ioPc' = "copy" => CopyHolds'
      <3>1. moved' = Piece(call.off, done + inner'.at)
        BY <1>2, <1>6, <1>7, <2>4
      <3> QED
        BY <1>1, <1>2, <1>3, <1>4, <1>5, <1>6, <1>7, <1>11, <2>2, <2>7, <3>1 DEF CopyHolds
    <2> QED
      BY <1>1, <1>5, <1>8, <2>6, <2>8, <2>9 DEF PosixInv
  <1>12. CASE Partial
    <2>1. moved' = moved
      BY <1>3, <1>12 DEF Transfer, Partial, IoPaths
    <2>2. /\ inner.at = 0 /\ inner.off = Cur - Skip /\ moved = Piece(call.off, done)
          /\ call.path = "device" => inner.left <= Left
      BY <1>1, <1>12 DEF IoHolds
    <2>3. Skip \in Nat
      BY <1>4 DEF Skip
    <2>4. staged' = Piece(Cur - Skip, k)
      <3>1. staged' = Bytes(k) \/ staged' = InBuffer(k)
        BY <1>3, <1>12 DEF Transfer, Partial, IoPaths
      <3>2. k <= AlignUp(call.bounce) /\ AlignUp(call.bounce) \in Int
        BY <1>1, <1>2, <1>3, <1>6, <1>12, <2>2, UpIsAbove DEF ProgressHolds, Partial
      <3>3. \A b \in Bytes(k) : b[2] < AlignUp(call.bounce)
        BY <1>2, <1>6, <2>2, <3>2 DEF Bytes
      <3>4. InBuffer(k) = Bytes(k)
        BY <3>3 DEF InBuffer
      <3> QED
        BY <1>2, <1>4, <1>6, <2>2, <2>3, <3>1, <3>4 DEF Bytes, Piece
    <2>5. ioPc' # "io"
      BY <1>1, <1>12
    <2>6. ioPc' = "copy" => CopyHolds'
      BY <1>1, <1>2, <1>3, <1>4, <1>5, <1>6, <1>7, <1>12, <2>1, <2>2, <2>4 DEF CopyHolds, Partial
    <2> QED
      BY <1>1, <1>5, <1>8, <2>1, <2>5, <2>6 DEF PosixInv
  <1> QED
    BY <1>3, <1>10, <1>11, <1>12 DEF Partial, IoPaths

LEMMA EndTurnInv == PosixInv /\ EndTurn => PosixInv'
  <1> SUFFICES ASSUME PosixInv, EndTurn PROVE PosixInv'
    OBVIOUS
  <1>1. /\ CallHolds /\ ProgressHolds /\ CopyHolds /\ moved \subseteq WantedBytes
        /\ HostStarts /\ call' = call /\ inner' = inner /\ ioPc = "copy"
    BY DEF PosixInv, EndTurn
  <1>2. done \in Nat /\ done < call.size /\ inner.at \in Nat /\ inner.at > 0
    BY <1>1 DEF ProgressHolds, CopyHolds
  <1>3. /\ call.off \in Nat /\ call.size \in Nat \ {0}
        /\ call.path \in IoPaths /\ call.write \in BOOLEAN
        /\ call.path = "overread" => ~call.write
    BY <1>1, CallFacts DEF CallHolds
  <1>4. /\ Prefix \in Nat /\ (call.path = "overread" => Expected \in Nat \ {0} /\ Expected <= Left)
        /\ Cur = call.off + done /\ Left = call.size - done
    BY <1>1, <1>2, PrefixFacts DEF Cur, Left
  <1>5. CallHolds' /\ WantedBytes' = WantedBytes /\ AlignUp(call'.bounce) = AlignUp(call.bounce)
    BY <1>1 DEF CallHolds, Undersized, WantedBytes
  <1>6. CASE call.path = "overread" /\ inner.at <= Prefix
    <2>1. ioPc' = "failed" /\ done' = done /\ moved' = moved
      BY <1>6 DEF EndTurn
    <2> QED
      BY <1>1, <1>5, <2>1 DEF PosixInv, ProgressHolds, HostStarts
  <1>7. CASE ~(call.path = "overread" /\ inner.at <= Prefix)
    <2> DEFINE T == IF Partial THEN {<<s[1], done + s[2] - Skip>> :
                                       s \in {s \in staged : s[2] \in Skip..(Skip + Processed - 1)}}
                    ELSE {}
    <2>1. /\ done' = done + Processed /\ moved' = moved \cup T
          /\ ioPc' = IF done' = call.size THEN "returned" ELSE "outer"
      BY <1>7 DEF EndTurn
    <2>2. Processed \in Nat /\ Processed > 0 /\ Processed <= Left /\ Skip \in Nat
                            /\ Skip + Processed <= inner.at
      <3>1. CASE call.path = "overread"
        <4>1. inner.at - Prefix \in Int /\ inner.at - Prefix > 0
          BY <1>2, <1>4, <1>7, <3>1
        <4>2. Min({Expected, inner.at - Prefix})
                = IF Expected <= inner.at - Prefix THEN Expected ELSE inner.at - Prefix
          BY <1>4, <3>1, <4>1, MinOfTwo
        <4>3. Processed = Min({Expected, inner.at - Prefix}) /\ Skip = Prefix
          BY <3>1 DEF Processed, Skip
        <4> QED
          BY <1>2, <1>3, <1>4, <3>1, <4>1, <4>2, <4>3
      <3>2. CASE call.path # "overread"
        <4>1. Processed = inner.at /\ Skip = 0
          BY <3>2 DEF Processed, Skip
        <4>2. inner.at <= Left
          BY <1>1, <1>2, <1>3, <1>4, <3>2 DEF CopyHolds, IoPaths
        <4> QED
          BY <1>2, <4>1, <4>2
      <3> QED
        BY <3>1, <3>2
    <2>3. ASSUME ~Partial
          PROVE  moved' = Piece(call.off, done') /\ (call.path = "host" => done' = call.size)
      <3>1. T = {}
        BY <2>3
      <3>2. Processed = inner.at /\ call.path \in {"host", "device"}
            /\ (call.path = "device" => call.write)
        BY <1>3, <2>3 DEF Processed, Partial, IoPaths
      <3>3. moved = Piece(call.off, done + Processed)
        BY <1>1, <1>2, <1>3, <3>2 DEF CopyHolds
      <3>4. call.path = "host" => done' = call.size
        BY <1>1, <1>2, <2>1, <3>2 DEF CopyHolds
      <3>5. moved' = Piece(call.off, done')
        BY <2>1, <3>1, <3>3
      <3> QED
        BY <3>4, <3>5
    <2>4. ASSUME Partial
          PROVE  moved' = Piece(call.off, done') /\ (call.path = "host" => done' = call.size)
      <3>1. staged = Piece(Cur - Skip, inner.at) /\ moved = Piece(call.off, done)
        BY <1>1, <2>4 DEF CopyHolds
      <3>2. T = {<<call.off + done + i, done + i>> : i \in 0..(Processed - 1)}
        <4> DEFINE R == {<<call.off + done + i, done + i>> : i \in 0..(Processed - 1)}
        <4>1. ASSUME NEW x \in T PROVE x \in R
          <5>1. PICK s \in staged : /\ s[2] \in Skip..(Skip + Processed - 1)
                                    /\ x = <<s[1], done + s[2] - Skip>>
            BY <2>4, <4>1
          <5>2. PICK j \in 0..(inner.at - 1) : s = <<Cur - Skip + j, j>>
            BY <3>1 DEF Piece
          <5>3. s[1] = Cur - Skip + j /\ s[2] = j
            BY <5>2
          <5>4. /\ j - Skip \in 0..(Processed - 1)
                /\ Cur - Skip + j = call.off + done + (j - Skip)
                /\ done + j - Skip = done + (j - Skip)
            BY <1>2, <1>3, <1>4, <2>2, <5>1, <5>3
          <5> QED
            BY <5>1, <5>3, <5>4
        <4>2. ASSUME NEW i \in 0..(Processed - 1) PROVE <<call.off + done + i, done + i>> \in T
          <5> DEFINE j == Skip + i
                     s == <<Cur - Skip + j, j>>
          <5>1. j \in 0..(inner.at - 1) /\ j \in Skip..(Skip + Processed - 1)
            BY <1>2, <2>2
          <5>2. s \in staged /\ s[1] = Cur - Skip + j /\ s[2] = j
            BY <3>1, <5>1 DEF Piece
          <5>3. Cur - Skip + j = call.off + done + i /\ done + j - Skip = done + i
            BY <1>2, <1>3, <1>4, <2>2
          <5>4. /\ <<call.off + done + i, done + i>> = <<s[1], done + s[2] - Skip>>
                /\ s[2] \in Skip..(Skip + Processed - 1)
            BY <5>1, <5>2, <5>3
          <5> HIDE DEF s
          <5> QED
            BY <2>4, <5>2, <5>4
        <4> QED
          BY <4>1, <4>2
      <3> HIDE DEF T
      <3>3. moved' = Piece(call.off, done + Processed)
        <4>1. call.off \in Int
          BY <1>3
        <4> QED
          BY <4>1, <1>2, <2>1, <2>2, <3>1, <3>2, PieceGrows
      <3> QED
        BY <2>1, <2>4, <3>3 DEF Partial
    <2>5. moved' = Piece(call.off, done') /\ (call.path = "host" => done' = call.size)
      BY <2>3, <2>4
    <2>6. done' \in Nat /\ done' <= call.size
      BY <1>2, <1>3, <1>4, <2>1, <2>2
    <2>7. moved' \subseteq WantedBytes' /\ (done' = call.size => moved' = WantedBytes')
      BY <1>1, <1>5, <2>5, <2>6, PieceIsWanted
    <2>8. ProgressHolds'
      BY <1>1, <1>5, <2>1, <2>6 DEF ProgressHolds
    <2>9. ioPc' = "outer" => OuterHolds' /\ call.path # "host"
      BY <1>1, <1>3, <2>1, <2>5, <2>6 DEF OuterHolds
    <2> QED
      BY <1>1, <1>5, <2>1, <2>5, <2>7, <2>8, <2>9 DEF PosixInv, HostStarts
  <1> QED
    BY <1>6, <1>7

LEMMA PosixStepInv == PosixInv /\ [PosixNext]_posixVars => PosixInv'
  <1> SUFFICES ASSUME PosixInv, [PosixNext]_posixVars PROVE PosixInv'
    OBVIOUS
  <1>1. CASE BeginTurn
    BY <1>1, BeginTurnInv
  <1>2. CASE \E k \in 0..Request.size : Transfer(k)
    BY <1>2, TransferInv
  <1>3. CASE TransferFails
    <2>1. /\ call' = call /\ done' = done /\ inner' = inner /\ moved' = moved
          /\ ioPc = "io" /\ ioPc' = "failed"
      BY <1>3 DEF TransferFails
    <2> QED
      BY <2>1 DEF PosixInv, CallHolds, Undersized, ProgressHolds, HostStarts, WantedBytes
  <1>4. CASE EndTurn
    BY <1>4, EndTurnInv
  <1>5. CASE UNCHANGED posixVars
    BY <1>5 DEF posixVars, PosixInv, CallHolds, Undersized, ProgressHolds, HostStarts, OuterHolds, IoHolds,
                CopyHolds, WantedBytes, Cur, Left, Skip, Prefix, Partial
  <1> QED
    BY <1>1, <1>2, <1>3, <1>4, <1>5 DEF PosixNext

LEMMA RangeFromInv == PosixInv => RangeIsMoved
  <1> SUFFICES ASSUME PosixInv PROVE RangeIsMoved
    OBVIOUS
  <1>1. CallHolds /\ ProgressHolds
    BY DEF PosixInv
  <1>2. Request.direct => Aligned(inner.off) /\ (Aligned(call.bounce) => Aligned(Request.size))
    BY <1>1, RequestFacts DEF ProgressHolds
  <1> QED
    BY <1>1, <1>2 DEF PosixInv, ProgressHolds, RangeIsMoved

\* A call keeps its arguments, and with them whether its bounce buffer is undersized.
LEMMA CallStays == [PosixNext]_posixVars => (Undersized' <=> Undersized)
  <1> SUFFICES ASSUME [PosixNext]_posixVars PROVE call' = call
    BY DEF Undersized
  <1> QED
    BY DEF PosixNext, BeginTurn, Transfer, TransferFails, EndTurn, posixVars

\* posix_host_io(), posix_device_io(), posix_device_read_aligned(), for every page and sector
\* size, range, alignment and bounce buffer size, and whatever short answers the kernel gives:
\* a call touches its range alone, moves every byte to its place before it returns and stays
\* inside its bounce buffer.  The one call exempt is an over-read whose buffer fell below a
\* page after the check for two.
THEOREM RangesAreMoved == PosixSpec => []RangeIsMoved
  <1>1. PosixInit => Undersized \/ PosixInv
    BY PosixInitInv
  <1>2. (Undersized \/ PosixInv) /\ [PosixNext]_posixVars => (Undersized \/ PosixInv)'
    BY CallStays, PosixStepInv
  <1>3. Undersized \/ PosixInv => RangeIsMoved
    BY RangeFromInv DEF RangeIsMoved
  <1> QED
    BY <1>1, <1>2, <1>3, PTL DEF PosixSpec

===============================================================================
