------------------------ MODULE MultiPollReactorProofs ------------------------
(***************************************************************************)
(* Proofs about MultiPollReactor, for every number of reactors, reads and  *)
(* sub-ranges and every set of faults.                                     *)
(*                                                                         *)
(* First the types, action by action; then the invariant behind the        *)
(* aggregate reports, and that the backend keeps the contract of pread(),  *)
(* ParallelRead; then the limiter's slots, which are conserved, so that    *)
(* its unsigned counters never wrap.                                       *)
(***************************************************************************)
EXTENDS MultiPollReactor, FiniteSetTheorems, SequenceTheorems, TLAPS

USE DEF poolVars, xferVars, ownVars, gateVars, copyVars, aggVars, passVars, loopVars, repVars

\* TypeOK in parts, except that the two counters, unsigned in the code, are any
\* integers.
PoolTyped ==
    /\ queue \in Seq(Transfers)
    /\ dead \in BOOLEAN

TransfersTyped ==
    /\ at \in [Transfers -> {"new", "queue", "hand", "pending", "inflight", "gone"}]
    /\ by \in [Transfers -> Threads]
    /\ attempt \in [Transfers -> Nat]
    /\ overflowed \subseteq Transfers
    /\ result \in [Transfers -> {"none", "ok", "retryable", "fatal"}]
    /\ backingOff \subseteq Transfers
    /\ offset \in [Transfers -> 0..SubrangeSize]

GatesTyped ==
    /\ slotted \subseteq Transfers
    /\ buffered \subseteq Transfers
    /\ inUse \in [Reactors -> Int]
    /\ lent \in [Reactors -> SUBSET Transfers]
    /\ copying \subseteq Transfers
    /\ recorded \subseteq Transfers

AggregatesTyped ==
    /\ left \in [Reads -> Int]
    /\ total \in [Reads -> Nat]
    /\ failed \subseteq Reads
    /\ promise \in [Reads -> {"pending", "value", "exception"}]
    /\ told \in [Transfers -> {"open", "ok", "failed"}]

PassTyped ==
    /\ todo \in [Reactors -> SUBSET Transfers]
    /\ budget \in [Reactors -> Nat]
    /\ exhausted \in [Reactors -> SUBSET Contexts]
    /\ deferred \subseteq Reactors
    /\ completed \subseteq Reactors
    /\ timer \subseteq Reactors
    /\ woken \subseteq Reactors

ThreadsTyped ==
    /\ pc \in [Reactors -> Labels]
    /\ timeout \in [Reactors -> {"none", "zero", "busy", "backoff", "idle"}]
    /\ cpc \in [Reads -> {"start", "failing", "wake", "get", "sync", "done"}]
    /\ rpc \in [Threads -> {"idle", "failed", "countFailed", "complete", "fulfil"}]
    /\ rt \in [Threads -> Transfers \cup {NoTransfer}]

Typed == /\ PoolTyped /\ TransfersTyped /\ GatesTyped
         /\ AggregatesTyped /\ PassTyped /\ ThreadsTyped

-------------------------------------------------------------------------------
(* Facts about the constants and the queue.                                *)

LEMMA ThreadsHas == Reactors \subseteq Threads /\ Reads \subseteq Threads
  BY DEF Threads

LEMMA ReadOfType == \A t \in Transfers : ReadOf[t] \in Reads
  BY SubrangesAssumption

LEMMA ShareIsNat == ASSUME queue \in Seq(Transfers) PROVE QueueShare \in Nat
  <1>1. Len(queue) + NumReactors - 1 \in Nat
    BY ConstantsAssumption
  <1>2. \A n \in Nat, d \in Nat \ {0} : n \div d \in Nat
    OBVIOUS
  <1> QED
    BY <1>1, <1>2, ConstantsAssumption DEF QueueShare

LEMMA PoppedQueue ==
    ASSUME queue \in Seq(Transfers), queue # <<>>
    PROVE  /\ Head(queue) \in Transfers /\ Head(queue) = queue[1]
           /\ Tail(queue) \in Seq(Transfers)
           /\ Len(queue) \in Nat /\ Len(queue) >= 1 /\ Len(Tail(queue)) = Len(queue) - 1
           /\ \A i \in 1..Len(Tail(queue)) : Tail(queue)[i] = queue[i + 1]
  OBVIOUS

LEMMA Concatenated ==
    ASSUME NEW p \in Seq(Transfers), NEW q \in Seq(Transfers) PROVE p \o q \in Seq(Transfers)
  BY ConcatProperties

LEMMA SubsetIsCounted ==
    ASSUME NEW S, S \subseteq Transfers
    PROVE  IsFiniteSet(S) /\ Cardinality(S) \in Nat
  BY ConstantsAssumption, FS_Subset, FS_CardinalityType

-------------------------------------------------------------------------------
(* Types.                                                                  *)

LEMMA InitTyped == Init => Typed
  <1> SUFFICES ASSUME Init PROVE Typed
    OBVIOUS
  <1>1. PoolTyped
    <2>1. queue \in Seq(Transfers)
      BY DEF Init
    <2>2. dead \in BOOLEAN
      BY Zenon DEF Init
    <2> QED
      BY <2>1, <2>2 DEF PoolTyped
  <1>2. TransfersTyped
    BY ThreadsHas, ConstantsAssumption, SubrangesAssumption DEF TransfersTyped, Init
  <1>3. GatesTyped
    BY DEF GatesTyped, Init
  <1>4. AggregatesTyped
    BY SubrangesAssumption DEF AggregatesTyped, Init
  <1>5. PassTyped
    BY DEF PassTyped, Init
  <1>6. ThreadsTyped
    BY DEF ThreadsTyped, Init, Labels
  <1> QED
    BY <1>1, <1>2, <1>3, <1>4, <1>5, <1>6 DEF Typed

LEMMA LoopTopTyped == ASSUME Typed, NEW r \in Reactors, LoopTop(r) PROVE Typed'
  <1>1. PassTyped'
    BY DEF Typed, PassTyped, LoopTop, NewPass, SetPass, Pending, TransfersTyped
  <1>2. ThreadsTyped'
    BY DEF Typed, ThreadsTyped, LoopTop, Goto, Labels
  <1>3. PoolTyped' /\ TransfersTyped' /\ GatesTyped' /\ AggregatesTyped'
    BY DEF Typed, PoolTyped, TransfersTyped, GatesTyped, AggregatesTyped, LoopTop
  <1> QED
    BY <1>1, <1>2, <1>3 DEF Typed

LEMMA ReadQueueShareTyped == ASSUME Typed, NEW r \in Reactors, ReadQueueShare(r) PROVE Typed'
  <1>1. PassTyped'
    BY ShareIsNat DEF Typed, PassTyped, ReadQueueShare, PoolTyped
  <1>2. ThreadsTyped'
    BY DEF Typed, ThreadsTyped, ReadQueueShare, Goto, Labels
  <1>3. PoolTyped' /\ TransfersTyped' /\ GatesTyped' /\ AggregatesTyped'
    BY DEF Typed, PoolTyped, TransfersTyped, GatesTyped, AggregatesTyped, ReadQueueShare
  <1> QED
    BY <1>1, <1>2, <1>3 DEF Typed

LEMMA TryPopQueuedTyped == ASSUME Typed, NEW r \in Reactors, TryPopQueued(r) PROVE Typed'
  <1>1. PoolTyped'
    BY PoppedQueue DEF Typed, PoolTyped, TryPopQueued
  <1>2. TransfersTyped'
    BY PoppedQueue, ThreadsHas DEF Typed, TransfersTyped, TryPopQueued, PoolTyped
  <1>3. GatesTyped'
    BY PoppedQueue DEF Typed, GatesTyped, TryPopQueued, PoolTyped
  <1>4. PassTyped'
    BY DEF Typed, PassTyped, TryPopQueued
  <1>5. ThreadsTyped'
    BY DEF Typed, ThreadsTyped, TryPopQueued, Goto, Labels
  <1>6. AggregatesTyped'
    BY DEF Typed, AggregatesTyped, TryPopQueued
  <1> QED
    BY <1>1, <1>2, <1>3, <1>4, <1>5, <1>6 DEF Typed

LEMMA ReturnToQueueTyped == ASSUME Typed, NEW r \in Reactors, ReturnToQueue(r) PROVE Typed'
  <1>1. PoolTyped'
    <2>1. PICK t \in Hand(r) : UNCHANGED queue \/ queue' = <<t>> \o queue
      BY DEF ReturnToQueue
    <2>2. queue' \in Seq(Transfers)
      <3>1. <<t>> \in Seq(Transfers)
        BY DEF Hand
      <3> QED
        BY <2>1, <3>1, Concatenated DEF Typed, PoolTyped
    <2> QED
      BY <2>2 DEF Typed, PoolTyped, ReturnToQueue
  <1>2. TransfersTyped'
    BY ReadOfType, ThreadsHas DEF Typed, TransfersTyped, ReturnToQueue, Hand
  <1>3. ThreadsTyped'
    BY ThreadsHas DEF Typed, ThreadsTyped, ReturnToQueue, Goto, Labels, Report, Hand
  <1>4. GatesTyped' /\ AggregatesTyped' /\ PassTyped'
    BY DEF Typed, GatesTyped, AggregatesTyped, PassTyped, ReturnToQueue
  <1> QED
    BY <1>1, <1>2, <1>3, <1>4 DEF Typed

LEMMA PerformReturnsTyped == ASSUME Typed, NEW r \in Reactors, PerformReturns(r) PROVE Typed'
  <1>1. ThreadsTyped'
    BY DEF Typed, ThreadsTyped, PerformReturns, Goto, Labels
  <1>2. PoolTyped' /\ TransfersTyped' /\ GatesTyped' /\ AggregatesTyped' /\ PassTyped'
    BY DEF Typed, PoolTyped, TransfersTyped, GatesTyped, AggregatesTyped, PassTyped,
           PerformReturns
  <1> QED
    BY <1>1, <1>2 DEF Typed

LEMMA ReapCompletionTyped == ASSUME Typed, NEW r \in Reactors, ReapCompletion(r) PROVE Typed'
  <1>1. TransfersTyped'
    BY DEF Typed, TransfersTyped, ReapCompletion, InFlight
  <1>2. PassTyped'
    BY DEF Typed, PassTyped, ReapCompletion
  <1>3. ThreadsTyped'
    BY DEF Typed, ThreadsTyped, ReapCompletion, Goto, Labels
  <1>4. PoolTyped' /\ GatesTyped' /\ AggregatesTyped'
    BY DEF Typed, PoolTyped, GatesTyped, AggregatesTyped, ReapCompletion
  <1> QED
    BY <1>1, <1>2, <1>3, <1>4 DEF Typed

LEMMA SettleHostTyped == ASSUME Typed, NEW r \in Reactors, SettleHost(r) PROVE Typed'
  <1>1. ThreadsTyped'
    BY ThreadsHas DEF Typed, ThreadsTyped, SettleHost, Goto, Labels, Report, Hand
  <1>2. PoolTyped' /\ TransfersTyped' /\ GatesTyped' /\ AggregatesTyped' /\ PassTyped'
    BY DEF Typed, PoolTyped, TransfersTyped, GatesTyped, AggregatesTyped, PassTyped, SettleHost
  <1> QED
    BY <1>1, <1>2 DEF Typed

LEMMA StageDeviceCopyTyped == ASSUME Typed, NEW r \in Reactors, StageDeviceCopy(r) PROVE Typed'
  <1>1. GatesTyped'
    BY DEF Typed, GatesTyped, StageDeviceCopy, Hand
  <1>2. ThreadsTyped'
    BY ThreadsHas DEF Typed, ThreadsTyped, StageDeviceCopy, Goto, Labels, Report, Hand
  <1>3. PoolTyped' /\ TransfersTyped' /\ AggregatesTyped' /\ PassTyped'
    BY DEF Typed, PoolTyped, TransfersTyped, AggregatesTyped, PassTyped, StageDeviceCopy
  <1> QED
    BY <1>1, <1>2, <1>3 DEF Typed

LEMMA StageFailsTyped == ASSUME Typed, NEW r \in Reactors, StageFails(r) PROVE Typed'
  <1>1. GatesTyped'
    BY DEF Typed, GatesTyped, StageFails, Hand
  <1>2. ThreadsTyped'
    BY ThreadsHas DEF Typed, ThreadsTyped, StageFails, Goto, Labels, Report, Hand
  <1>3. PoolTyped' /\ TransfersTyped' /\ AggregatesTyped' /\ PassTyped'
    BY DEF Typed, PoolTyped, TransfersTyped, AggregatesTyped, PassTyped, StageFails
  <1> QED
    BY <1>1, <1>2, <1>3 DEF Typed

LEMMA SettleFailedTyped == ASSUME Typed, NEW r \in Reactors, SettleFailed(r) PROVE Typed'
  <1>1. ThreadsTyped'
    BY ThreadsHas DEF Typed, ThreadsTyped, SettleFailed, Goto, Labels, Report, Hand
  <1>2. PoolTyped' /\ GatesTyped' /\ AggregatesTyped' /\ PassTyped'
    BY DEF Typed, PoolTyped, GatesTyped, AggregatesTyped, PassTyped, SettleFailed
  <1>3. TransfersTyped'
    BY DEF Typed, TransfersTyped, SettleFailed, Hand
  <1> QED
    BY <1>1, <1>2, <1>3 DEF Typed

LEMMA RequeueForRetryTyped == ASSUME Typed, NEW r \in Reactors, RequeueForRetry(r) PROVE Typed'
  <1>1. TransfersTyped'
    BY ConstantsAssumption DEF Typed, TransfersTyped, RequeueForRetry, Hand, ResetForRetry, PushPending
  <1>2. GatesTyped'
    BY DEF Typed, GatesTyped, RequeueForRetry, Hand, DropSlot
  <1>3. PassTyped'
    BY DEF Typed, PassTyped, RequeueForRetry
  <1>4. ThreadsTyped'
    BY ThreadsHas DEF Typed, ThreadsTyped, RequeueForRetry, Goto, Labels, PushPending,
           Report, Hand
  <1>5. PoolTyped' /\ AggregatesTyped'
    BY DEF Typed, PoolTyped, AggregatesTyped, RequeueForRetry
  <1> QED
    BY <1>1, <1>2, <1>3, <1>4, <1>5 DEF Typed

LEMMA EnterPollTyped == ASSUME Typed, NEW r \in Reactors, EnterPoll(r) PROVE Typed'
  <1>1. PassTyped'
    BY DEF Typed, PassTyped, EnterPoll, SetPass
  <1>2. ThreadsTyped'
    BY DEF Typed, ThreadsTyped, EnterPoll, Goto, Labels, PollTimeout
  <1>3. PoolTyped' /\ TransfersTyped' /\ GatesTyped' /\ AggregatesTyped'
    BY DEF Typed, PoolTyped, TransfersTyped, GatesTyped, AggregatesTyped, EnterPoll
  <1> QED
    BY <1>1, <1>2, <1>3 DEF Typed

LEMMA PollReturnsTyped == ASSUME Typed, NEW r \in Reactors, PollReturns(r) PROVE Typed'
  <1>1. PassTyped'
    BY DEF Typed, PassTyped, PollReturns
  <1>2. ThreadsTyped'
    BY DEF Typed, ThreadsTyped, PollReturns, Goto, Labels
  <1>3. PoolTyped' /\ TransfersTyped' /\ GatesTyped' /\ AggregatesTyped'
    BY DEF Typed, PoolTyped, TransfersTyped, GatesTyped, AggregatesTyped, PollReturns
  <1> QED
    BY <1>1, <1>2, <1>3 DEF Typed

LEMMA MultiCallFailsTyped == ASSUME Typed, NEW r \in Reactors, MultiCallFails(r) PROVE Typed'
  <1>1. ThreadsTyped'
    BY DEF Typed, ThreadsTyped, MultiCallFails, Goto, Labels
  <1>2. PoolTyped' /\ TransfersTyped' /\ GatesTyped' /\ AggregatesTyped' /\ PassTyped'
    BY DEF Typed, PoolTyped, TransfersTyped, GatesTyped, AggregatesTyped, PassTyped,
           MultiCallFails
  <1> QED
    BY <1>1, <1>2 DEF Typed

LEMMA SignalDeathTyped == ASSUME Typed, NEW r \in Reactors, SignalDeath(r) PROVE Typed'
  <1>1. PoolTyped'
    BY Zenon DEF Typed, PoolTyped, SignalDeath
  <1>2. PassTyped'
    BY DEF Typed, PassTyped, SignalDeath, SetPass
  <1>3. ThreadsTyped'
    BY DEF Typed, ThreadsTyped, SignalDeath, Goto, Labels
  <1>4. TransfersTyped' /\ GatesTyped' /\ AggregatesTyped'
    BY DEF Typed, TransfersTyped, GatesTyped, AggregatesTyped, SignalDeath
  <1> QED
    BY <1>1, <1>2, <1>3, <1>4 DEF Typed

LEMMA SwapQueueTyped == ASSUME Typed, NEW r \in Reactors, SwapQueue(r) PROVE Typed'
  <1>1. PoolTyped'
    BY DEF Typed, PoolTyped, SwapQueue
  <1>2. TransfersTyped'
    BY ThreadsHas DEF Typed, TransfersTyped, SwapQueue
  <1>3. ThreadsTyped'
    BY DEF Typed, ThreadsTyped, SwapQueue, Goto, Labels
  <1>4. GatesTyped' /\ AggregatesTyped' /\ PassTyped'
    BY DEF Typed, GatesTyped, AggregatesTyped, PassTyped, SwapQueue
  <1> QED
    BY <1>1, <1>2, <1>3, <1>4 DEF Typed

LEMMA DrainQueueTyped == ASSUME Typed, NEW r \in Reactors, DrainQueue(r) PROVE Typed'
  <1>1. PassTyped'
    BY DEF Typed, PassTyped, DrainQueue
  <1>2. ThreadsTyped'
    BY ThreadsHas DEF Typed, ThreadsTyped, DrainQueue, Goto, Labels, Report, Hand
  <1>3. PoolTyped' /\ TransfersTyped' /\ GatesTyped' /\ AggregatesTyped'
    BY DEF Typed, PoolTyped, TransfersTyped, GatesTyped, AggregatesTyped, DrainQueue
  <1> QED
    BY <1>1, <1>2, <1>3 DEF Typed

LEMMA FailPendingTyped == ASSUME Typed, NEW r \in Reactors, FailPending(r) PROVE Typed'
  <1>1. TransfersTyped'
    BY DEF Typed, TransfersTyped, FailPending, Pending
  <1>2. PassTyped'
    BY DEF Typed, PassTyped, FailPending, InFlight
  <1>3. ThreadsTyped'
    BY ThreadsHas DEF Typed, ThreadsTyped, FailPending, Goto, Labels, Report, Pending
  <1>4. PoolTyped' /\ GatesTyped' /\ AggregatesTyped'
    BY DEF Typed, PoolTyped, GatesTyped, AggregatesTyped, FailPending
  <1> QED
    BY <1>1, <1>2, <1>3, <1>4 DEF Typed

LEMMA FailInFlightTyped == ASSUME Typed, NEW r \in Reactors, FailInFlight(r) PROVE Typed'
  <1>1. PassTyped'
    BY DEF Typed, PassTyped, FailInFlight
  <1>2. ThreadsTyped'
    BY ThreadsHas DEF Typed, ThreadsTyped, FailInFlight, Report, PassTyped
  <1>3. PoolTyped' /\ TransfersTyped' /\ GatesTyped' /\ AggregatesTyped'
    BY DEF Typed, PoolTyped, TransfersTyped, GatesTyped, AggregatesTyped, FailInFlight
  <1> QED
    BY <1>1, <1>2, <1>3 DEF Typed

LEMMA ClearInFlightTyped == ASSUME Typed, NEW r \in Reactors, ClearInFlight(r) PROVE Typed'
  <1>1. TransfersTyped'
    BY ReadOfType, ThreadsHas DEF Typed, TransfersTyped, ClearInFlight
  <1>2. GatesTyped'
    <2>1. Cardinality(InFlight(r) \cap slotted) \in Nat
      BY SubsetIsCounted DEF InFlight
    <2> QED
      BY <2>1 DEF Typed, GatesTyped, ClearInFlight
  <1>3. ThreadsTyped'
    BY DEF Typed, ThreadsTyped, ClearInFlight, Goto, Labels
  <1>4. PoolTyped' /\ AggregatesTyped' /\ PassTyped'
    BY DEF Typed, PoolTyped, AggregatesTyped, PassTyped, ClearInFlight
  <1> QED
    BY <1>1, <1>2, <1>3, <1>4 DEF Typed

LEMMA SubmitPreadTyped == ASSUME Typed, NEW a \in Reads, SubmitPread(a) PROVE Typed'
  <1>1. PoolTyped'
    <2>1. queue \o Subranges[a] \in Seq(Transfers)
      BY SubrangesAssumption, Concatenated DEF Typed, PoolTyped
    <2> QED
      BY <2>1 DEF Typed, PoolTyped, SubmitPread
  <1>2. TransfersTyped'
    BY DEF Typed, TransfersTyped, SubmitPread
  <1>3. ThreadsTyped'
    BY DEF Typed, ThreadsTyped, SubmitPread
  <1>4. GatesTyped' /\ AggregatesTyped' /\ PassTyped'
    BY DEF Typed, GatesTyped, AggregatesTyped, PassTyped, SubmitPread
  <1> QED
    BY <1>1, <1>2, <1>3, <1>4 DEF Typed

LEMMA FailSubmittedTyped == ASSUME Typed, NEW a \in Reads, FailSubmitted(a) PROVE Typed'
  <1>1. ThreadsTyped'
    BY ThreadsHas DEF Typed, ThreadsTyped, FailSubmitted, Report, Hand
  <1>2. PoolTyped' /\ TransfersTyped' /\ GatesTyped' /\ AggregatesTyped' /\ PassTyped'
    BY DEF Typed, PoolTyped, TransfersTyped, GatesTyped, AggregatesTyped, PassTyped,
           FailSubmitted
  <1> QED
    BY <1>1, <1>2 DEF Typed

LEMMA WakeAllReactorsTyped == ASSUME Typed, NEW a \in Reads, WakeAllReactors(a) PROVE Typed'
  <1>1. PassTyped'
    BY DEF Typed, PassTyped, WakeAllReactors
  <1>2. ThreadsTyped'
    BY DEF Typed, ThreadsTyped, WakeAllReactors
  <1>3. PoolTyped' /\ TransfersTyped' /\ GatesTyped' /\ AggregatesTyped'
    BY DEF Typed, PoolTyped, TransfersTyped, GatesTyped, AggregatesTyped, WakeAllReactors
  <1> QED
    BY <1>1, <1>2, <1>3 DEF Typed

LEMMA GetTyped == ASSUME Typed, NEW a \in Reads, Get(a) PROVE Typed'
  <1>1. ThreadsTyped'
    BY DEF Typed, ThreadsTyped, Get
  <1>2. PoolTyped' /\ TransfersTyped' /\ GatesTyped' /\ AggregatesTyped' /\ PassTyped'
    BY DEF Typed, PoolTyped, TransfersTyped, GatesTyped, AggregatesTyped, PassTyped, Get
  <1> QED
    BY <1>1, <1>2 DEF Typed

LEMMA SyncAllEventsTyped == ASSUME Typed, NEW a \in Reads, SyncAllEvents(a) PROVE Typed'
  <1>1. ThreadsTyped'
    BY DEF Typed, ThreadsTyped, SyncAllEvents
  <1>2. PoolTyped' /\ TransfersTyped' /\ GatesTyped' /\ AggregatesTyped' /\ PassTyped'
    BY DEF Typed, PoolTyped, TransfersTyped, GatesTyped, AggregatesTyped, PassTyped,
           SyncAllEvents
  <1> QED
    BY <1>1, <1>2 DEF Typed

LEMMA WriteCallbackTyped ==
    ASSUME Typed, NEW r \in Reactors, NEW t \in Transfers, WriteCallback(r, t) PROVE Typed'
  <1>1. TransfersTyped'
    BY ConstantsAssumption DEF Typed, TransfersTyped, WriteCallback
  <1>2. PoolTyped' /\ GatesTyped' /\ AggregatesTyped' /\ PassTyped' /\ ThreadsTyped'
    BY DEF Typed, PoolTyped, GatesTyped, AggregatesTyped, PassTyped, ThreadsTyped, WriteCallback
  <1> QED
    BY <1>1, <1>2 DEF Typed

LEMMA AttemptEndsTyped ==
    ASSUME Typed, NEW r \in Reactors, NEW t \in Transfers, AttemptEnds(r, t) PROVE Typed'
  <1>1. TransfersTyped'
    BY DEF Typed, TransfersTyped, AttemptEnds
  <1>2. PoolTyped' /\ GatesTyped' /\ AggregatesTyped' /\ PassTyped' /\ ThreadsTyped'
    BY DEF Typed, PoolTyped, GatesTyped, AggregatesTyped, PassTyped, ThreadsTyped, AttemptEnds
  <1> QED
    BY <1>1, <1>2 DEF Typed

LEMMA BackoffElapsesTyped == ASSUME Typed, NEW t \in Transfers, BackoffElapses(t) PROVE Typed'
  <1>1. TransfersTyped'
    BY DEF Typed, TransfersTyped, BackoffElapses
  <1>2. PoolTyped' /\ GatesTyped' /\ AggregatesTyped' /\ PassTyped' /\ ThreadsTyped'
    BY DEF Typed, PoolTyped, GatesTyped, AggregatesTyped, PassTyped, ThreadsTyped,
           BackoffElapses
  <1> QED
    BY <1>1, <1>2 DEF Typed

LEMMA CopyCompletesTyped == ASSUME Typed, NEW t \in Transfers, CopyCompletes(t) PROVE Typed'
  <1>1. GatesTyped'
    BY DEF Typed, GatesTyped, CopyCompletes
  <1>2. PassTyped'
    BY DEF Typed, PassTyped, CopyCompletes
  <1>3. PoolTyped' /\ TransfersTyped' /\ AggregatesTyped' /\ ThreadsTyped'
    BY DEF Typed, PoolTyped, TransfersTyped, AggregatesTyped, ThreadsTyped, CopyCompletes
  <1> QED
    BY <1>1, <1>2, <1>3 DEF Typed

\* The three ways try_admit() ends.
LEMMA AdmissionTyped ==
    ASSUME Typed, NEW r \in Reactors, NEW t \in Transfers,
           UNCHANGED <<poolVars, xferVars, copyVars, aggVars, timeout, woken, cpc, repVars>>,
           UNCHANGED todo \/ todo' = [todo EXCEPT ![r] = @ \ {t}],
           \/ /\ Admitted(r, t)
              /\ UNCHANGED <<exhausted, deferred, budget, completed, timer>>
              /\ UNCHANGED pc \/ Goto(r, "pool")
           \/ Refused(r, t) /\ (UNCHANGED pc \/ Goto(r, "return"))
           \/ /\ AdmissionThrows(r, t)
              /\ UNCHANGED <<exhausted, deferred, budget, completed, timer>>
    PROVE  Typed'
  <1>1. TransfersTyped'
    BY DEF Typed, TransfersTyped, Admitted, Refused, AdmissionThrows
  <1>2. GatesTyped'
    BY DEF Typed, GatesTyped, Admitted, Refused, AdmissionThrows, TakeBuffer, DropSlot
  <1>3. PassTyped'
    <2>1. exhausted' \in [Reactors -> SUBSET Contexts]
      BY DEF Typed, PassTyped, Admitted, Refused, AdmissionThrows, BufferRefused, IsDevice,
             Contexts
    <2> QED
      BY <2>1 DEF Typed, PassTyped, Admitted, Refused, AdmissionThrows
  <1>4. ThreadsTyped'
    BY DEF Typed, ThreadsTyped, AdmissionThrows, Goto, Labels
  <1>5. PoolTyped' /\ AggregatesTyped'
    BY DEF Typed, PoolTyped, AggregatesTyped
  <1> QED
    BY <1>1, <1>2, <1>3, <1>4, <1>5 DEF Typed

LEMMA AdmitRetryTyped == ASSUME Typed, NEW r \in Reactors, AdmitRetry(r) PROVE Typed'
  <1>1. PICK t \in todo[r] :
          /\ todo' = [todo EXCEPT ![r] = @ \ {t}]
          /\ \/ /\ Admitted(r, t)
                /\ UNCHANGED <<pc, budget, exhausted, deferred, completed, timer>>
             \/ Refused(r, t) /\ UNCHANGED pc
             \/ /\ AdmissionThrows(r, t)
                /\ UNCHANGED <<budget, exhausted, deferred, completed, timer>>
    BY DEF AdmitRetry
  <1>2. t \in Transfers
    BY DEF Typed, PassTyped
  <1> QED
    BY <1>1, <1>2, AdmissionTyped DEF AdmitRetry

LEMMA AdmitPoppedTyped == ASSUME Typed, NEW r \in Reactors, AdmitPopped(r) PROVE Typed'
  <1>1. PICK t \in Hand(r) :
          \/ /\ Admitted(r, t) /\ Goto(r, "pool")
             /\ UNCHANGED <<exhausted, deferred, budget, completed, timer>>
          \/ Refused(r, t) /\ Goto(r, "return")
          \/ /\ AdmissionThrows(r, t)
             /\ UNCHANGED <<exhausted, deferred, budget, completed, timer>>
    BY DEF AdmitPopped
  <1>2. t \in Transfers
    BY DEF Hand
  <1> QED
    BY <1>1, <1>2, AdmissionTyped DEF AdmitPopped

\* The end of a report: the transfer is destroyed unless it is still in flight.
LEMMA EndReportTyped ==
    ASSUME Typed, NEW th \in Threads, rt[th] \in Transfers, EndReport(th)
    PROVE  /\ rpc' \in [Threads -> {"idle", "failed", "countFailed", "complete", "fulfil"}]
           /\ rt' \in [Threads -> Transfers \cup {NoTransfer}]
           /\ at' \in [Transfers -> {"new", "queue", "hand", "pending", "inflight", "gone"}]
           /\ by' \in [Transfers -> Threads]
           /\ slotted' \subseteq Transfers /\ buffered' \subseteq Transfers
           /\ inUse' \in [Reactors -> Int]
           /\ lent' \in [Reactors -> SUBSET Transfers]
  <1>1. /\ rpc' \in [Threads -> {"idle", "failed", "countFailed", "complete", "fulfil"}]
        /\ rt' \in [Threads -> Transfers \cup {NoTransfer}]
    BY DEF Typed, ThreadsTyped, EndReport
  <1>2. /\ at' \in [Transfers -> {"new", "queue", "hand", "pending", "inflight", "gone"}]
        /\ by' \in [Transfers -> Threads]
    BY ReadOfType, ThreadsHas DEF Typed, TransfersTyped, EndReport, Destroy
  <1>3. slotted' \subseteq Transfers /\ buffered' \subseteq Transfers
    BY DEF Typed, GatesTyped, EndReport, Destroy
  <1>4. inUse' \in [Reactors -> Int]
    BY DEF Typed, GatesTyped, EndReport, Destroy
  <1>5. lent' \in [Reactors -> SUBSET Transfers]
    BY DEF Typed, GatesTyped, EndReport, Destroy
  <1> QED
    BY <1>1, <1>2, <1>3, <1>4, <1>5

LEMMA ReportStepTyped ==
    ASSUME Typed, ReportsHeld, NEW th \in Threads, ReportStep(th) PROVE Typed'
  <1>1. rt[th] \in Transfers
    BY DEF ReportsHeld, ReportStep, RecordException, CountDown, Fulfil
  <1>2. ReadOf[rt[th]] \in Reads
    BY <1>1, ReadOfType
  <1>3. CASE RecordException(th)
    <2>1. AggregatesTyped'
      BY <1>2, <1>3 DEF Typed, AggregatesTyped, RecordException
    <2>2. ThreadsTyped'
      BY <1>3 DEF Typed, ThreadsTyped, RecordException
    <2>3. PoolTyped' /\ TransfersTyped' /\ GatesTyped' /\ PassTyped'
      BY <1>3 DEF Typed, PoolTyped, TransfersTyped, GatesTyped, PassTyped, RecordException
    <2> QED
      BY <2>1, <2>2, <2>3 DEF Typed
  <1>4. CASE CountDown(th)
    <2>1. AggregatesTyped'
      BY <1>1, <1>2, <1>4, ConstantsAssumption DEF Typed, AggregatesTyped, CountDown
    <2>2. PoolTyped' /\ PassTyped'
      BY <1>4 DEF Typed, PoolTyped, PassTyped, CountDown
    <2>3. UNCHANGED <<xferVars, copyVars, pc, timeout, cpc>>
      BY <1>4 DEF CountDown
    <2>4. CASE EndReport(th)
      BY <1>1, <2>1, <2>2, <2>3, <2>4, EndReportTyped
         DEF Typed, TransfersTyped, GatesTyped, ThreadsTyped
    <2>5. CASE rpc' = [rpc EXCEPT ![th] = "fulfil"] /\ UNCHANGED <<rt, ownVars, gateVars>>
      BY <2>1, <2>2, <2>3, <2>5 DEF Typed, TransfersTyped, GatesTyped, ThreadsTyped
    <2> QED
      BY <1>4, <2>4, <2>5 DEF CountDown
  <1>5. CASE Fulfil(th)
    <2>1. AggregatesTyped'
      BY <1>2, <1>5 DEF Typed, AggregatesTyped, Fulfil
    <2>2. PoolTyped' /\ PassTyped'
      BY <1>5 DEF Typed, PoolTyped, PassTyped, Fulfil
    <2>3. UNCHANGED <<xferVars, copyVars, pc, timeout, cpc>> /\ EndReport(th)
      BY <1>5 DEF Fulfil
    <2> QED
      BY <1>1, <2>1, <2>2, <2>3, EndReportTyped
         DEF Typed, TransfersTyped, GatesTyped, ThreadsTyped
  <1> QED
    BY <1>3, <1>4, <1>5 DEF ReportStep

\* Every step keeps the types, given that a report is about a transfer.
LEMMA NextTyped == Typed /\ ReportsHeld /\ [Next]_vars => Typed'
  <1> SUFFICES ASSUME Typed, ReportsHeld, [Next]_vars PROVE Typed'
    OBVIOUS
  <1>1. ASSUME NEW a \in Reads, CallerStep(a) PROVE Typed'
    BY <1>1, SubmitPreadTyped, FailSubmittedTyped, WakeAllReactorsTyped, GetTyped,
       SyncAllEventsTyped DEF CallerStep
  <1>2. ASSUME NEW r \in Reactors, LoopStep(r) PROVE Typed'
    BY <1>2, LoopTopTyped, AdmitRetryTyped, ReadQueueShareTyped, TryPopQueuedTyped,
       AdmitPoppedTyped, ReturnToQueueTyped, PerformReturnsTyped, ReapCompletionTyped,
       SettleHostTyped, StageDeviceCopyTyped, StageFailsTyped, SettleFailedTyped,
       RequeueForRetryTyped, EnterPollTyped, PollReturnsTyped, SignalDeathTyped,
       SwapQueueTyped, DrainQueueTyped, FailPendingTyped, FailInFlightTyped,
       ClearInFlightTyped DEF LoopStep
  <1>3. CASE UNCHANGED vars
    <2>1. PoolTyped' /\ TransfersTyped' /\ GatesTyped'
      BY <1>3 DEF vars, Typed, PoolTyped, TransfersTyped, GatesTyped
    <2>2. AggregatesTyped' /\ PassTyped' /\ ThreadsTyped'
      BY <1>3 DEF vars, Typed, AggregatesTyped, PassTyped, ThreadsTyped
    <2> QED
      BY <2>1, <2>2 DEF Typed
  <1> QED
    BY <1>1, <1>2, <1>3, ReportStepTyped, MultiCallFailsTyped, WriteCallbackTyped,
       AttemptEndsTyped, BackoffElapsesTyped, CopyCompletesTyped DEF Next

-------------------------------------------------------------------------------
(* The aggregate reports and the contract.                                 *)

OpenOf(a) == {t \in SubrangesOf(a) : told[t] = "open"}

LEMMA OpenIsCounted ==
    ASSUME NEW a PROVE IsFiniteSet(OpenOf(a)) /\ Cardinality(OpenOf(a)) \in Nat
  BY SubsetIsCounted DEF OpenOf, SubrangesOf

-------------------------------------------------------------------------------
(* The initial states.                                                     *)

LEMMA InitReportInv == Init => ReportInv
  <1> SUFFICES ASSUME Init PROVE ReportInv
    OBVIOUS
  <1>1. QueueHolds
    BY DEF Init, QueueHolds, SubrangesOf
  <1>2. TodoHeld
    BY DEF Init, TodoHeld
  <1>3. CountedOnce
    BY DEF Init, CountedOnce
  <1>4. ReportsHeld
    BY DEF Init, ReportsHeld
  <1>5. LeftIsOpen
    <2>1. \A a \in Reads : {t \in SubrangesOf(a) : told[t] = "open"} = SubrangesOf(a)
      BY DEF Init, SubrangesOf
    <2> QED
      BY <2>1, SubrangesAssumption DEF Init, LeftIsOpen
  <1>6. FulfilledByLast
    BY DEF Init, FulfilledByLast
  <1>7. FailuresRecorded
    BY DEF Init, FailuresRecorded, SubrangesOf
  <1> QED
    BY <1>1, <1>2, <1>3, <1>4, <1>5, <1>6, <1>7 DEF ReportInv

-------------------------------------------------------------------------------
(* What many steps share.                                                  *)

\* Steps that neither report nor count leave the aggregates' conjuncts alone.
LEMMA NoReport ==
    ASSUME ReportInv, UNCHANGED <<left, told, promise, failed, rpc, rt>>
    PROVE  LeftIsOpen' /\ FulfilledByLast' /\ FailuresRecorded'
  <1>1. LeftIsOpen'
    BY DEF ReportInv, LeftIsOpen
  <1>2. FulfilledByLast'
    BY DEF ReportInv, FulfilledByLast
  <1>3. FailuresRecorded'
    BY DEF ReportInv, FailuresRecorded
  <1> QED
    BY <1>1, <1>2, <1>3

\* A thread that starts a report has not counted or recorded anything yet.
LEMMA StartReport ==
    ASSUME Typed, ReportInv, NEW th \in Threads, NEW t \in Transfers,
           rpc[th] = "idle", Report(th, t, "failed") \/ Report(th, t, "complete"),
           UNCHANGED aggVars
    PROVE  LeftIsOpen' /\ FulfilledByLast' /\ FailuresRecorded'
  <1>1. LeftIsOpen'
    BY DEF ReportInv, LeftIsOpen
  <1>2. FulfilledByLast'
    BY DEF ReportInv, FulfilledByLast, Report, Typed, ThreadsTyped
  <1>3. FailuresRecorded'
    BY DEF ReportInv, FailuresRecorded, Report, Typed, ThreadsTyped
  <1> QED
    BY <1>1, <1>2, <1>3

\* A transfer that its thread holds, or that waits, is not counted yet.
LEMMA HeldIsOpen ==
    ASSUME Typed, ReportInv, NEW t \in Transfers,
           \/ at[t] \in {"new", "queue", "pending"}
           \/ at[t] = "hand" /\ rpc[by[t]] = "idle"
           \/ at[t] = "inflight" /\ (pc[by[t]] # "failInFlight" \/ t \in todo[by[t]])
    PROVE  told[t] = "open"
  BY DEF ReportInv, CountedOnce

\* Steps of the loop that move no transfer.
LEMMA QuietStep ==
    ASSUME Typed, ReportInv, NEW r \in Reactors,
           UNCHANGED <<queue, at, by, cpc, aggVars, rpc, rt>>,
           UNCHANGED pc \/ \E l \in Labels \ {"retries", "failInFlight"} : Goto(r, l),
           pc[r] # "failInFlight",
           UNCHANGED todo \/ todo' = [todo EXCEPT ![r] = {}]
    PROVE  ReportInv'
  <1>1. QueueHolds'
    BY DEF ReportInv, QueueHolds
  <1>2. TodoHeld'
    BY DEF ReportInv, TodoHeld, Goto, Pending, InFlight, Typed, ThreadsTyped, PassTyped
  <1>3. CountedOnce'
    BY DEF ReportInv, CountedOnce, Goto, Typed, ThreadsTyped, PassTyped
  <1>4. ReportsHeld'
    BY DEF ReportInv, ReportsHeld, Goto, Typed, ThreadsTyped, PassTyped
  <1> QED
    BY <1>1, <1>2, <1>3, <1>4, NoReport DEF ReportInv

\* Steps of a caller or the environment that touch nothing the invariant speaks of
\* but the caller's own progress.
LEMMA OutsideStep ==
    ASSUME Typed, ReportInv, UNCHANGED <<queue, at, by, aggVars, rpc, rt, pc, todo>>,
           \/ UNCHANGED cpc
           \/ \E a \in Reads, l \in {"get", "sync", "done"} : cpc' = [cpc EXCEPT ![a] = l]
    PROVE  ReportInv'
  <1>1. QueueHolds'
    BY DEF ReportInv, QueueHolds, Typed, ThreadsTyped
  <1>2. TodoHeld'
    BY DEF ReportInv, TodoHeld, Pending, InFlight
  <1>3. CountedOnce'
    BY DEF ReportInv, CountedOnce
  <1>4. ReportsHeld'
    BY DEF ReportInv, ReportsHeld
  <1> QED
    BY <1>1, <1>2, <1>3, <1>4, NoReport DEF ReportInv

\* A report is about a transfer its thread holds.
LEMMA Reported ==
    ASSUME Typed, ReportInv, NEW th \in Threads, rpc[th] # "idle"
    PROVE  /\ rt[th] \in Transfers /\ by[rt[th]] = th
           /\ \/ at[rt[th]] = "hand"
              \/ /\ at[rt[th]] = "inflight" /\ th \in Reactors
                 /\ pc[th] = "failInFlight" /\ rt[th] \notin todo[th]
  BY DEF ReportInv, ReportsHeld

\* Reactor r moves one transfer that nobody reports: QueueHolds is left to the caller.
LEMMA TransferMoves ==
    ASSUME Typed, ReportInv, NEW r \in Reactors, NEW t \in Transfers, NEW p, NEW h,
           at[t] = "queue" \/ (at[t] \in {"hand", "pending", "inflight"} /\ by[t] = r),
           rpc[r] = "idle", pc[r] # "failInFlight",
           at' = [at EXCEPT ![t] = p], by' = [by EXCEPT ![t] = h],
           UNCHANGED pc \/ \E l \in Labels \ {"retries", "failInFlight"} : Goto(r, l),
           UNCHANGED todo \/ todo' = [todo EXCEPT ![r] = @ \ {t}],
           pc'[r] = "retries" => t \notin todo'[r],
           UNCHANGED <<aggVars, rpc, rt>>,
           QueueHolds'
    PROVE  ReportInv'
  <1>1. told[t] = "open"
    BY HeldIsOpen
  <1>2. \A th \in Threads : rpc[th] # "idle" => rt[th] # t
    BY Reported
  <1>3. TodoHeld'
    <2> SUFFICES ASSUME NEW s \in Reactors
                 PROVE  /\ pc'[s] = "retries" => todo'[s] \subseteq Pending(s)'
                        /\ pc'[s] = "failInFlight" => todo'[s] \subseteq InFlight(s)'
      BY DEF TodoHeld
    <2>1. CASE s = r
      BY <2>1 DEF ReportInv, TodoHeld, Goto, Pending, InFlight, Typed, ThreadsTyped,
             PassTyped, TransfersTyped
    <2>2. CASE s # r
      <3>1. pc'[s] = pc[s] /\ todo'[s] = todo[s]
        BY <2>2 DEF Goto, Typed, ThreadsTyped, PassTyped
      <3>2. pc[s] \in {"retries", "failInFlight"} => t \notin todo[s]
        BY <2>2 DEF ReportInv, TodoHeld, Pending, InFlight
      <3> QED
        BY <3>1, <3>2 DEF ReportInv, TodoHeld, Pending, InFlight, Typed, PassTyped,
               TransfersTyped
    <2> QED
      BY <2>1, <2>2
  <1>4. CountedOnce'
    <2> SUFFICES ASSUME NEW u \in Transfers, told[u] # "open"
                 PROVE  \/ at'[u] = "gone"
                        \/ at'[u] = "hand" /\ rpc[by'[u]] = "fulfil" /\ rt[by'[u]] = u
                        \/ /\ at'[u] = "inflight" /\ by'[u] \in Reactors
                           /\ pc'[by'[u]] = "failInFlight" /\ u \notin todo'[by'[u]]
      BY DEF CountedOnce
    <2>1. u # t /\ at'[u] = at[u] /\ by'[u] = by[u]
      BY <1>1 DEF Typed, TransfersTyped
    <2>2. ASSUME by[u] \in Reactors, pc[by[u]] = "failInFlight"
          PROVE  pc'[by[u]] = pc[by[u]] /\ todo'[by[u]] = todo[by[u]]
      BY <2>2 DEF Goto, Typed, ThreadsTyped, PassTyped
    <2> QED
      BY <2>1, <2>2 DEF ReportInv, CountedOnce
  <1>5. ReportsHeld'
    <2> SUFFICES ASSUME NEW th \in Threads, rpc[th] # "idle"
                 PROVE  /\ rt[th] \in Transfers
                        /\ by'[rt[th]] = th
                        /\ \/ at'[rt[th]] = "hand"
                           \/ /\ at'[rt[th]] = "inflight" /\ th \in Reactors
                              /\ pc'[th] = "failInFlight" /\ rt[th] \notin todo'[th]
                        /\ rpc[th] # "fulfil" => told[rt[th]] = "open"
                        /\ rpc[th] = "countFailed" => ReadOf[rt[th]] \in failed
      BY DEF ReportsHeld
    <2>1. th # r /\ at'[rt[th]] = at[rt[th]] /\ by'[rt[th]] = by[rt[th]]
      BY <1>2, Reported DEF Typed, TransfersTyped
    <2>2. th \in Reactors => pc'[th] = pc[th] /\ todo'[th] = todo[th]
      BY <2>1 DEF Goto, Typed, ThreadsTyped, PassTyped
    <2> QED
      BY <2>1, <2>2 DEF ReportInv, ReportsHeld
  <1> QED
    BY <1>3, <1>4, <1>5, NoReport DEF ReportInv

\* A thread starts to report a transfer it holds.
LEMMA ReportStarts ==
    ASSUME Typed, ReportInv, NEW th \in Threads, NEW t \in Transfers,
           rpc[th] = "idle", by[t] = th,
           at[t] = "hand" \/ (at[t] = "pending" /\ th \in Reactors /\ pc[th] # "retries"),
           at' = [at EXCEPT ![t] = "hand"],
           Report(th, t, "failed") \/ Report(th, t, "complete"),
           \/ UNCHANGED pc
           \/ /\ th \in Reactors /\ pc[th] # "failInFlight"
              /\ \E l \in Labels \ {"retries", "failInFlight"} : Goto(th, l),
           UNCHANGED <<queue, by, aggVars, todo, cpc>>
    PROVE  ReportInv'
  <1>1. told[t] = "open"
    BY HeldIsOpen
  <1>2. \A s \in Threads : rpc[s] # "idle" => rt[s] # t /\ s # th
    BY Reported
  <1>3. \A s \in Threads : s # th => rpc'[s] = rpc[s] /\ rt'[s] = rt[s]
    BY DEF Report, Typed, ThreadsTyped
  <1>4. \A s \in Reactors : pc[s] = "failInFlight" \/ s # th => pc'[s] = pc[s]
    BY DEF Goto, Typed, ThreadsTyped
  <1>5. QueueHolds'
    BY DEF ReportInv, QueueHolds, SubrangesOf, Typed, TransfersTyped, PoolTyped
  <1>6. TodoHeld'
    <2>1. \A s \in Reactors : /\ pc'[s] \in {"retries", "failInFlight"} => pc'[s] = pc[s]
                              /\ pc'[s] \in {"retries", "failInFlight"} => t \notin todo[s]
      BY <1>4 DEF ReportInv, TodoHeld, Pending, InFlight, Goto, Typed, ThreadsTyped
    <2> QED
      BY <2>1 DEF ReportInv, TodoHeld, Pending, InFlight, Typed, TransfersTyped, PassTyped
  <1>7. CountedOnce'
    <2> SUFFICES ASSUME NEW u \in Transfers, told[u] # "open"
                 PROVE  \/ at'[u] = "gone"
                        \/ at'[u] = "hand" /\ rpc'[by[u]] = "fulfil" /\ rt'[by[u]] = u
                        \/ /\ at'[u] = "inflight" /\ by[u] \in Reactors
                           /\ pc'[by[u]] = "failInFlight" /\ u \notin todo[by[u]]
      BY DEF CountedOnce
    <2>1. u # t /\ at'[u] = at[u]
      BY <1>1 DEF Typed, TransfersTyped
    <2>2. by[u] \in Threads
      BY DEF Typed, TransfersTyped
    <2>3. rpc[by[u]] = "fulfil" => rpc'[by[u]] = rpc[by[u]] /\ rt'[by[u]] = rt[by[u]]
      BY <1>3, <2>2
    <2> QED
      BY <1>4, <2>1, <2>2, <2>3 DEF ReportInv, CountedOnce
  <1>8. ReportsHeld'
    <2> SUFFICES ASSUME NEW s \in Threads, rpc'[s] # "idle"
                 PROVE  /\ rt'[s] \in Transfers
                        /\ by[rt'[s]] = s
                        /\ \/ at'[rt'[s]] = "hand"
                           \/ /\ at'[rt'[s]] = "inflight" /\ s \in Reactors
                              /\ pc'[s] = "failInFlight" /\ rt'[s] \notin todo[s]
                        /\ rpc'[s] # "fulfil" => told[rt'[s]] = "open"
                        /\ rpc'[s] = "countFailed" => ReadOf[rt'[s]] \in failed
      BY DEF ReportsHeld
    <2>1. CASE s = th
      BY <1>1, <2>1 DEF Report, Typed, ThreadsTyped, TransfersTyped
    <2>2. CASE s # th
      <3>1. rpc[s] # "idle" /\ rpc'[s] = rpc[s] /\ rt'[s] = rt[s]
        BY <1>3, <2>2
      <3>2. at'[rt[s]] = at[rt[s]]
        BY <1>2, <3>1, Reported DEF Typed, TransfersTyped
      <3> QED
        BY <1>4, <2>2, <3>1, <3>2 DEF ReportInv, ReportsHeld
    <2> QED
      BY <2>1, <2>2
  <1> QED
    BY <1>5, <1>6, <1>7, <1>8, StartReport DEF ReportInv

\* A transfer that is neither new nor queued moves, and not into the queue.
LEMMA QueueKept ==
    ASSUME Typed, ReportInv, NEW t \in Transfers, NEW p,
           at[t] \notin {"new", "queue"}, at' = [at EXCEPT ![t] = p], UNCHANGED <<queue, cpc>>
    PROVE  QueueHolds'
  <1>1. \A i \in 1..Len(queue) : queue[i] \in Transfers /\ queue[i] # t
    BY DEF ReportInv, QueueHolds, Typed, PoolTyped
  <1>2. \A i \in 1..Len(queue) : at'[queue[i]] = "queue"
    BY <1>1 DEF ReportInv, QueueHolds, Typed, TransfersTyped
  <1>3. \A a \in Reads : cpc[a] = "start" => \A u \in SubrangesOf(a) : at'[u] = "new"
    BY DEF ReportInv, QueueHolds, SubrangesOf, Typed, TransfersTyped
  <1> QED
    BY <1>2, <1>3 DEF ReportInv, QueueHolds

-------------------------------------------------------------------------------
(* The reactor's steps.                                                    *)

LEMMA LoopTopInv == ASSUME Typed, ReportInv, NEW r \in Reactors, LoopTop(r) PROVE ReportInv'
  <1>1. UNCHANGED <<queue, at, by, cpc, aggVars, rpc, rt>> /\ pc[r] = "top"
    BY DEF LoopTop, At
  <1>2. CASE dead
    <2>1. Goto(r, "fail") /\ UNCHANGED todo
      BY <1>2 DEF LoopTop
    <2> QED
      BY <1>1, <2>1, QuietStep DEF Labels
  <1>3. CASE ~dead
    <2>1. Goto(r, "retries") /\ todo' = [todo EXCEPT ![r] = Pending(r) \ backingOff]
      BY <1>3 DEF LoopTop, NewPass, SetPass
    <2>2. QueueHolds'
      BY <1>1 DEF ReportInv, QueueHolds
    <2>3. TodoHeld'
      BY <1>1, <2>1 DEF ReportInv, TodoHeld, Goto, Pending, InFlight, Typed, ThreadsTyped,
             PassTyped
    <2>4. CountedOnce'
      BY <1>1, <2>1 DEF ReportInv, CountedOnce, Goto, Typed, ThreadsTyped, PassTyped
    <2>5. ReportsHeld'
      BY <1>1, <2>1 DEF ReportInv, ReportsHeld, Goto, Typed, ThreadsTyped, PassTyped
    <2> QED
      BY <1>1, <2>2, <2>3, <2>4, <2>5, NoReport DEF ReportInv
  <1> QED
    BY <1>2, <1>3

LEMMA QuietLoopInv ==
    ASSUME Typed, ReportInv, NEW r \in Reactors,
           \/ ReadQueueShare(r) \/ PerformReturns(r) \/ EnterPoll(r) \/ PollReturns(r)
           \/ MultiCallFails(r) \/ SignalDeath(r)
    PROVE  ReportInv'
  <1>1. UNCHANGED <<queue, at, by, cpc, aggVars, rpc, rt>>
    BY DEF ReadQueueShare, PerformReturns, EnterPoll, PollReturns, MultiCallFails, SignalDeath
  <1>2. \E l \in {"pool", "reap", "poll", "top", "signal", "swap", "fail"} : Goto(r, l)
    BY DEF ReadQueueShare, PerformReturns, EnterPoll, PollReturns, MultiCallFails, SignalDeath
  <1>3. pc[r] # "failInFlight"
    BY DEF ReadQueueShare, PerformReturns, EnterPoll, PollReturns, MultiCallFails,
           SignalDeath, At
  <1>4. UNCHANGED todo \/ todo' = [todo EXCEPT ![r] = {}]
    BY DEF ReadQueueShare, PerformReturns, EnterPoll, PollReturns, MultiCallFails,
           SignalDeath, SetPass
  <1> QED
    BY <1>1, <1>2, <1>3, <1>4, QuietStep DEF Labels

LEMMA AdmitRetryInv ==
    ASSUME Typed, ReportInv, NEW r \in Reactors, AdmitRetry(r) PROVE ReportInv'
  <1>1. PICK t \in todo[r] :
          /\ todo' = [todo EXCEPT ![r] = @ \ {t}]
          /\ \/ (Admitted(r, t) \/ Refused(r, t)) /\ UNCHANGED pc
             \/ AdmissionThrows(r, t)
    BY DEF AdmitRetry
  <1>2. /\ pc[r] = "retries" /\ rpc[r] = "idle"
        /\ UNCHANGED <<queue, cpc, aggVars, rpc, rt>>
    BY DEF AdmitRetry, At
  <1>3. t \in Transfers /\ at[t] = "pending" /\ by[t] = r
    BY <1>2 DEF ReportInv, TodoHeld, Pending
  <1>4. PICK p \in {"pending", "inflight"} : at' = [at EXCEPT ![t] = p]
    BY <1>1, <1>3 DEF Admitted, Refused, AdmissionThrows, Typed, TransfersTyped
  <1>5. by' = [by EXCEPT ![t] = r]
    BY <1>1, <1>3 DEF Admitted, Refused, AdmissionThrows, Typed, TransfersTyped
  <1>6. QueueHolds'
    BY <1>2, <1>3, <1>4, QueueKept
  <1>7. UNCHANGED pc \/ Goto(r, "signal")
    BY <1>1 DEF AdmissionThrows
  <1>8. pc'[r] = "retries" => t \notin todo'[r]
    BY <1>1 DEF Typed, PassTyped
  <1> QED
    BY <1>1, <1>2, <1>3, <1>4, <1>5, <1>6, <1>7, <1>8, TransferMoves DEF Labels

LEMMA TryPopQueuedInv ==
    ASSUME Typed, ReportInv, NEW r \in Reactors, TryPopQueued(r) PROVE ReportInv'
  <1>1. pc[r] = "pool" /\ rpc[r] = "idle" /\ UNCHANGED <<cpc, aggVars, rpc, rt, todo>>
    BY DEF TryPopQueued, At
  <1>2. CASE budget[r] = 0 \/ ~CanAcquire(r) \/ queue = <<>>
    <2>1. Goto(r, "perform") /\ UNCHANGED <<queue, at, by>>
      BY <1>2 DEF TryPopQueued
    <2> QED
      BY <1>1, <2>1, QuietStep DEF Labels
  <1>3. CASE ~(budget[r] = 0 \/ ~CanAcquire(r) \/ queue = <<>>)
    <2>1. /\ queue # <<>> /\ Goto(r, "popped") /\ queue' = Tail(queue)
          /\ at' = [at EXCEPT ![Head(queue)] = "hand"]
          /\ by' = [by EXCEPT ![Head(queue)] = r]
      BY <1>3 DEF TryPopQueued
    <2>2. queue \in Seq(Transfers)
      BY DEF Typed, PoolTyped
    <2>3. Head(queue) \in Transfers /\ at[Head(queue)] = "queue"
      BY <2>1, <2>2, PoppedQueue DEF ReportInv, QueueHolds
    <2>4. QueueHolds'
      <3>1. \A i \in 1..Len(queue') : /\ i + 1 \in 1..Len(queue) /\ queue'[i] = queue[i + 1]
                                      /\ queue[i + 1] # Head(queue)
        BY <2>1, <2>2, PoppedQueue DEF ReportInv, QueueHolds
      <3>2. \A i \in 1..Len(queue') : at'[queue'[i]] = "queue"
        BY <2>1, <2>2, <3>1 DEF ReportInv, QueueHolds, Typed, TransfersTyped
      <3>3. \A i, j \in 1..Len(queue') : queue'[i] = queue'[j] => i = j
        BY <3>1 DEF ReportInv, QueueHolds
      <3>4. \A a \in Reads : cpc'[a] = "start" => \A t \in SubrangesOf(a) : at'[t] = "new"
        BY <1>1, <2>1, <2>3 DEF ReportInv, QueueHolds, SubrangesOf, Typed, TransfersTyped
      <3> QED
        BY <3>2, <3>3, <3>4 DEF QueueHolds
    <2>5. pc'[r] # "retries"
      BY <2>1 DEF Goto, Typed, ThreadsTyped
    <2> QED
      BY <1>1, <2>1, <2>3, <2>4, <2>5, TransferMoves DEF Labels
  <1> QED
    BY <1>2, <1>3

LEMMA AdmitPoppedInv ==
    ASSUME Typed, ReportInv, NEW r \in Reactors, AdmitPopped(r) PROVE ReportInv'
  <1>1. PICK t \in Hand(r) : \/ Admitted(r, t) /\ Goto(r, "pool")
                             \/ Refused(r, t) /\ Goto(r, "return")
                             \/ AdmissionThrows(r, t)
    BY DEF AdmitPopped
  <1>2. /\ pc[r] = "popped" /\ rpc[r] = "idle"
        /\ UNCHANGED <<queue, cpc, aggVars, rpc, rt, todo>>
    BY DEF AdmitPopped, At
  <1>3. t \in Transfers /\ at[t] = "hand" /\ by[t] = r
    BY DEF Hand
  <1>4. PICK p \in {"hand", "pending", "inflight"} : at' = [at EXCEPT ![t] = p]
    BY <1>1, <1>3 DEF Admitted, Refused, AdmissionThrows, Typed, TransfersTyped
  <1>5. by' = [by EXCEPT ![t] = r]
    BY <1>1, <1>3 DEF Admitted, Refused, AdmissionThrows, Typed, TransfersTyped
  <1>6. QueueHolds'
    BY <1>2, <1>3, <1>4, QueueKept
  <1>7. \E l \in {"pool", "return", "signal"} : Goto(r, l)
    BY <1>1 DEF AdmissionThrows
  <1>8. pc'[r] # "retries"
    BY <1>7 DEF Goto, Typed, ThreadsTyped
  <1> QED
    BY <1>2, <1>3, <1>4, <1>5, <1>6, <1>7, <1>8, TransferMoves DEF Labels

LEMMA ReturnToQueueInv ==
    ASSUME Typed, ReportInv, NEW r \in Reactors, ReturnToQueue(r) PROVE ReportInv'
  <1>1. PICK t \in Hand(r) :
          \/ Report(r, t, "failed") /\ UNCHANGED <<queue, at, by>>
          \/ /\ queue' = <<t>> \o queue
             /\ at' = [at EXCEPT ![t] = "queue"]
             /\ by' = [by EXCEPT ![t] = ReadOf[t]]
             /\ UNCHANGED <<rpc, rt>>
    BY DEF ReturnToQueue
  <1>2. /\ pc[r] = "return" /\ rpc[r] = "idle" /\ Goto(r, "perform")
        /\ UNCHANGED <<cpc, aggVars, todo>>
    BY DEF ReturnToQueue, At
  <1>3. t \in Transfers /\ at[t] = "hand" /\ by[t] = r
    BY DEF Hand
  <1>4. CASE Report(r, t, "failed") /\ UNCHANGED <<queue, at, by>>
    <2>1. at' = [at EXCEPT ![t] = "hand"]
      BY <1>3, <1>4 DEF Typed, TransfersTyped
    <2> QED
      BY <1>2, <1>3, <1>4, <2>1, ThreadsHas, ReportStarts DEF Labels
  <1>5. CASE /\ queue' = <<t>> \o queue
             /\ at' = [at EXCEPT ![t] = "queue"]
             /\ by' = [by EXCEPT ![t] = ReadOf[t]]
             /\ UNCHANGED <<rpc, rt>>
    <2>1. QueueHolds'
      <3>1. /\ Len(queue') = Len(queue) + 1 /\ Len(queue) \in Nat
            /\ \A i \in 1..Len(queue') : queue'[i] = IF i = 1 THEN t ELSE queue[i - 1]
        <4>1. <<t>> \in Seq(Transfers) /\ Len(<<t>>) = 1 /\ <<t>>[1] = t
          BY <1>3
        <4>2. queue \in Seq(Transfers)
          BY DEF Typed, PoolTyped
        <4> QED
          BY <1>5, <4>1, <4>2, ConcatProperties
      <3>2. \A i \in 1..Len(queue) : queue[i] \in Transfers /\ queue[i] # t
        BY <1>3 DEF ReportInv, QueueHolds, Typed, PoolTyped
      <3>3. \A i \in 1..Len(queue') : at'[queue'[i]] = "queue"
        <4>1. at'[t] = "queue" /\ \A i \in 1..Len(queue) : at'[queue[i]] = "queue"
          BY <1>3, <1>5, <3>2 DEF ReportInv, QueueHolds, Typed, TransfersTyped
        <4> QED
          BY <3>1, <4>1
      <3>4. \A i, j \in 1..Len(queue') : queue'[i] = queue'[j] => i = j
        BY <3>1, <3>2 DEF ReportInv, QueueHolds
      <3>5. \A a \in Reads : cpc'[a] = "start" => \A u \in SubrangesOf(a) : at'[u] = "new"
        BY <1>2, <1>3, <1>5 DEF ReportInv, QueueHolds, SubrangesOf, Typed, TransfersTyped
      <3> QED
        BY <3>3, <3>4, <3>5 DEF QueueHolds
    <2>2. pc'[r] # "retries"
      BY <1>2 DEF Goto, Typed, ThreadsTyped
    <2> QED
      BY <1>2, <1>3, <1>5, <2>1, <2>2, TransferMoves DEF Labels
  <1> QED
    BY <1>1, <1>4, <1>5

LEMMA ReapCompletionInv ==
    ASSUME Typed, ReportInv, NEW r \in Reactors, ReapCompletion(r) PROVE ReportInv'
  <1>1. PICK t \in InFlight(r) : at' = [at EXCEPT ![t] = "hand"]
    BY DEF ReapCompletion
  <1>2. /\ pc[r] = "reap" /\ rpc[r] = "idle" /\ Goto(r, "settle")
        /\ UNCHANGED <<queue, cpc, aggVars, rpc, rt, todo>>
    BY DEF ReapCompletion, At
  <1>3. t \in Transfers /\ at[t] = "inflight" /\ by[t] = r /\ by' = [by EXCEPT ![t] = r]
    BY DEF ReapCompletion, InFlight, Typed, TransfersTyped
  <1>4. QueueHolds'
    BY <1>1, <1>2, <1>3, QueueKept
  <1>5. pc'[r] # "retries"
    BY <1>2 DEF Goto, Typed, ThreadsTyped
  <1> QED
    BY <1>1, <1>2, <1>3, <1>4, <1>5, TransferMoves DEF Labels

\* The four ways settle_transfer() reports.
LEMMA SettledInv ==
    ASSUME Typed, ReportInv, NEW r \in Reactors,
           SettleHost(r) \/ StageDeviceCopy(r) \/ StageFails(r) \/ SettleFailed(r)
    PROVE  ReportInv'
  <1>1. PICK t \in Hand(r) : Report(r, t, "complete") \/ Report(r, t, "failed")
    BY DEF SettleHost, StageDeviceCopy, StageFails, SettleFailed
  <1>2. /\ pc[r] = "settle" /\ rpc[r] = "idle" /\ Goto(r, "reap")
        /\ UNCHANGED <<queue, at, by, cpc, aggVars, todo>>
    BY DEF SettleHost, StageDeviceCopy, StageFails, SettleFailed, At
  <1>3. t \in Transfers /\ at[t] = "hand" /\ by[t] = r /\ at' = [at EXCEPT ![t] = "hand"]
    BY <1>2 DEF Hand, Typed, TransfersTyped
  <1> QED
    BY <1>1, <1>2, <1>3, ThreadsHas, ReportStarts DEF Labels

LEMMA RequeueForRetryInv ==
    ASSUME Typed, ReportInv, NEW r \in Reactors, RequeueForRetry(r) PROVE ReportInv'
  <1>1. PICK t \in Hand(r) : PushPending(r, t)
    BY DEF RequeueForRetry
  <1>2. /\ pc[r] = "settle" /\ rpc[r] = "idle" /\ Goto(r, "reap")
        /\ UNCHANGED <<queue, cpc, aggVars, todo>>
    BY DEF RequeueForRetry, At
  <1>3. t \in Transfers /\ at[t] = "hand" /\ by[t] = r
    BY DEF Hand
  <1>4. CASE at' = [at EXCEPT ![t] = "pending"] /\ UNCHANGED <<rpc, rt>>
    <2>1. by' = [by EXCEPT ![t] = r]
      BY <1>3 DEF RequeueForRetry, Typed, TransfersTyped
    <2>2. QueueHolds'
      BY <1>2, <1>3, <1>4, QueueKept
    <2>3. pc'[r] # "retries"
      BY <1>2 DEF Goto, Typed, ThreadsTyped
    <2> QED
      BY <1>2, <1>3, <1>4, <2>1, <2>2, <2>3, TransferMoves DEF Labels
  <1>5. CASE Report(r, t, "failed") /\ UNCHANGED at
    <2>1. at' = [at EXCEPT ![t] = "hand"] /\ UNCHANGED by
      BY <1>3, <1>5 DEF RequeueForRetry, Typed, TransfersTyped
    <2> QED
      BY <1>2, <1>3, <1>5, <2>1, ThreadsHas, ReportStarts DEF Labels
  <1> QED
    BY <1>1, <1>4, <1>5 DEF PushPending

-------------------------------------------------------------------------------
(* Steps of a dying pool.                                                  *)

LEMMA SwapQueueInv == ASSUME Typed, ReportInv, NEW r \in Reactors, SwapQueue(r) PROVE ReportInv'
  <1>1. /\ pc[r] = "swap" /\ rpc[r] = "idle" /\ Goto(r, "drain") /\ queue' = <<>>
        /\ UNCHANGED <<cpc, aggVars, rpc, rt, todo>>
    BY DEF SwapQueue, At
  <1>2. \A t \in Transfers :
          IF at[t] = "queue" THEN at'[t] = "hand" /\ by'[t] = r
                             ELSE at'[t] = at[t] /\ by'[t] = by[t]
    BY DEF SwapQueue
  <1>3. \A s \in Reactors : s # r => pc'[s] = pc[s]
    BY <1>1 DEF Goto, Typed, ThreadsTyped
  <1>4. pc'[r] = "drain"
    BY <1>1 DEF Goto, Typed, ThreadsTyped
  <1>5. QueueHolds'
    BY <1>1, <1>2 DEF ReportInv, QueueHolds, SubrangesOf
  <1>6. TodoHeld'
    BY <1>1, <1>2, <1>3, <1>4 DEF ReportInv, TodoHeld, Pending, InFlight, Typed, PassTyped
  <1>7. CountedOnce'
    BY <1>1, <1>2, <1>3, HeldIsOpen DEF ReportInv, CountedOnce
  <1>8. ReportsHeld'
    BY <1>1, <1>2, <1>3, Reported DEF ReportInv, ReportsHeld
  <1> QED
    BY <1>1, <1>5, <1>6, <1>7, <1>8, NoReport DEF ReportInv

LEMMA DrainQueueInv ==
    ASSUME Typed, ReportInv, NEW r \in Reactors, DrainQueue(r) PROVE ReportInv'
  <1>1. pc[r] = "drain" /\ rpc[r] = "idle" /\ UNCHANGED <<queue, at, by, cpc, aggVars, todo>>
    BY DEF DrainQueue, At
  <1>2. ASSUME NEW t \in Hand(r), Report(r, t, "failed"), UNCHANGED pc PROVE ReportInv'
    <2>1. t \in Transfers /\ at[t] = "hand" /\ by[t] = r /\ at' = [at EXCEPT ![t] = "hand"]
      BY <1>1 DEF Hand, Typed, TransfersTyped
    <2> QED
      BY <1>1, <1>2, <2>1, ThreadsHas, ReportStarts
  <1>3. ASSUME Goto(r, "fail"), UNCHANGED <<rpc, rt>> PROVE ReportInv'
    BY <1>1, <1>3, QuietStep DEF Labels
  <1> QED
    BY <1>2, <1>3 DEF DrainQueue

LEMMA FailPendingInv ==
    ASSUME Typed, ReportInv, NEW r \in Reactors, FailPending(r) PROVE ReportInv'
  <1>1. pc[r] = "fail" /\ rpc[r] = "idle" /\ UNCHANGED <<queue, by, cpc, aggVars>>
    BY DEF FailPending, At
  <1>2. ASSUME NEW t \in Pending(r), at' = [at EXCEPT ![t] = "hand"], Report(r, t, "failed"),
               UNCHANGED <<pc, todo>>
        PROVE  ReportInv'
    <2>1. t \in Transfers /\ at[t] = "pending" /\ by[t] = r
      BY DEF Pending
    <2> QED
      BY <1>1, <1>2, <2>1, ThreadsHas, ReportStarts
  <1>3. ASSUME todo' = [todo EXCEPT ![r] = InFlight(r)], Goto(r, "failInFlight"),
               UNCHANGED <<at, rpc, rt>>
        PROVE  ReportInv'
    <2>1. /\ pc'[r] = "failInFlight" /\ todo'[r] = InFlight(r)
          /\ \A s \in Reactors : s # r => pc'[s] = pc[s] /\ todo'[s] = todo[s]
      BY <1>3 DEF Goto, Typed, ThreadsTyped, PassTyped
    <2>2. QueueHolds'
      BY <1>1, <1>3 DEF ReportInv, QueueHolds
    <2>3. TodoHeld'
      BY <1>1, <1>3, <2>1 DEF ReportInv, TodoHeld, Pending, InFlight
    <2>4. CountedOnce'
      BY <1>1, <1>3, <2>1 DEF ReportInv, CountedOnce
    <2>5. ReportsHeld'
      BY <1>1, <1>3, <2>1 DEF ReportInv, ReportsHeld
    <2> QED
      BY <1>1, <1>3, <2>2, <2>3, <2>4, <2>5, NoReport DEF ReportInv
  <1> QED
    BY <1>2, <1>3 DEF FailPending

LEMMA FailInFlightInv ==
    ASSUME Typed, ReportInv, NEW r \in Reactors, FailInFlight(r) PROVE ReportInv'
  <1>1. PICK t \in todo[r] : Report(r, t, "failed") /\ todo' = [todo EXCEPT ![r] = @ \ {t}]
    BY DEF FailInFlight
  <1>2. /\ pc[r] = "failInFlight" /\ rpc[r] = "idle"
        /\ UNCHANGED <<queue, at, by, cpc, aggVars, pc>>
    BY DEF FailInFlight, At
  <1>3. t \in Transfers /\ at[t] = "inflight" /\ by[t] = r
    BY <1>2 DEF ReportInv, TodoHeld, InFlight
  <1>4. told[t] = "open"
    BY <1>2, <1>3, HeldIsOpen
  <1>5. /\ rpc'[r] = "failed" /\ rt'[r] = t /\ todo'[r] = todo[r] \ {t}
        /\ \A s \in Threads : s # r => rpc'[s] = rpc[s] /\ rt'[s] = rt[s]
        /\ \A s \in Reactors : s # r => todo'[s] = todo[s]
    BY <1>1, ThreadsHas DEF Report, Typed, ThreadsTyped, PassTyped
  <1>6. QueueHolds'
    BY <1>2 DEF ReportInv, QueueHolds
  <1>7. TodoHeld'
    BY <1>2, <1>5 DEF ReportInv, TodoHeld, Pending, InFlight
  <1>8. CountedOnce'
    BY <1>2, <1>4, <1>5 DEF ReportInv, CountedOnce, Typed, TransfersTyped
  <1>9. ReportsHeld'
    BY <1>2, <1>3, <1>4, <1>5, Reported DEF ReportInv, ReportsHeld
  <1> QED
    BY <1>1, <1>2, <1>3, <1>6, <1>7, <1>8, <1>9, ThreadsHas, StartReport DEF ReportInv

LEMMA ClearInFlightInv ==
    ASSUME Typed, ReportInv, NEW r \in Reactors, ClearInFlight(r) PROVE ReportInv'
  <1>1. /\ pc[r] = "failInFlight" /\ rpc[r] = "idle" /\ Goto(r, "exited")
        /\ UNCHANGED <<queue, cpc, aggVars, rpc, rt, todo>>
    BY DEF ClearInFlight, At
  <1>2. \A t \in Transfers :
          IF at[t] = "inflight" /\ by[t] = r THEN at'[t] = "gone"
                                             ELSE at'[t] = at[t] /\ by'[t] = by[t]
    BY DEF ClearInFlight, InFlight
  <1>3. pc'[r] = "exited" /\ \A s \in Reactors : s # r => pc'[s] = pc[s]
    BY <1>1 DEF Goto, Typed, ThreadsTyped
  <1>4. QueueHolds'
    BY <1>1, <1>2 DEF ReportInv, QueueHolds, SubrangesOf, Typed, PoolTyped
  <1>5. TodoHeld'
    BY <1>1, <1>2, <1>3 DEF ReportInv, TodoHeld, Pending, InFlight
  <1>6. CountedOnce'
    BY <1>1, <1>2, <1>3 DEF ReportInv, CountedOnce
  <1>7. ReportsHeld'
    BY <1>1, <1>2, <1>3, Reported DEF ReportInv, ReportsHeld
  <1> QED
    BY <1>1, <1>4, <1>5, <1>6, <1>7, NoReport DEF ReportInv

-------------------------------------------------------------------------------
(* The callers' steps.                                                     *)

LEMMA SubmitPreadInv ==
    ASSUME Typed, ReportInv, NEW a \in Reads, SubmitPread(a) PROVE ReportInv'
  <1>1. cpc[a] = "start" /\ UNCHANGED <<by, aggVars, rpc, rt, pc, todo>>
    BY DEF SubmitPread
  <1>2. /\ cpc'[a] # "start" /\ \A b \in Reads : b # a => cpc'[b] = cpc[b]
        /\ \A t \in Transfers : IF ReadOf[t] = a THEN at'[t] \in {"hand", "queue"}
                                                 ELSE at'[t] = at[t]
    BY DEF SubmitPread, Typed, ThreadsTyped
  <1>3. \A t \in Transfers : ReadOf[t] = a => at[t] = "new"
    BY <1>1 DEF ReportInv, QueueHolds, SubrangesOf
  <1>4. QueueHolds'
    <2>1. CASE dead
      <3>1. UNCHANGED queue
        BY <2>1 DEF SubmitPread
      <3> QED
        BY <1>2, <1>3, <3>1 DEF ReportInv, QueueHolds, SubrangesOf, Typed, PoolTyped
    <2>2. CASE ~dead
      <3>1. queue' = queue \o Subranges[a]
            /\ \A t \in Transfers : ReadOf[t] = a => at'[t] = "queue"
        BY <2>2 DEF SubmitPread
      <3>2. /\ Len(queue') = Len(queue) + Len(Subranges[a])
            /\ Len(queue) \in Nat /\ Len(Subranges[a]) \in Nat
            /\ \A i \in 1..Len(queue') :
                 queue'[i] = IF i <= Len(queue) THEN queue[i] ELSE Subranges[a][i - Len(queue)]
        BY <3>1, SubrangesAssumption, ConcatProperties DEF Typed, PoolTyped
      <3>3. \A i \in 1..Len(queue) : /\ queue[i] \in Transfers /\ at[queue[i]] = "queue"
                                     /\ ReadOf[queue[i]] # a
        BY <1>3 DEF ReportInv, QueueHolds, Typed, PoolTyped
      <3>4. \A i \in 1..Len(Subranges[a]) :
              Subranges[a][i] \in Transfers /\ ReadOf[Subranges[a][i]] = a
        <4>1. Elements(Subranges[a]) = SubrangesOf(a)
          BY SubrangesAssumption
        <4> QED
          BY <4>1 DEF SubrangesOf, Elements
      <3>5. \A i, j \in 1..Len(Subranges[a]) : Subranges[a][i] = Subranges[a][j] => i = j
        BY SubrangesAssumption
      <3>6. \A i \in 1..Len(queue') : at'[queue'[i]] = "queue"
        BY <1>2, <3>1, <3>2, <3>3, <3>4
      <3>7. ASSUME NEW i \in 1..Len(queue'), NEW j \in 1..Len(queue'), queue'[i] = queue'[j]
            PROVE  i = j
        <4>1. \A n \in 1..Len(queue') : n > Len(queue) => n - Len(queue) \in 1..Len(Subranges[a])
          BY <3>2
        <4>2. CASE i <= Len(queue) /\ j <= Len(queue)
          BY <3>2, <3>7, <4>2 DEF ReportInv, QueueHolds
        <4>3. CASE i > Len(queue) /\ j > Len(queue)
          <5>1. i - Len(queue) = j - Len(queue)
            BY SMTT(30), <3>2, <3>5, <3>7, <4>1, <4>3
          <5> QED
            BY <3>2, <5>1
        <4>4. CASE i <= Len(queue) /\ j > Len(queue)
          BY <3>2, <3>3, <3>4, <3>7, <4>1, <4>4
        <4>5. CASE i > Len(queue) /\ j <= Len(queue)
          BY <3>2, <3>3, <3>4, <3>7, <4>1, <4>5
        <4> QED
          BY <3>2, <4>2, <4>3, <4>4, <4>5
      <3>8. \A b \in Reads : cpc'[b] = "start" => \A t \in SubrangesOf(b) : at'[t] = "new"
        BY <1>2 DEF ReportInv, QueueHolds, SubrangesOf
      <3> QED
        BY <3>6, <3>7, <3>8 DEF QueueHolds
    <2> QED
      BY <2>1, <2>2
  <1>5. TodoHeld'
    BY <1>1, <1>2, <1>3 DEF ReportInv, TodoHeld, Pending, InFlight
  <1>6. CountedOnce'
    BY <1>1, <1>2, <1>3 DEF ReportInv, CountedOnce
  <1>7. ReportsHeld'
    BY <1>1, <1>2, <1>3, Reported DEF ReportInv, ReportsHeld
  <1> QED
    BY <1>1, <1>4, <1>5, <1>6, <1>7, NoReport DEF ReportInv

LEMMA FailSubmittedInv ==
    ASSUME Typed, ReportInv, NEW a \in Reads, FailSubmitted(a) PROVE ReportInv'
  <1>1. rpc[a] = "idle" /\ UNCHANGED <<queue, at, by, pc, aggVars, todo>>
    BY DEF FailSubmitted
  <1>2. ASSUME NEW t \in Hand(a), Report(a, t, "failed"), UNCHANGED cpc PROVE ReportInv'
    <2>1. t \in Transfers /\ at[t] = "hand" /\ by[t] = a /\ at' = [at EXCEPT ![t] = "hand"]
      BY <1>1 DEF Hand, Typed, TransfersTyped
    <2> QED
      BY <1>1, <1>2, <2>1, ThreadsHas, ReportStarts
  <1>3. ASSUME cpc' = [cpc EXCEPT ![a] = "get"], UNCHANGED <<rpc, rt>> PROVE ReportInv'
    BY <1>1, <1>3, OutsideStep
  <1> QED
    BY <1>2, <1>3 DEF FailSubmitted

LEMMA OutsideInv ==
    ASSUME Typed, ReportInv,
           \/ \E a \in Reads : WakeAllReactors(a) \/ Get(a) \/ SyncAllEvents(a)
           \/ \E r \in Reactors, t \in Transfers : WriteCallback(r, t) \/ AttemptEnds(r, t)
           \/ \E t \in Transfers : BackoffElapses(t) \/ CopyCompletes(t)
    PROVE  ReportInv'
  <1>1. UNCHANGED <<queue, at, by, aggVars, rpc, rt, pc, todo>>
    BY DEF WakeAllReactors, Get, SyncAllEvents, WriteCallback, AttemptEnds, BackoffElapses,
           CopyCompletes
  <1>2. \/ UNCHANGED cpc
        \/ \E a \in Reads, l \in {"get", "sync", "done"} : cpc' = [cpc EXCEPT ![a] = l]
    BY DEF WakeAllReactors, Get, SyncAllEvents, WriteCallback, AttemptEnds, BackoffElapses,
           CopyCompletes
  <1> QED
    BY <1>1, <1>2, OutsideStep

-------------------------------------------------------------------------------
(* The steps of a report.                                                  *)

\* What ends a report leaves every other transfer where it was.
LEMMA Ended ==
    ASSUME Typed, ReportInv, NEW th \in Threads, rpc[th] # "idle", EndReport(th)
    PROVE  /\ rpc'[th] = "idle"
           /\ \A s \in Threads : s # th => rpc'[s] = rpc[s] /\ rt'[s] = rt[s]
           /\ \A u \in Transfers : u # rt[th] => at'[u] = at[u] /\ by'[u] = by[u]
           /\ IF at[rt[th]] = "inflight"
              THEN at'[rt[th]] = "inflight" /\ by'[rt[th]] = th
              ELSE at'[rt[th]] = "gone"
  <1>1. rt[th] \in Transfers /\ by[rt[th]] = th
    BY Reported
  <1> QED
    BY <1>1 DEF EndReport, Destroy, Typed, ThreadsTyped, TransfersTyped

LEMMA RecordExceptionInv ==
    ASSUME Typed, ReportInv, NEW th \in Threads, RecordException(th) PROVE ReportInv'
  <1>1. /\ rpc[th] = "failed" /\ failed' = failed \cup {ReadOf[rt[th]]}
        /\ UNCHANGED <<queue, at, by, cpc, pc, todo, left, promise, told, rt>>
    BY DEF RecordException
  <1>2. rpc'[th] = "countFailed" /\ \A s \in Threads : s # th => rpc'[s] = rpc[s]
    BY DEF RecordException, Typed, ThreadsTyped
  <1>3. QueueHolds' /\ TodoHeld'
    BY <1>1 DEF ReportInv, QueueHolds, TodoHeld, Pending, InFlight
  <1>4. CountedOnce'
    BY <1>1, <1>2 DEF ReportInv, CountedOnce, Typed, TransfersTyped
  <1>5. ReportsHeld'
    BY <1>1, <1>2 DEF ReportInv, ReportsHeld
  <1>6. LeftIsOpen'
    BY <1>1 DEF ReportInv, LeftIsOpen
  <1>7. FulfilledByLast'
    BY <1>1, <1>2 DEF ReportInv, FulfilledByLast
  <1>8. FailuresRecorded'
    BY <1>1, <1>2 DEF ReportInv, FailuresRecorded
  <1> QED
    BY <1>3, <1>4, <1>5, <1>6, <1>7, <1>8 DEF ReportInv

LEMMA CountDownInv ==
    ASSUME Typed, ReportInv, NEW th \in Threads, CountDown(th) PROVE ReportInv'
  <1> DEFINE t == rt[th]
             a == ReadOf[t]
             v == IF rpc[th] = "complete" THEN "ok" ELSE "failed"
  <1>1. /\ rpc[th] \in {"complete", "countFailed"}
        /\ left' = [left EXCEPT ![a] = @ - 1]
        /\ told' = [told EXCEPT ![t] = v]
        /\ UNCHANGED <<queue, cpc, pc, todo, failed, promise>>
    BY DEF CountDown
  <1>2. /\ t \in Transfers /\ by[t] = th /\ told[t] = "open"
        /\ \/ at[t] = "hand"
           \/ /\ at[t] = "inflight" /\ th \in Reactors
              /\ pc[th] = "failInFlight" /\ t \notin todo[th]
    BY <1>1 DEF ReportInv, ReportsHeld
  <1>3. a \in Reads
    BY <1>2, ReadOfType
  <1>4. /\ told'[t] = v /\ v \in {"ok", "failed"}
        /\ \A u \in Transfers : u # t => told'[u] = told[u]
        /\ left'[a] = left[a] - 1
        /\ \A b \in Reads : b # a => left'[b] = left[b]
    BY <1>1, <1>2, <1>3 DEF Typed, AggregatesTyped
  <1>5. \A b \in Reads : OpenOf(b)' = OpenOf(b) \ {t}
    BY <1>2, <1>4 DEF OpenOf, SubrangesOf
  <1>6. LeftIsOpen'
    <2>1. \A b \in Reads : left'[b] = Cardinality(OpenOf(b)')
      <3>1. t \in OpenOf(a) /\ \A b \in Reads : b # a => t \notin OpenOf(b)
        BY <1>2 DEF OpenOf, SubrangesOf
      <3>2. \A b \in Reads : left[b] = Cardinality(OpenOf(b))
        BY DEF ReportInv, LeftIsOpen, OpenOf
      <3>3. \A b \in Reads : Cardinality(OpenOf(b) \ {t}) =
              IF t \in OpenOf(b) THEN Cardinality(OpenOf(b)) - 1 ELSE Cardinality(OpenOf(b))
        BY OpenIsCounted, FS_RemoveElement
      <3> QED
        BY <1>3, <1>4, <1>5, <3>1, <3>2, <3>3
    <2> QED
      BY <2>1 DEF LeftIsOpen, OpenOf
  <1>7. left[a] # 0 /\ left[a] \in Nat
    <2>1. t \in OpenOf(a)
      BY <1>2 DEF OpenOf, SubrangesOf
    <2>2. left[a] = Cardinality(OpenOf(a))
      BY <1>3 DEF ReportInv, LeftIsOpen, OpenOf
    <2> QED
      BY <2>1, <2>2, OpenIsCounted, FS_EmptySet
  <1>8. promise[a] = "pending" /\ \A s \in Threads : rpc[s] = "fulfil" => ReadOf[rt[s]] # a
    BY <1>3, <1>7 DEF ReportInv, FulfilledByLast
  <1>9. \A s \in Threads : s # th /\ rpc[s] # "idle" => rt[s] # t /\ rt[s] \in Transfers
    BY <1>2, Reported
  \* The state after the report of t has ended, or stays open for Fulfil.
  <1>10. /\ \A s \in Threads : s # th => rpc'[s] = rpc[s] /\ rt'[s] = rt[s]
         /\ \A u \in Transfers : u # t => at'[u] = at[u] /\ by'[u] = by[u]
         /\ \/ /\ left[a] = 1 /\ rpc'[th] = "fulfil" /\ rt'[th] = t
               /\ at'[t] = at[t] /\ by'[t] = th
            \/ /\ rpc'[th] = "idle"
               /\ \/ at[t] = "inflight" /\ at'[t] = "inflight" /\ by'[t] = th
                  \/ at[t] # "inflight" /\ at'[t] = "gone"
    <2>1. CASE CountsToZero(th)
      <3>1. rpc' = [rpc EXCEPT ![th] = "fulfil"] /\ UNCHANGED <<rt, at, by>>
        BY <2>1 DEF CountDown
      <3> QED
        BY <1>2, <2>1, <3>1 DEF CountsToZero, Typed, ThreadsTyped
    <2>2. CASE ~CountsToZero(th)
      <3>1. EndReport(th)
        BY <2>2 DEF CountDown
      <3> QED
        BY <1>1, <3>1, Ended
    <2> QED
      BY <2>1, <2>2
  <1>11. QueueHolds'
    <2>1. at[t] \notin {"new", "queue"}
      BY <1>2
    <2> QED
      BY <1>1, <1>10, <2>1 DEF ReportInv, QueueHolds, SubrangesOf, Typed, PoolTyped
  <1>12. TodoHeld'
    BY <1>1, <1>2, <1>10 DEF ReportInv, TodoHeld, Pending, InFlight
  <1>13. CountedOnce'
    <2> SUFFICES ASSUME NEW u \in Transfers, told'[u] # "open"
                 PROVE  \/ at'[u] = "gone"
                        \/ at'[u] = "hand" /\ rpc'[by'[u]] = "fulfil" /\ rt'[by'[u]] = u
                        \/ /\ at'[u] = "inflight" /\ by'[u] \in Reactors
                           /\ pc[by'[u]] = "failInFlight" /\ u \notin todo[by'[u]]
      BY <1>1 DEF CountedOnce
    <2>1. CASE u = t
      BY <1>2, <1>10, <2>1
    <2>2. CASE u # t
      <3>1. told[u] # "open" /\ at'[u] = at[u] /\ by'[u] = by[u] /\ by[u] \in Threads
        BY <1>4, <1>10, <2>2 DEF Typed, TransfersTyped
      <3>2. rpc[by[u]] = "fulfil" => by[u] # th
        BY <1>1
      <3> QED
        BY <1>10, <3>1, <3>2 DEF ReportInv, CountedOnce
    <2> QED
      BY <2>1, <2>2
  <1>14. ReportsHeld'
    <2> SUFFICES ASSUME NEW s \in Threads, rpc'[s] # "idle"
                 PROVE  /\ rt'[s] \in Transfers
                        /\ by'[rt'[s]] = s
                        /\ \/ at'[rt'[s]] = "hand"
                           \/ /\ at'[rt'[s]] = "inflight" /\ s \in Reactors
                              /\ pc[s] = "failInFlight" /\ rt'[s] \notin todo[s]
                        /\ rpc'[s] # "fulfil" => told'[rt'[s]] = "open"
                        /\ rpc'[s] = "countFailed" => ReadOf[rt'[s]] \in failed
      BY <1>1 DEF ReportsHeld
    <2>1. CASE s = th
      BY <1>2, <1>10, <2>1
    <2>2. CASE s # th
      BY <1>4, <1>9, <1>10, <2>2 DEF ReportInv, ReportsHeld
    <2> QED
      BY <2>1, <2>2
  <1>15. FulfilledByLast'
    <2>1. \A s \in Threads : rpc'[s] = "fulfil" =>
            left'[ReadOf[rt'[s]]] = 0 /\ promise[ReadOf[rt'[s]]] = "pending"
      <3> SUFFICES ASSUME NEW s \in Threads, rpc'[s] = "fulfil"
                   PROVE  left'[ReadOf[rt'[s]]] = 0 /\ promise[ReadOf[rt'[s]]] = "pending"
        OBVIOUS
      <3>1. CASE s = th
        BY <1>4, <1>7, <1>8, <1>10, <3>1
      <3>2. CASE s # th
        <4>1. rpc[s] = "fulfil" /\ rt'[s] = rt[s] /\ ReadOf[rt[s]] # a /\ ReadOf[rt[s]] \in Reads
          BY <1>8, <1>9, <1>10, <3>2, ReadOfType
        <4> QED
          BY <1>4, <4>1 DEF ReportInv, FulfilledByLast
      <3> QED
        BY <3>1, <3>2
    <2>2. \A s, s2 \in Threads :
            rpc'[s] = "fulfil" /\ rpc'[s2] = "fulfil" /\ ReadOf[rt'[s]] = ReadOf[rt'[s2]] => s = s2
      BY <1>8, <1>10 DEF ReportInv, FulfilledByLast
    <2>3. \A b \in Reads : promise[b] # "pending" => left'[b] = 0
      BY <1>4, <1>8 DEF ReportInv, FulfilledByLast
    <2> QED
      BY <1>1, <2>1, <2>2, <2>3 DEF FulfilledByLast
  <1>16. FailuresRecorded'
    <2> SUFFICES ASSUME NEW b \in Reads
                 PROVE  b \in failed <=>
                          \/ \E u \in SubrangesOf(b) : told'[u] = "failed"
                          \/ \E s \in Threads : rpc'[s] = "countFailed" /\ ReadOf[rt'[s]] = b
      BY <1>1 DEF FailuresRecorded
    <2>1. b \in failed <=>
            \/ \E u \in SubrangesOf(b) : told[u] = "failed"
            \/ \E s \in Threads : rpc[s] = "countFailed" /\ ReadOf[rt[s]] = b
      BY DEF ReportInv, FailuresRecorded
    <2>2. CASE rpc[th] = "complete"
      <3>1. \A u \in SubrangesOf(b) : told'[u] = "failed" <=> told[u] = "failed"
        BY <1>2, <1>4, <2>2 DEF SubrangesOf
      <3>2. \A s \in Threads : rpc'[s] = "countFailed" /\ ReadOf[rt'[s]] = b
                                 <=> rpc[s] = "countFailed" /\ ReadOf[rt[s]] = b
        BY <1>10, <2>2
      <3> QED
        BY <2>1, <3>1, <3>2
    <2>3. CASE rpc[th] = "countFailed"
      <3>1. \A u \in SubrangesOf(b) : told'[u] = "failed" <=> told[u] = "failed" \/ u = t
        BY <1>2, <1>4, <2>3 DEF SubrangesOf
      <3>2. \A s \in Threads : rpc'[s] = "countFailed" /\ ReadOf[rt'[s]] = b
                                 <=> s # th /\ rpc[s] = "countFailed" /\ ReadOf[rt[s]] = b
        BY <1>10, <2>3
      <3>3. t \in SubrangesOf(b) <=> a = b
        BY <1>2 DEF SubrangesOf
      <3> QED
        BY <2>1, <2>3, <3>1, <3>2, <3>3
    <2> QED
      BY <1>1, <2>2, <2>3
  <1> QED
    BY <1>6, <1>11, <1>12, <1>13, <1>14, <1>15, <1>16 DEF ReportInv

LEMMA FulfilInv == ASSUME Typed, ReportInv, NEW th \in Threads, Fulfil(th) PROVE ReportInv'
  <1> DEFINE t == rt[th]
             a == ReadOf[t]
  <1>1. /\ rpc[th] = "fulfil" /\ EndReport(th)
        /\ promise' = [promise EXCEPT ![a] = IF a \in failed THEN "exception" ELSE "value"]
        /\ UNCHANGED <<queue, cpc, pc, todo, left, failed, told>>
    BY DEF Fulfil
  <1>2. /\ t \in Transfers /\ by[t] = th
        /\ \/ at[t] = "hand"
           \/ /\ at[t] = "inflight" /\ th \in Reactors
              /\ pc[th] = "failInFlight" /\ t \notin todo[th]
    BY <1>1, Reported
  <1>3. a \in Reads
    BY <1>2, ReadOfType
  <1>4. /\ rpc'[th] = "idle"
        /\ \A s \in Threads : s # th => rpc'[s] = rpc[s] /\ rt'[s] = rt[s]
        /\ \A u \in Transfers : u # t => at'[u] = at[u] /\ by'[u] = by[u]
        /\ \/ at[t] = "inflight" /\ at'[t] = "inflight" /\ by'[t] = th
           \/ at[t] # "inflight" /\ at'[t] = "gone"
    BY <1>1, Ended
  <1>5. \A s \in Threads : s # th /\ rpc[s] # "idle" => rt[s] # t /\ rt[s] \in Transfers
    BY <1>2, Reported
  <1>6. QueueHolds'
    <2>1. at[t] \notin {"new", "queue"}
      BY <1>2
    <2> QED
      BY <1>1, <1>4, <2>1 DEF ReportInv, QueueHolds, SubrangesOf, Typed, PoolTyped
  <1>7. TodoHeld'
    BY <1>1, <1>2, <1>4 DEF ReportInv, TodoHeld, Pending, InFlight
  <1>8. CountedOnce'
    <2> SUFFICES ASSUME NEW u \in Transfers, told[u] # "open"
                 PROVE  \/ at'[u] = "gone"
                        \/ at'[u] = "hand" /\ rpc'[by'[u]] = "fulfil" /\ rt'[by'[u]] = u
                        \/ /\ at'[u] = "inflight" /\ by'[u] \in Reactors
                           /\ pc[by'[u]] = "failInFlight" /\ u \notin todo[by'[u]]
      BY <1>1 DEF CountedOnce
    <2>1. CASE u = t
      BY <1>2, <1>4, <2>1
    <2>2. CASE u # t
      <3>1. at'[u] = at[u] /\ by'[u] = by[u] /\ by[u] \in Threads
        BY <1>4, <2>2 DEF Typed, TransfersTyped
      <3>2. rt[by[u]] = u => by[u] # th
        BY <2>2
      <3> QED
        BY <1>4, <3>1, <3>2 DEF ReportInv, CountedOnce
    <2> QED
      BY <2>1, <2>2
  <1>9. ReportsHeld'
    <2> SUFFICES ASSUME NEW s \in Threads, rpc'[s] # "idle"
                 PROVE  /\ rt'[s] \in Transfers
                        /\ by'[rt'[s]] = s
                        /\ \/ at'[rt'[s]] = "hand"
                           \/ /\ at'[rt'[s]] = "inflight" /\ s \in Reactors
                              /\ pc[s] = "failInFlight" /\ rt'[s] \notin todo[s]
                        /\ rpc'[s] # "fulfil" => told[rt'[s]] = "open"
                        /\ rpc'[s] = "countFailed" => ReadOf[rt'[s]] \in failed
      BY <1>1 DEF ReportsHeld
    <2>1. s # th
      BY <1>4
    <2> QED
      BY <1>4, <1>5, <2>1 DEF ReportInv, ReportsHeld
  <1>10. LeftIsOpen'
    BY <1>1 DEF ReportInv, LeftIsOpen
  <1>11. FulfilledByLast'
    <2>1. /\ promise'[a] # "pending" /\ left[a] = 0
          /\ \A b \in Reads : b # a => promise'[b] = promise[b]
      BY <1>1, <1>3 DEF ReportInv, FulfilledByLast, Typed, AggregatesTyped
    <2>2. \A s \in Threads : rpc'[s] = "fulfil" =>
            /\ s # th /\ rpc[s] = "fulfil" /\ rt'[s] = rt[s]
            /\ ReadOf[rt[s]] \in Reads /\ ReadOf[rt[s]] # a
      BY <1>1, <1>4, <1>5, ReadOfType DEF ReportInv, FulfilledByLast
    <2> QED
      BY <1>1, <2>1, <2>2 DEF ReportInv, FulfilledByLast
  <1>12. FailuresRecorded'
    <2>1. \A s \in Threads, b \in Reads : rpc'[s] = "countFailed" /\ ReadOf[rt'[s]] = b
                                 <=> rpc[s] = "countFailed" /\ ReadOf[rt[s]] = b
      BY <1>1, <1>4
    <2> QED
      BY <1>1, <2>1 DEF ReportInv, FailuresRecorded
  <1> QED
    BY <1>6, <1>7, <1>8, <1>9, <1>10, <1>11, <1>12 DEF ReportInv

-------------------------------------------------------------------------------
(* The invariant.                                                          *)

LEMMA NextReportInv == Typed /\ ReportInv /\ [Next]_vars => ReportInv'
  <1> SUFFICES ASSUME Typed, ReportInv, [Next]_vars PROVE ReportInv'
    OBVIOUS
  <1>1. ASSUME NEW th \in Threads, ReportStep(th) PROVE ReportInv'
    BY <1>1, RecordExceptionInv, CountDownInv, FulfilInv DEF ReportStep
  <1>2. ASSUME NEW a \in Reads, CallerStep(a) PROVE ReportInv'
    BY <1>2, SubmitPreadInv, FailSubmittedInv, OutsideInv DEF CallerStep
  <1>3. ASSUME NEW r \in Reactors, LoopStep(r) \/ MultiCallFails(r) PROVE ReportInv'
    BY <1>3, LoopTopInv, QuietLoopInv, AdmitRetryInv, TryPopQueuedInv, AdmitPoppedInv,
       ReturnToQueueInv, ReapCompletionInv, SettledInv, RequeueForRetryInv, SwapQueueInv,
       DrainQueueInv, FailPendingInv, FailInFlightInv, ClearInFlightInv DEF LoopStep
  <1>4. CASE UNCHANGED vars
    BY <1>4, OutsideStep DEF vars
  <1> QED
    BY <1>1, <1>2, <1>3, <1>4, OutsideInv DEF Next

\* Types and the invariant, together inductive, hold in every state.
LEMMA Invariant == Spec => [](Typed /\ ReportInv)
  <1>1. Init => Typed /\ ReportInv
    BY InitTyped, InitReportInv
  <1>2. Typed /\ ReportInv /\ [Next]_vars => (Typed /\ ReportInv)'
    BY NextTyped, NextReportInv DEF ReportInv
  <1> QED
    BY <1>1, <1>2, PTL DEF Spec

\* In every reachable state of the backend each sub-range is counted once, by the
\* thread that holds it, _subranges_left is the number not yet counted, and only the
\* thread that counts the last one fulfils the promise (on_subrange_complete() and
\* on_subrange_failed() of RemoteMultiAggregateContext).
THEOREM ReportsAreCounted == Spec => []ReportInv
  BY Invariant, PTL

-------------------------------------------------------------------------------
(* The backend implements ParallelRead.                                    *)

\* A chunk is written to, or a retry rewinds, only a sub-range that is still open.
LEMMA WriteIsWrite ==
    ASSUME Typed, ReportInv, NEW r \in Reactors,
           (\E t \in Transfers : WriteCallback(r, t)) \/ RequeueForRetry(r)
    PROVE  Contract!ReadNext \/ UNCHANGED <<offset, told, promise>>
  <1>1. ASSUME NEW t \in Transfers, WriteCallback(r, t), offset' # offset
        PROVE  Contract!Write(t)
    <2>1. told[t] = "open"
      BY <1>1, HeldIsOpen DEF WriteCallback, At, InFlight
    <2>2. offset[t] + 1 \in 0..SubrangeSize /\ offset' = [offset EXCEPT ![t] = offset[t] + 1]
      BY <1>1, ConstantsAssumption DEF WriteCallback, Typed, TransfersTyped
    <2>3. UNCHANGED <<told, promise>>
      BY <1>1 DEF WriteCallback
    <2> QED
      BY <2>1, <2>2, <2>3 DEF Contract!Write
  <1>2. ASSUME RequeueForRetry(r) PROVE \E t \in Transfers : Contract!Write(t)
    <2>1. PICK t \in Hand(r) : offset' = [offset EXCEPT ![t] = 0]
      BY <1>2 DEF RequeueForRetry, ResetForRetry
    <2>2. t \in Transfers /\ told[t] = "open"
      BY <1>2, HeldIsOpen DEF RequeueForRetry, At, Hand
    <2>3. UNCHANGED <<told, promise>> /\ 0 \in 0..SubrangeSize
      BY <1>2, ConstantsAssumption DEF RequeueForRetry
    <2> QED
      BY <2>1, <2>2, <2>3 DEF Contract!Write
  <1>3. ASSUME NEW t \in Transfers, WriteCallback(r, t) PROVE UNCHANGED <<told, promise>>
    BY <1>3 DEF WriteCallback
  <1> QED
    BY <1>1, <1>2, <1>3 DEF Contract!ReadNext

LEMMA CountDownIsSettle ==
    ASSUME Typed, ReportInv, NEW th \in Threads, CountDown(th) PROVE Contract!ReadNext
  <1>1. rt[th] \in Transfers /\ told[rt[th]] = "open"
    BY DEF CountDown, ReportInv, ReportsHeld
  <1>2. /\ \/ told' = [told EXCEPT ![rt[th]] = "ok"]
           \/ told' = [told EXCEPT ![rt[th]] = "failed"]
        /\ UNCHANGED <<offset, promise>>
    BY DEF CountDown
  <1> QED
    BY <1>1, <1>2 DEF Contract!ReadNext, Contract!Settle

LEMMA FulfilIsResolve ==
    ASSUME Typed, ReportInv, NEW th \in Threads, Fulfil(th) PROVE Contract!ReadNext
  <1> DEFINE a == ReadOf[rt[th]]
  <1>1. rpc[th] = "fulfil" /\ rt[th] \in Transfers /\ a \in Reads
    BY Reported, ReadOfType DEF Fulfil
  <1>2. left[a] = 0 /\ promise[a] = "pending"
    BY <1>1 DEF ReportInv, FulfilledByLast
  <1>3. \A t \in SubrangesOf(a) : told[t] # "open"
    <2>1. Cardinality(OpenOf(a)) = 0
      BY <1>1, <1>2 DEF ReportInv, LeftIsOpen, OpenOf
    <2>2. OpenOf(a) = {}
      BY <2>1, OpenIsCounted, FS_EmptySet
    <2> QED
      BY <2>2 DEF OpenOf
  <1>4. a \in failed <=> \E t \in SubrangesOf(a) : told[t] = "failed"
    <2>1. ASSUME NEW s \in Threads, rpc[s] = "countFailed", ReadOf[rt[s]] = a PROVE FALSE
      <3>1. rt[s] \in SubrangesOf(a) /\ told[rt[s]] = "open"
        BY <2>1 DEF ReportInv, ReportsHeld, SubrangesOf
      <3> QED
        BY <1>3, <3>1
    <2> QED
      BY <1>1, <2>1 DEF ReportInv, FailuresRecorded
  <1>5. /\ promise' = [promise EXCEPT ![a] = IF a \in failed THEN "exception" ELSE "value"]
        /\ UNCHANGED <<offset, told>>
    BY DEF Fulfil
  <1>6. Contract!SubrangesOf(a) = SubrangesOf(a)
    BY DEF Contract!SubrangesOf, SubrangesOf
  <1>7. Contract!Resolve(a)
    BY <1>2, <1>3, <1>4, <1>5, <1>6 DEF Contract!Resolve
  <1> QED
    BY <1>1, <1>7 DEF Contract!ReadNext

\* Every step of the backend is a step of the contract or invisible to it.
LEMMA StepRefines ==
    Typed /\ ReportInv /\ [Next]_vars => [Contract!ReadNext]_<<offset, told, promise>>
  <1> SUFFICES ASSUME Typed, ReportInv, [Next]_vars
               PROVE  Contract!ReadNext \/ UNCHANGED <<offset, told, promise>>
    OBVIOUS
  <1>1. ASSUME NEW th \in Threads, ReportStep(th)
        PROVE  Contract!ReadNext \/ UNCHANGED <<offset, told, promise>>
    <2>1. RecordException(th) => UNCHANGED <<offset, told, promise>>
      BY DEF RecordException
    <2> QED
      BY <1>1, <2>1, CountDownIsSettle, FulfilIsResolve DEF ReportStep
  <1>2. ASSUME NEW a \in Reads, CallerStep(a) PROVE UNCHANGED <<offset, told, promise>>
    BY <1>2 DEF CallerStep, SubmitPread, FailSubmitted, WakeAllReactors, Get, SyncAllEvents
  <1>3. ASSUME NEW r \in Reactors, LoopStep(r), ~RequeueForRetry(r)
        PROVE  UNCHANGED <<offset, told, promise>>
    <2>1. \/ LoopTop(r) \/ AdmitRetry(r) \/ ReadQueueShare(r) \/ TryPopQueued(r)
          \/ AdmitPopped(r) \/ ReturnToQueue(r) \/ PerformReturns(r) \/ ReapCompletion(r)
          => UNCHANGED <<offset, told, promise>>
      BY DEF LoopTop, AdmitRetry, ReadQueueShare, TryPopQueued, AdmitPopped, ReturnToQueue,
             PerformReturns, ReapCompletion
    <2>2. \/ SettleHost(r) \/ StageDeviceCopy(r) \/ StageFails(r) \/ SettleFailed(r)
          \/ EnterPoll(r) \/ PollReturns(r) \/ SignalDeath(r) \/ SwapQueue(r)
          => UNCHANGED <<offset, told, promise>>
      BY DEF SettleHost, StageDeviceCopy, StageFails, SettleFailed, EnterPoll, PollReturns,
             SignalDeath, SwapQueue
    <2>3. DrainQueue(r) \/ FailPending(r) \/ FailInFlight(r) \/ ClearInFlight(r)
          => UNCHANGED <<offset, told, promise>>
      BY DEF DrainQueue, FailPending, FailInFlight, ClearInFlight
    <2> QED
      BY <1>3, <2>1, <2>2, <2>3 DEF LoopStep
  <1>4. ASSUME NEW r \in Reactors, NEW t \in Transfers, AttemptEnds(r, t)
        PROVE  UNCHANGED <<offset, told, promise>>
    BY <1>4 DEF AttemptEnds
  <1>5. ASSUME NEW t \in Transfers, BackoffElapses(t) \/ CopyCompletes(t)
        PROVE  UNCHANGED <<offset, told, promise>>
    BY <1>5 DEF BackoffElapses, CopyCompletes
  <1>6. ASSUME NEW r \in Reactors, MultiCallFails(r) PROVE UNCHANGED <<offset, told, promise>>
    BY <1>6 DEF MultiCallFails
  <1>7. CASE UNCHANGED vars
    BY <1>7 DEF vars
  <1> QED
    BY <1>1, <1>2, <1>3, <1>4, <1>5, <1>6, <1>7, WriteIsWrite DEF Next

\* The MULTI_POLL backend keeps the contract of pread(): whatever the interleaving of
\* reactors and callers, the faults and the pool's death, a sub-range is counted once,
\* the promise is fulfilled once, after the last of them and with a value only if none
\* failed, and no write callback or rewind touches a sub-range already counted.
THEOREM BackendKeepsContract == Spec => Implements
  <1>1. Init => Contract!ReadInit
    BY DEF Init, Contract!ReadInit
  <1>2. Typed /\ ReportInv /\ [Next]_vars => [Contract!ReadNext]_Contract!readVars
    BY StepRefines DEF Contract!readVars
  <1> QED
    BY <1>1, <1>2, Invariant, PTL DEF Spec, Implements, Contract!ReadSpec

-------------------------------------------------------------------------------
(* The limiter's slots.                                                    *)

SlotsOf(r) == {t \in slotted : by[t] = r}

SlotsCounted ==
    \A r \in Reactors : /\ inUse[r] = Cardinality(SlotsOf(r))
                        /\ Unlimited \/ inUse[r] <= Slice(r)

SlotPlaces ==
    \A t \in Transfers :
        /\ at[t] = "inflight" => t \in slotted
        /\ at[t] \in {"new", "queue", "pending", "gone"} => t \notin slotted
        /\ at[t] = "new" => by[t] = ReadOf[t]

\* A reactor has at most one transfer in hand, except while it drains the queue; the
\* one it has outside admission and settling is the one it reports; and the one it is
\* about to return to the queue has lost its slot.
HandFew(r) ==
    /\ pc[r] \in {"popped", "return", "settle"} =>
         rpc[r] = "idle" /\ \A t, u \in Hand(r) : t = u
    /\ pc[r] \notin {"popped", "return", "settle", "drain"} =>
         \A t \in Hand(r) : rpc[r] # "idle" /\ rt[r] = t
    /\ pc[r] = "return" => \A t \in Hand(r) : t \notin slotted

HandsFew == \A r \in Reactors : HandFew(r)

SlotInv == SlotsCounted /\ SlotPlaces /\ HandsFew

-------------------------------------------------------------------------------
(* Facts about slots.                                                      *)

LEMMA SliceIsInt == ASSUME NEW r \in Reactors PROVE Slice(r) \in Int /\ Slice(r) >= 1
  <1>1. MaxConcurrentRequests \div NumReactors \in Int
    BY ConstantsAssumption
  <1> QED
    BY <1>1 DEF Slice

LEMMA SlotsAreCounted ==
    ASSUME Typed, NEW r
    PROVE  IsFiniteSet(SlotsOf(r)) /\ Cardinality(SlotsOf(r)) \in Nat
  BY SubsetIsCounted DEF SlotsOf, Typed, GatesTyped

\* Steps that neither take nor give back a slot keep the counts.
LEMMA SlotsKept ==
    ASSUME SlotInv, UNCHANGED <<slotted, inUse>>, \A t \in slotted : by'[t] = by[t]
    PROVE  SlotsCounted'
  <1>1. \A r \in Reactors : SlotsOf(r)' = SlotsOf(r)
    BY DEF SlotsOf
  <1> QED
    BY <1>1 DEF SlotInv, SlotsCounted

\* Reactor r acquires a slot for t, if t has none.
LEMMA SlotTaken ==
    ASSUME Typed, SlotInv, NEW r \in Reactors, NEW t \in Transfers,
           t \in slotted => by[t] = r,
           t \in slotted \/ CanAcquire(r),
           slotted' = slotted \cup {t},
           inUse' = [inUse EXCEPT ![r] = IF t \in slotted THEN @ ELSE @ + 1],
           by' = [by EXCEPT ![t] = r]
    PROVE  SlotsCounted'
  <1>1. /\ SlotsOf(r)' = SlotsOf(r) \cup {t}
        /\ \A s \in Reactors : s # r => SlotsOf(s)' = SlotsOf(s)
    BY DEF SlotsOf, Typed, TransfersTyped, GatesTyped
  <1>2. t \in SlotsOf(r) <=> t \in slotted
    BY DEF SlotsOf
  <1>3. Cardinality(SlotsOf(r) \cup {t}) =
          IF t \in SlotsOf(r) THEN Cardinality(SlotsOf(r)) ELSE Cardinality(SlotsOf(r)) + 1
    BY SlotsAreCounted, FS_AddElement
  <1>4. /\ inUse'[r] = IF t \in slotted THEN inUse[r] ELSE inUse[r] + 1
        /\ \A s \in Reactors : s # r => inUse'[s] = inUse[s]
    BY DEF Typed, GatesTyped
  <1>5. Unlimited \/ inUse'[r] <= Slice(r)
    BY <1>4, SliceIsInt DEF CanAcquire, SlotInv, SlotsCounted, Typed, GatesTyped
  <1> QED
    BY <1>1, <1>2, <1>3, <1>4, <1>5 DEF SlotInv, SlotsCounted

\* The slot of t, if it has one, goes back to the limiter of the reactor it is of.
LEMMA SlotDropped ==
    ASSUME Typed, SlotInv, NEW t \in Transfers,
           slotted' = slotted \ {t},
           \A s \in Reactors : inUse'[s] = IF t \in slotted /\ by[t] = s THEN inUse[s] - 1
                                                                         ELSE inUse[s],
           \A u \in Transfers : u # t => by'[u] = by[u]
    PROVE  SlotsCounted'
  <1> SUFFICES ASSUME NEW s \in Reactors
               PROVE  /\ inUse'[s] = Cardinality(SlotsOf(s)')
                      /\ Unlimited \/ inUse'[s] <= Slice(s)
    BY DEF SlotsCounted
  <1>1. SlotsOf(s)' = SlotsOf(s) \ {t}
    BY DEF SlotsOf, Typed, GatesTyped
  <1>2. t \in SlotsOf(s) <=> t \in slotted /\ by[t] = s
    BY DEF SlotsOf
  <1>3. Cardinality(SlotsOf(s) \ {t}) =
          IF t \in SlotsOf(s) THEN Cardinality(SlotsOf(s)) - 1 ELSE Cardinality(SlotsOf(s))
    BY SlotsAreCounted, FS_RemoveElement
  <1>4. inUse[s] = Cardinality(SlotsOf(s)) /\ inUse[s] \in Int
    BY DEF SlotInv, SlotsCounted, Typed, GatesTyped
  <1>5. Unlimited \/ inUse'[s] <= Slice(s)
    BY <1>4, SliceIsInt DEF SlotInv, SlotsCounted
  <1> QED
    BY <1>1, <1>2, <1>3, <1>4, <1>5

LEMMA DropSlotCounted ==
    ASSUME Typed, SlotInv, NEW r \in Reactors, NEW t \in Transfers, by[t] = r, DropSlot(r, t),
           UNCHANGED by
    PROVE  SlotsCounted'
  <1>1. \A s \in Reactors : inUse'[s] = IF t \in slotted /\ by[t] = s THEN inUse[s] - 1
                                                                      ELSE inUse[s]
    BY DEF DropSlot, Typed, GatesTyped
  <1> QED
    BY <1>1, SlotDropped DEF DropSlot

LEMMA InitSlotInv == Init => SlotInv
  <1> SUFFICES ASSUME Init PROVE SlotInv
    OBVIOUS
  <1>1. SlotsCounted
    <2>1. \A r \in Reactors : SlotsOf(r) = {} /\ inUse[r] = 0
      BY DEF Init, SlotsOf
    <2> QED
      BY <2>1, FS_EmptySet, SliceIsInt DEF SlotsCounted
  <1>2. SlotPlaces
    BY DEF Init, SlotPlaces
  <1>3. HandsFew
    BY DEF Init, HandsFew, HandFew, Hand
  <1> QED
    BY <1>1, <1>2, <1>3 DEF SlotInv

-------------------------------------------------------------------------------
(* Steps that move no transfer.                                            *)

\* The other reactors keep what they have in hand.
LEMMA OthersKeep ==
    ASSUME HandsFew, NEW r, HandFew(r)' \/ r \notin Reactors,
           \A s \in Reactors : s # r => /\ pc'[s] = pc[s] /\ rpc'[s] = rpc[s] /\ rt'[s] = rt[s]
                                        /\ Hand(s)' = Hand(s)
                                        /\ Hand(s) \cap slotted' \subseteq slotted
    PROVE  HandsFew'
  <1> SUFFICES ASSUME NEW s \in Reactors PROVE HandFew(s)'
    BY DEF HandsFew
  <1>1. CASE s = r
    BY <1>1
  <1>2. CASE s # r
    BY <1>2 DEF HandsFew, HandFew
  <1> QED
    BY <1>1, <1>2

LEMMA NoMove ==
    ASSUME Typed, SlotInv, UNCHANGED <<slotted, inUse, at, by>>, HandsFew' PROVE SlotInv'
  <1>1. SlotsCounted'
    BY SlotsKept
  <1>2. SlotPlaces'
    BY DEF SlotInv, SlotPlaces
  <1> QED
    BY <1>1, <1>2 DEF SlotInv

LEMMA QuietSlots ==
    ASSUME Typed, SlotInv, NEW r \in Reactors,
           \/ LoopTop(r) \/ ReadQueueShare(r) \/ PerformReturns(r) \/ EnterPoll(r)
           \/ PollReturns(r) \/ MultiCallFails(r) \/ SignalDeath(r)
    PROVE  SlotInv'
  <1>1. UNCHANGED <<slotted, inUse, at, by, rpc, rt>>
    BY DEF LoopTop, ReadQueueShare, PerformReturns, EnterPoll, PollReturns, MultiCallFails,
           SignalDeath
  <1>2. pc[r] \in {"top", "retries", "perform", "reap", "poll", "signal"} /\ rpc[r] = "idle"
    BY DEF LoopTop, ReadQueueShare, PerformReturns, EnterPoll, PollReturns, MultiCallFails,
           SignalDeath, At
  <1>3. PICK l \in {"retries", "pool", "reap", "poll", "top", "signal", "swap", "fail"} :
          Goto(r, l)
    BY DEF LoopTop, ReadQueueShare, PerformReturns, EnterPoll, PollReturns, MultiCallFails,
           SignalDeath
  <1>4. pc'[r] = l /\ \A s \in Reactors : s # r => pc'[s] = pc[s]
    BY <1>3 DEF Goto, Typed, ThreadsTyped
  <1>5. Hand(r) = {} /\ \A s \in Reactors : Hand(s)' = Hand(s)
    BY <1>1, <1>2 DEF SlotInv, HandsFew, HandFew, Hand
  <1>6. HandFew(r)'
    BY <1>4, <1>5 DEF HandFew
  <1> QED
    BY <1>1, <1>4, <1>5, <1>6, OthersKeep, NoMove DEF SlotInv

LEMMA SettledSlots ==
    ASSUME Typed, SlotInv, NEW r \in Reactors,
           SettleHost(r) \/ StageDeviceCopy(r) \/ StageFails(r) \/ SettleFailed(r)
    PROVE  SlotInv'
  <1>1. PICK t \in Hand(r) : Report(r, t, "complete") \/ Report(r, t, "failed")
    BY DEF SettleHost, StageDeviceCopy, StageFails, SettleFailed
  <1>2. pc[r] = "settle" /\ Goto(r, "reap") /\ UNCHANGED <<slotted, inUse, at, by>>
    BY DEF SettleHost, StageDeviceCopy, StageFails, SettleFailed, At
  <1>3. /\ pc'[r] = "reap" /\ rpc'[r] # "idle" /\ rt'[r] = t
        /\ \A s \in Reactors : s # r => pc'[s] = pc[s] /\ rpc'[s] = rpc[s] /\ rt'[s] = rt[s]
    BY <1>1, <1>2, ThreadsHas DEF Goto, Report, Typed, ThreadsTyped
  <1>4. \A s \in Reactors : Hand(s)' = Hand(s)
    BY <1>2 DEF Hand
  <1>5. HandFew(r)'
    BY <1>2, <1>3, <1>4 DEF SlotInv, HandsFew, HandFew
  <1> QED
    BY <1>2, <1>3, <1>4, <1>5, OthersKeep, NoMove DEF SlotInv

LEMMA DrainQueueSlots ==
    ASSUME Typed, SlotInv, NEW r \in Reactors, DrainQueue(r) PROVE SlotInv'
  <1>1. pc[r] = "drain" /\ UNCHANGED <<slotted, inUse, at, by>>
    BY DEF DrainQueue, At
  <1>2. /\ \A s \in Reactors : s # r => pc'[s] = pc[s] /\ rpc'[s] = rpc[s] /\ rt'[s] = rt[s]
        /\ pc'[r] = "drain" \/ (pc'[r] = "fail" /\ Hand(r) = {})
    BY <1>1, ThreadsHas DEF DrainQueue, Goto, Report, Typed, ThreadsTyped
  <1>3. \A s \in Reactors : Hand(s)' = Hand(s)
    BY <1>1 DEF Hand
  <1>4. HandFew(r)'
    BY <1>2, <1>3 DEF HandFew
  <1> QED
    BY <1>1, <1>2, <1>3, <1>4, OthersKeep, NoMove DEF SlotInv

LEMMA FailInFlightSlots ==
    ASSUME Typed, SlotInv, NEW r \in Reactors, FailInFlight(r) PROVE SlotInv'
  <1>1. /\ pc[r] = "failInFlight" /\ rpc[r] = "idle"
        /\ UNCHANGED <<slotted, inUse, at, by, pc>>
    BY DEF FailInFlight, At
  <1>2. \A s \in Reactors : s # r => rpc'[s] = rpc[s] /\ rt'[s] = rt[s]
    BY ThreadsHas DEF FailInFlight, Report, Typed, ThreadsTyped
  <1>3. Hand(r) = {} /\ \A s \in Reactors : Hand(s)' = Hand(s)
    BY <1>1 DEF SlotInv, HandsFew, HandFew, Hand
  <1>4. HandFew(r)'
    BY <1>1, <1>3 DEF HandFew
  <1> QED
    BY <1>1, <1>2, <1>3, <1>4, OthersKeep, NoMove DEF SlotInv

LEMMA FailSubmittedSlots ==
    ASSUME Typed, SlotInv, NEW a \in Reads, FailSubmitted(a) PROVE SlotInv'
  <1>1. UNCHANGED <<slotted, inUse, at, by, pc>>
    BY DEF FailSubmitted
  <1>2. \A s \in Reactors : rpc'[s] = rpc[s] /\ rt'[s] = rt[s]
    BY ThreadsHas, ConstantsAssumption DEF FailSubmitted, Report, Typed, ThreadsTyped
  <1>3. HandsFew'
    BY <1>1, <1>2 DEF SlotInv, HandsFew, HandFew, Hand
  <1> QED
    BY <1>1, <1>3, NoMove

LEMMA RecordExceptionSlots ==
    ASSUME Typed, SlotInv, NEW th \in Threads, RecordException(th) PROVE SlotInv'
  <1>1. UNCHANGED <<slotted, inUse, at, by, pc, rt>> /\ rpc[th] = "failed"
    BY DEF RecordException
  <1>2. rpc'[th] = "countFailed" /\ \A s \in Threads : s # th => rpc'[s] = rpc[s]
    BY DEF RecordException, Typed, ThreadsTyped
  <1>3. HandsFew'
    BY <1>1, <1>2, ThreadsHas DEF SlotInv, HandsFew, HandFew, Hand
  <1> QED
    BY <1>1, <1>3, NoMove

LEMMA OutsideSlots ==
    ASSUME Typed, SlotInv,
           \/ \E a \in Reads : WakeAllReactors(a) \/ Get(a) \/ SyncAllEvents(a)
           \/ \E r \in Reactors, t \in Transfers : WriteCallback(r, t) \/ AttemptEnds(r, t)
           \/ \E t \in Transfers : BackoffElapses(t) \/ CopyCompletes(t)
           \/ UNCHANGED vars
    PROVE  SlotInv'
  <1>1. UNCHANGED <<slotted, inUse, at, by, pc, rpc, rt>>
    BY DEF WakeAllReactors, Get, SyncAllEvents, WriteCallback, AttemptEnds, BackoffElapses,
           CopyCompletes, vars
  <1>2. HandsFew'
    BY <1>1 DEF SlotInv, HandsFew, HandFew, Hand
  <1> QED
    BY <1>1, <1>2, NoMove

-------------------------------------------------------------------------------
(* Steps that move one transfer.                                           *)

LEMMA HandMoves ==
    ASSUME Typed, NEW r \in Reactors, NEW t \in Transfers, NEW p, NEW h,
           at' = [at EXCEPT ![t] = p], by' = [by EXCEPT ![t] = h],
           by[t] = r \/ at[t] # "hand", h = r \/ p # "hand"
    PROVE  /\ \A s \in Reactors : s # r => Hand(s)' = Hand(s)
           /\ Hand(r)' = IF p = "hand" THEN Hand(r) \cup {t} ELSE Hand(r) \ {t}
           /\ \A u \in Transfers : u # t => at'[u] = at[u] /\ by'[u] = by[u]
           /\ at'[t] = p /\ by'[t] = h
  <1>1. /\ \A u \in Transfers : u # t => at'[u] = at[u] /\ by'[u] = by[u]
        /\ at'[t] = p /\ by'[t] = h
    BY DEF Typed, TransfersTyped
  <1> QED
    BY <1>1 DEF Hand

LEMMA TryPopQueuedSlots ==
    ASSUME Typed, ReportInv, SlotInv, NEW r \in Reactors, TryPopQueued(r) PROVE SlotInv'
  <1>1. pc[r] = "pool" /\ rpc[r] = "idle" /\ UNCHANGED <<rpc, rt>>
    BY DEF TryPopQueued, At
  <1>2. Hand(r) = {}
    BY <1>1 DEF SlotInv, HandsFew, HandFew
  <1>3. CASE budget[r] = 0 \/ ~CanAcquire(r) \/ queue = <<>>
    <2>1. Goto(r, "perform") /\ UNCHANGED <<at, by, slotted, inUse>>
      BY <1>3 DEF TryPopQueued
    <2>2. pc'[r] = "perform" /\ \A s \in Reactors : s # r => pc'[s] = pc[s]
      BY <2>1 DEF Goto, Typed, ThreadsTyped
    <2>3. \A s \in Reactors : Hand(s)' = Hand(s)
      BY <2>1 DEF Hand
    <2>4. HandFew(r)'
      BY <1>2, <2>2, <2>3 DEF HandFew
    <2> QED
      BY <1>1, <2>1, <2>2, <2>3, <2>4, OthersKeep, NoMove DEF SlotInv
  <1>4. CASE ~(budget[r] = 0 \/ ~CanAcquire(r) \/ queue = <<>>)
    <2> DEFINE t == Head(queue)
    <2>1. /\ queue # <<>> /\ CanAcquire(r) /\ Goto(r, "popped")
          /\ at' = [at EXCEPT ![t] = "hand"]
          /\ by' = [by EXCEPT ![t] = r]
          /\ slotted' = slotted \cup {t}
          /\ inUse' = [inUse EXCEPT ![r] = @ + 1]
      BY <1>4 DEF TryPopQueued
    <2>2. t \in Transfers /\ at[t] = "queue"
      BY <2>1, PoppedQueue DEF ReportInv, QueueHolds, Typed, PoolTyped
    <2>3. t \notin slotted
      BY <2>2 DEF SlotInv, SlotPlaces
    <2> HIDE DEF t
    <2>4. SlotsCounted'
      BY <2>1, <2>2, <2>3, SlotTaken
    <2>5. /\ \A s \in Reactors : s # r => Hand(s)' = Hand(s)
          /\ Hand(r)' = {t}
          /\ \A u \in Transfers : u # t => at'[u] = at[u] /\ by'[u] = by[u]
          /\ at'[t] = "hand"
      BY <1>2, <2>1, <2>2, HandMoves
    <2>6. SlotPlaces'
      BY <2>1, <2>5 DEF SlotInv, SlotPlaces
    <2>7. pc'[r] = "popped" /\ \A s \in Reactors : s # r => pc'[s] = pc[s]
      BY <2>1 DEF Goto, Typed, ThreadsTyped
    <2>8. HandFew(r)'
      BY <1>1, <2>5, <2>7 DEF HandFew
    <2>9. \A s \in Reactors : Hand(s) \cap slotted' \subseteq slotted
      BY <2>1, <2>2 DEF Hand
    <2> QED
      BY <1>1, <2>4, <2>5, <2>6, <2>7, <2>8, <2>9, OthersKeep DEF SlotInv
  <1> QED
    BY <1>3, <1>4

\* try_admit() takes or drops the slot of a transfer the reactor holds.
LEMMA AdmissionSlots ==
    ASSUME Typed, SlotInv, NEW r \in Reactors, NEW t \in Transfers, by[t] = r,
           Admitted(r, t) \/ Refused(r, t) \/ AdmissionThrows(r, t),
           at[t] \in {"hand", "pending"}
    PROVE  /\ SlotsCounted' /\ SlotPlaces'
           /\ \A s \in Reactors : s # r => Hand(s)' = Hand(s)
           /\ \A u \in Transfers : u # t => (u \in slotted' <=> u \in slotted)
           /\ Admitted(r, t) \/ AdmissionThrows(r, t) => Hand(r)' = Hand(r) \ {t}
           /\ Refused(r, t) => Hand(r)' = Hand(r) /\ t \notin slotted'
  <1>1. CASE Admitted(r, t)
    <2>1. /\ slotted' = slotted \cup {t}
          /\ t \in slotted \/ CanAcquire(r)
          /\ inUse' = [inUse EXCEPT ![r] = IF t \in slotted THEN @ ELSE @ + 1]
          /\ at' = [at EXCEPT ![t] = "inflight"] /\ by' = [by EXCEPT ![t] = r]
      BY <1>1 DEF Admitted, SlotRefused, Typed, TransfersTyped
    <2>2. SlotsCounted'
      BY <2>1, SlotTaken
    <2>3. /\ \A s \in Reactors : s # r => Hand(s)' = Hand(s)
          /\ Hand(r)' = Hand(r) \ {t}
          /\ \A u \in Transfers : u # t => at'[u] = at[u] /\ by'[u] = by[u]
          /\ at'[t] = "inflight"
      BY ZenonT(30), <2>1, HandMoves
    <2>4. SlotPlaces'
      BY <2>1, <2>3 DEF SlotInv, SlotPlaces
    <2>5. ~Refused(r, t)
      BY <1>1 DEF Admitted, Refused
    <2> QED
      BY <2>1, <2>2, <2>3, <2>4, <2>5
  <1>2. CASE Refused(r, t)
    <2>1. DropSlot(r, t) /\ UNCHANGED <<at, by>>
      BY <1>2 DEF Refused
    <2>2. SlotsCounted'
      BY <2>1, DropSlotCounted
    <2>3. slotted' = slotted \ {t} /\ \A s \in Reactors : Hand(s)' = Hand(s)
      BY <2>1 DEF DropSlot, Hand
    <2>4. SlotPlaces'
      BY <2>1, <2>3 DEF SlotInv, SlotPlaces
    <2>5. ~Admitted(r, t) /\ (AdmissionThrows(r, t) => at[t] = "pending")
      BY <1>2, <2>1 DEF Admitted, Refused, AdmissionThrows, Typed, TransfersTyped
    <2>6. at[t] = "pending" => Hand(r) = Hand(r) \ {t}
      BY DEF Hand
    <2> QED
      BY <2>2, <2>3, <2>4, <2>5, <2>6
  <1>3. CASE AdmissionThrows(r, t) /\ ~Refused(r, t)
    <2>1. DropSlot(r, t) /\ UNCHANGED by /\ at' = [at EXCEPT ![t] = "pending"]
      BY <1>3 DEF AdmissionThrows
    <2>2. SlotsCounted'
      BY <2>1, DropSlotCounted
    <2>3. /\ \A s \in Reactors : s # r => Hand(s)' = Hand(s)
          /\ Hand(r)' = Hand(r) \ {t}
          /\ \A u \in Transfers : u # t => at'[u] = at[u] /\ by'[u] = by[u]
          /\ at'[t] = "pending"
      <3>1. /\ \A u \in Transfers : u # t => at'[u] = at[u] /\ by'[u] = by[u]
            /\ at'[t] = "pending" /\ by'[t] = r
        BY <2>1 DEF Typed, TransfersTyped
      <3> QED
        BY <3>1 DEF Hand
    <2>4. slotted' = slotted \ {t}
      BY <2>1 DEF DropSlot
    <2>5. SlotPlaces'
      BY <2>3, <2>4 DEF SlotInv, SlotPlaces
    <2> QED
      BY <1>3, <2>2, <2>3, <2>4, <2>5
  <1> QED
    BY <1>1, <1>2, <1>3

LEMMA AdmitRetrySlots ==
    ASSUME Typed, ReportInv, SlotInv, NEW r \in Reactors, AdmitRetry(r) PROVE SlotInv'
  <1>1. PICK t \in todo[r] :
          \/ (Admitted(r, t) \/ Refused(r, t)) /\ UNCHANGED pc
          \/ AdmissionThrows(r, t)
    BY DEF AdmitRetry
  <1>2. pc[r] = "retries" /\ rpc[r] = "idle" /\ UNCHANGED <<rpc, rt>>
    BY DEF AdmitRetry, At
  <1>3. t \in Transfers /\ at[t] = "pending" /\ by[t] = r
    BY <1>2 DEF ReportInv, TodoHeld, Pending
  <1>4. Hand(r) = {}
    BY <1>2 DEF SlotInv, HandsFew, HandFew
  <1>5. /\ pc'[r] \in {"retries", "signal"}
        /\ \A s \in Reactors : s # r => pc'[s] = pc[s]
    BY <1>1, <1>2 DEF AdmissionThrows, Goto, Typed, ThreadsTyped
  <1>6. HandFew(r)'
    BY <1>1, <1>3, <1>4, <1>5, AdmissionSlots DEF HandFew
  <1>7. \A s \in Reactors : s # r => Hand(s) \cap slotted' \subseteq slotted
    BY <1>1, <1>3, AdmissionSlots DEF Hand
  <1> QED
    BY <1>1, <1>2, <1>3, <1>5, <1>6, <1>7, AdmissionSlots, OthersKeep DEF SlotInv

LEMMA AdmitPoppedSlots ==
    ASSUME Typed, SlotInv, NEW r \in Reactors, AdmitPopped(r) PROVE SlotInv'
  <1>1. PICK t \in Hand(r) :
          \/ Admitted(r, t) /\ Goto(r, "pool")
          \/ Refused(r, t) /\ Goto(r, "return")
          \/ AdmissionThrows(r, t)
    BY DEF AdmitPopped
  <1>2. pc[r] = "popped" /\ rpc[r] = "idle" /\ UNCHANGED <<rpc, rt>>
    BY DEF AdmitPopped, At
  <1>3. t \in Transfers /\ at[t] = "hand" /\ by[t] = r /\ Hand(r) = {t}
    BY <1>2 DEF SlotInv, HandsFew, HandFew, Hand
  <1>4. \A s \in Reactors : s # r => pc'[s] = pc[s]
    BY <1>1 DEF AdmissionThrows, Goto, Typed, ThreadsTyped
  <1>5. ASSUME (Admitted(r, t) /\ Goto(r, "pool")) \/ AdmissionThrows(r, t) PROVE HandFew(r)'
    <2>1. pc'[r] \in {"pool", "signal"}
      BY <1>5 DEF AdmissionThrows, Goto, Typed, ThreadsTyped
    <2>2. Hand(r)' = {}
      BY <1>3, <1>5, AdmissionSlots
    <2> QED
      BY <2>1, <2>2 DEF HandFew
  <1>6. ASSUME Refused(r, t), Goto(r, "return") PROVE HandFew(r)'
    <2>1. pc'[r] = "return"
      BY <1>6 DEF Goto, Typed, ThreadsTyped
    <2>2. Hand(r)' = {t} /\ t \notin slotted'
      BY <1>3, <1>6, AdmissionSlots
    <2> QED
      BY <1>2, <2>1, <2>2 DEF HandFew
  <1>7. HandFew(r)'
    BY <1>1, <1>5, <1>6
  <1>8. \A s \in Reactors : s # r => Hand(s) \cap slotted' \subseteq slotted
    BY <1>1, <1>3, AdmissionSlots DEF Hand
  <1> QED
    BY <1>1, <1>2, <1>3, <1>4, <1>7, <1>8, AdmissionSlots, OthersKeep DEF SlotInv

LEMMA ReturnToQueueSlots ==
    ASSUME Typed, SlotInv, NEW r \in Reactors, ReturnToQueue(r) PROVE SlotInv'
  <1>1. pc[r] = "return" /\ rpc[r] = "idle" /\ UNCHANGED <<slotted, inUse>>
    BY DEF ReturnToQueue, At
  <1>2. pc'[r] = "perform" /\ \A s \in Reactors : s # r => pc'[s] = pc[s]
    BY DEF ReturnToQueue, Goto, Typed, ThreadsTyped
  <1>3. PICK t \in Hand(r) :
          \/ Report(r, t, "failed") /\ UNCHANGED <<at, by>>
          \/ /\ at' = [at EXCEPT ![t] = "queue"]
             /\ by' = [by EXCEPT ![t] = ReadOf[t]]
             /\ UNCHANGED <<rpc, rt>>
    BY DEF ReturnToQueue
  <1>4. t \in Transfers /\ at[t] = "hand" /\ by[t] = r /\ Hand(r) = {t} /\ t \notin slotted
    BY <1>1 DEF SlotInv, HandsFew, HandFew, Hand
  <1>5. CASE Report(r, t, "failed") /\ UNCHANGED <<at, by>>
    <2>1. /\ rpc'[r] = "failed" /\ rt'[r] = t
          /\ \A s \in Reactors : s # r => rpc'[s] = rpc[s] /\ rt'[s] = rt[s]
      BY <1>5, ThreadsHas DEF Report, Typed, ThreadsTyped
    <2>2. \A s \in Reactors : Hand(s)' = Hand(s)
      BY <1>5 DEF Hand
    <2>3. HandFew(r)'
      BY <1>2, <1>4, <2>1, <2>2 DEF HandFew
    <2> QED
      BY <1>1, <1>2, <1>5, <2>1, <2>2, <2>3, OthersKeep, NoMove DEF SlotInv
  <1>6. CASE /\ at' = [at EXCEPT ![t] = "queue"]
             /\ by' = [by EXCEPT ![t] = ReadOf[t]]
             /\ UNCHANGED <<rpc, rt>>
    <2>1. /\ \A u \in Transfers : u # t => at'[u] = at[u] /\ by'[u] = by[u]
          /\ at'[t] = "queue"
      BY <1>4, <1>6 DEF Typed, TransfersTyped
    <2>2. (\A s \in Reactors : s # r => Hand(s)' = Hand(s)) /\ Hand(r)' = {}
      BY <1>4, <2>1 DEF Hand
    <2>3. SlotsCounted'
      <3>1. \A u \in slotted : by'[u] = by[u]
        BY <1>4, <2>1 DEF Typed, GatesTyped
      <3> QED
        BY <1>1, <3>1, SlotsKept
    <2>4. SlotPlaces'
      BY <1>1, <1>4, <2>1 DEF SlotInv, SlotPlaces
    <2>5. HandFew(r)'
      BY <1>2, <2>2 DEF HandFew
    <2> QED
      BY <1>1, <1>2, <1>6, <2>2, <2>3, <2>4, <2>5, OthersKeep DEF SlotInv
  <1> QED
    BY <1>3, <1>5, <1>6

LEMMA ReapCompletionSlots ==
    ASSUME Typed, SlotInv, NEW r \in Reactors, ReapCompletion(r) PROVE SlotInv'
  <1>1. pc[r] = "reap" /\ rpc[r] = "idle" /\ UNCHANGED <<slotted, inUse, by, rpc, rt>>
    BY DEF ReapCompletion, At
  <1>2. pc'[r] = "settle" /\ \A s \in Reactors : s # r => pc'[s] = pc[s]
    BY DEF ReapCompletion, Goto, Typed, ThreadsTyped
  <1>3. PICK t \in InFlight(r) : at' = [at EXCEPT ![t] = "hand"]
    BY DEF ReapCompletion
  <1>4. t \in Transfers /\ by[t] = r /\ Hand(r) = {}
    BY <1>1 DEF SlotInv, HandsFew, HandFew, InFlight
  <1>5. at'[t] = "hand" /\ \A u \in Transfers : u # t => at'[u] = at[u]
    BY <1>3, <1>4 DEF Typed, TransfersTyped
  <1>6. (\A s \in Reactors : s # r => Hand(s)' = Hand(s)) /\ Hand(r)' = {t}
    BY <1>1, <1>4, <1>5 DEF Hand
  <1>7. SlotsCounted'
    BY <1>1, SlotsKept
  <1>8. SlotPlaces'
    BY <1>1, <1>5 DEF SlotInv, SlotPlaces
  <1>9. HandFew(r)'
    BY <1>1, <1>2, <1>6 DEF HandFew
  <1> QED
    BY <1>1, <1>2, <1>6, <1>7, <1>8, <1>9, OthersKeep DEF SlotInv

LEMMA RequeueForRetrySlots ==
    ASSUME Typed, SlotInv, NEW r \in Reactors, RequeueForRetry(r) PROVE SlotInv'
  <1>1. pc[r] = "settle" /\ UNCHANGED by
    BY DEF RequeueForRetry, At
  <1>2. pc'[r] = "reap" /\ \A s \in Reactors : s # r => pc'[s] = pc[s]
    BY DEF RequeueForRetry, Goto, Typed, ThreadsTyped
  <1>3. PICK t \in Hand(r) : DropSlot(r, t) /\ PushPending(r, t)
    BY DEF RequeueForRetry
  <1>4. t \in Transfers /\ at[t] = "hand" /\ by[t] = r /\ Hand(r) = {t}
    BY <1>1 DEF SlotInv, HandsFew, HandFew, Hand
  <1>5. SlotsCounted' /\ slotted' = slotted \ {t}
    BY <1>1, <1>3, <1>4, DropSlotCounted DEF DropSlot
  <1>6. \/ /\ at'[t] = "pending" /\ UNCHANGED <<rpc, rt>>
        \/ /\ at'[t] = "hand" /\ rpc'[r] = "failed" /\ rt'[r] = t
    BY <1>3, <1>4, ThreadsHas DEF PushPending, Report, Typed, ThreadsTyped, TransfersTyped
  <1>7. /\ \A u \in Transfers : u # t => at'[u] = at[u]
        /\ \A s \in Reactors : s # r => rpc'[s] = rpc[s] /\ rt'[s] = rt[s]
    BY <1>3, <1>4, ThreadsHas DEF PushPending, Report, Typed, ThreadsTyped, TransfersTyped
  <1>8. /\ \A s \in Reactors : s # r => Hand(s)' = Hand(s)
        /\ Hand(r)' = IF at'[t] = "hand" THEN {t} ELSE {}
    BY <1>1, <1>4, <1>7 DEF Hand
  <1>9. SlotPlaces'
    BY <1>1, <1>5, <1>6, <1>7 DEF SlotInv, SlotPlaces
  <1>10. HandFew(r)'
    BY <1>2, <1>6, <1>8 DEF HandFew
  <1> QED
    BY <1>2, <1>5, <1>7, <1>8, <1>9, <1>10, OthersKeep DEF SlotInv

LEMMA SwapQueueSlots ==
    ASSUME Typed, SlotInv, NEW r \in Reactors, SwapQueue(r) PROVE SlotInv'
  <1>1. UNCHANGED <<slotted, inUse, rpc, rt>>
    BY DEF SwapQueue
  <1>2. pc'[r] = "drain" /\ \A s \in Reactors : s # r => pc'[s] = pc[s]
    BY DEF SwapQueue, Goto, Typed, ThreadsTyped
  <1>3. \A t \in Transfers : /\ at'[t] = IF at[t] = "queue" THEN "hand" ELSE at[t]
                             /\ by'[t] = IF at[t] = "queue" THEN r ELSE by[t]
    BY DEF SwapQueue
  <1>4. \A s \in Reactors : s # r => Hand(s)' = Hand(s)
    BY <1>3 DEF Hand
  <1>5. SlotsCounted'
    <2>1. \A t \in slotted : by'[t] = by[t]
      BY <1>3 DEF SlotInv, SlotPlaces, Typed, GatesTyped
    <2> QED
      BY <1>1, <2>1, SlotsKept
  <1>6. SlotPlaces'
    BY <1>1, <1>3 DEF SlotInv, SlotPlaces
  <1>7. HandFew(r)'
    BY <1>2 DEF HandFew
  <1> QED
    BY <1>1, <1>2, <1>4, <1>5, <1>6, <1>7, OthersKeep DEF SlotInv

LEMMA FailPendingSlots ==
    ASSUME Typed, SlotInv, NEW r \in Reactors, FailPending(r) PROVE SlotInv'
  <1>1. pc[r] = "fail" /\ rpc[r] = "idle" /\ UNCHANGED <<slotted, inUse, by>>
    BY DEF FailPending, At
  <1>2. Hand(r) = {}
    BY <1>1 DEF SlotInv, HandsFew, HandFew
  <1>3. /\ pc'[r] \in {"fail", "failInFlight"}
        /\ \A s \in Reactors : s # r => pc'[s] = pc[s]
    BY <1>1 DEF FailPending, Goto, Typed, ThreadsTyped
  <1>4. CASE UNCHANGED <<at, rpc, rt>>
    <2>1. \A s \in Reactors : Hand(s)' = Hand(s)
      BY <1>1, <1>4 DEF Hand
    <2>2. HandFew(r)'
      BY <1>2, <1>3, <2>1 DEF HandFew
    <2> QED
      BY <1>1, <1>3, <1>4, <2>1, <2>2, OthersKeep, NoMove DEF SlotInv
  <1>5. ASSUME NEW t \in Pending(r), at' = [at EXCEPT ![t] = "hand"], Report(r, t, "failed")
        PROVE  SlotInv'
    <2>1. t \in Transfers /\ by[t] = r /\ at[t] = "pending"
      BY <1>5 DEF Pending
    <2>2. at'[t] = "hand" /\ \A u \in Transfers : u # t => at'[u] = at[u]
      BY <1>5, <2>1 DEF Typed, TransfersTyped
    <2>3. (\A s \in Reactors : s # r => Hand(s)' = Hand(s)) /\ Hand(r)' = {t}
      BY <1>1, <1>2, <2>1, <2>2 DEF Hand
    <2>4. /\ rpc'[r] = "failed" /\ rt'[r] = t
          /\ \A s \in Reactors : s # r => rpc'[s] = rpc[s] /\ rt'[s] = rt[s]
      BY <1>5, ThreadsHas DEF Report, Typed, ThreadsTyped
    <2>5. SlotsCounted'
      BY <1>1, SlotsKept
    <2>6. SlotPlaces'
      BY <1>1, <2>2 DEF SlotInv, SlotPlaces
    <2>7. HandFew(r)'
      BY <1>3, <2>3, <2>4 DEF HandFew
    <2> QED
      BY <1>1, <1>3, <2>3, <2>4, <2>5, <2>6, <2>7, OthersKeep DEF SlotInv
  <1> QED
    BY <1>4, <1>5 DEF FailPending

-------------------------------------------------------------------------------
(* Steps that move several transfers, and the end of a report.             *)

LEMMA DisjointCounts ==
    ASSUME NEW A, NEW B, NEW C, IsFiniteSet(A), IsFiniteSet(B), A \cup B = C, A \cap B = {},
           Cardinality(A) \in Nat, Cardinality(B) \in Nat
    PROVE  Cardinality(C) = Cardinality(A) + Cardinality(B)
  <1>1. Cardinality(C) = Cardinality(A) + Cardinality(B) - Cardinality({})
    BY FS_Union
  <1>2. Cardinality({}) = 0
    BY FS_EmptySet
  <1> QED
    BY <1>1, <1>2

\* The slots given back by the final clear() are those of the transfers in flight.
LEMMA ClearInFlightSlots ==
    ASSUME Typed, SlotInv, NEW r \in Reactors, ClearInFlight(r) PROVE SlotInv'
  <1> DEFINE F == InFlight(r)
  <1>1. pc[r] = "failInFlight" /\ rpc[r] = "idle" /\ UNCHANGED <<rpc, rt>>
    BY DEF ClearInFlight, At
  <1>2. pc'[r] = "exited" /\ \A s \in Reactors : s # r => pc'[s] = pc[s]
    BY DEF ClearInFlight, Goto, Typed, ThreadsTyped
  <1>3. \A t \in Transfers : /\ at'[t] = IF t \in F THEN "gone" ELSE at[t]
                             /\ by'[t] = IF t \in F THEN ReadOf[t] ELSE by[t]
    BY DEF ClearInFlight
  <1>4. slotted' = slotted \ F
    BY DEF ClearInFlight
  <1>5. F \subseteq Transfers /\ \A t \in F : at[t] = "inflight" /\ by[t] = r
    BY DEF InFlight
  <1>6. \A s \in Reactors : Hand(s)' = Hand(s)
    BY <1>3, <1>5 DEF Hand
  <1>7. SlotsCounted'
    <2>1. /\ \A s \in Reactors : s # r => SlotsOf(s)' = SlotsOf(s)
          /\ SlotsOf(r)' = SlotsOf(r) \ F
          /\ F \cap slotted \subseteq SlotsOf(r)
      BY <1>3, <1>4, <1>5 DEF SlotsOf, Typed, GatesTyped
    <2>2. /\ inUse'[r] = inUse[r] - Cardinality(F \cap slotted)
          /\ \A s \in Reactors : s # r => inUse'[s] = inUse[s]
      BY DEF ClearInFlight, Typed, GatesTyped
    <2>3. /\ IsFiniteSet(F \cap slotted) /\ Cardinality(F \cap slotted) \in Nat
          /\ IsFiniteSet(SlotsOf(r) \ F) /\ Cardinality(SlotsOf(r) \ F) \in Nat
      BY <1>5, SubsetIsCounted DEF SlotsOf, Typed, GatesTyped
    <2>4. /\ (SlotsOf(r) \ F) \cup (F \cap slotted) = SlotsOf(r)
          /\ (SlotsOf(r) \ F) \cap (F \cap slotted) = {}
      BY <2>1 DEF SlotsOf
    <2> HIDE DEF F
    <2>5. Cardinality(SlotsOf(r)) = Cardinality(SlotsOf(r) \ F) + Cardinality(F \cap slotted)
      BY <2>3, <2>4, DisjointCounts
    <2>6. inUse[r] = Cardinality(SlotsOf(r)) /\ (Unlimited \/ inUse[r] <= Slice(r))
      BY DEF SlotInv, SlotsCounted
    <2>7. inUse'[r] = Cardinality(SlotsOf(r) \ F)
      BY <2>2, <2>3, <2>5, <2>6
    <2>8. Unlimited \/ inUse'[r] <= Slice(r)
      BY <2>3, <2>5, <2>6, <2>7, SliceIsInt
    <2> QED
      BY <2>1, <2>2, <2>7, <2>8 DEF SlotInv, SlotsCounted
  <1>8. SlotPlaces'
    BY <1>3, <1>4, <1>5 DEF SlotInv, SlotPlaces
  <1>9. HandFew(r)'
    BY <1>1, <1>2, <1>6 DEF HandFew, SlotInv, HandsFew
  <1> QED
    BY <1>1, <1>2, <1>4, <1>6, <1>7, <1>8, <1>9, OthersKeep DEF SlotInv

LEMMA SubmitPreadSlots ==
    ASSUME Typed, ReportInv, SlotInv, NEW a \in Reads, SubmitPread(a) PROVE SlotInv'
  <1>1. UNCHANGED <<slotted, inUse, by, pc, rpc, rt>> /\ cpc[a] = "start"
    BY DEF SubmitPread
  <1>2. \A t \in Transfers : ReadOf[t] = a => at[t] = "new" /\ by[t] = a
    BY <1>1 DEF ReportInv, QueueHolds, SubrangesOf, SlotInv, SlotPlaces
  <1>3. PICK p \in {"hand", "queue"} :
          \A t \in Transfers : at'[t] = IF ReadOf[t] = a THEN p ELSE at[t]
    BY DEF SubmitPread
  <1>4. a \notin Reactors
    BY ConstantsAssumption
  <1>5. \A s \in Reactors : Hand(s)' = Hand(s)
    BY <1>1, <1>2, <1>3, <1>4 DEF Hand
  <1>6. SlotsCounted'
    BY <1>1, SlotsKept
  <1>7. SlotPlaces'
    BY <1>1, <1>2, <1>3 DEF SlotInv, SlotPlaces
  <1>8. HandsFew'
    BY <1>1, <1>4, <1>5, OthersKeep DEF SlotInv
  <1> QED
    BY <1>6, <1>7, <1>8 DEF SlotInv

\* The thread that ends a report destroys the transfer, if it is in its hand.
LEMMA EndReportSlots ==
    ASSUME Typed, ReportInv, SlotInv, NEW th \in Threads, rpc[th] # "idle", EndReport(th),
           UNCHANGED pc
    PROVE  SlotInv'
  <1> DEFINE t == rt[th]
  <1>1. /\ t \in Transfers /\ by[t] = th
        /\ at[t] = "hand" \/ (at[t] = "inflight" /\ th \in Reactors)
    BY Reported
  <1>2. /\ rpc'[th] = "idle"
        /\ \A s \in Threads : s # th => rpc'[s] = rpc[s] /\ rt'[s] = rt[s]
        /\ \A u \in Transfers : u # t => at'[u] = at[u] /\ by'[u] = by[u]
    BY Ended
  <1>3. CASE at[t] = "inflight"
    <2>1. UNCHANGED <<slotted, inUse, at, by>>
      BY <1>3 DEF EndReport, Destroy
    <2>2. \A s \in Reactors : Hand(s)' = Hand(s)
      BY <2>1 DEF Hand
    <2>3. HandFew(th)'
      BY <1>1, <1>3, <2>2 DEF SlotInv, HandsFew, HandFew, Hand
    <2> QED
      BY <1>2, <2>1, <2>2, <2>3, ThreadsHas, OthersKeep, NoMove DEF SlotInv
  <1>4. CASE at[t] = "hand"
    <2>1. /\ slotted' = slotted \ {t}
          /\ at'[t] = "gone"
          /\ \A s \in Reactors : inUse'[s] = IF t \in slotted /\ by[t] = s THEN inUse[s] - 1
                                                                           ELSE inUse[s]
      BY <1>1, <1>4 DEF EndReport, Destroy, Typed, TransfersTyped
    <2>2. SlotsCounted'
      BY <1>1, <1>2, <2>1, SlotDropped
    <2>3. SlotPlaces'
      BY <1>2, <2>1 DEF SlotInv, SlotPlaces
    <2>4. (\A s \in Reactors : s # th => Hand(s)' = Hand(s)) /\ Hand(th)' = Hand(th) \ {t}
      BY <1>1, <1>2, <2>1 DEF Hand
    <2>5. th \in Reactors => HandFew(th)'
      BY <2>4 DEF SlotInv, HandsFew, HandFew
    <2> QED
      BY <1>2, <2>1, <2>2, <2>3, <2>4, <2>5, ThreadsHas, OthersKeep DEF SlotInv
  <1> QED
    BY <1>1, <1>3, <1>4

LEMMA CountedSlots ==
    ASSUME Typed, ReportInv, SlotInv, NEW th \in Threads, CountDown(th) \/ Fulfil(th)
    PROVE  SlotInv'
  <1>1. rpc[th] # "idle" /\ UNCHANGED pc
    BY DEF CountDown, Fulfil
  <1>2. CASE EndReport(th)
    BY <1>1, <1>2, EndReportSlots
  <1>3. CASE ~EndReport(th)
    <2>1. UNCHANGED <<rt, slotted, inUse, at, by>> /\ rpc' = [rpc EXCEPT ![th] = "fulfil"]
      BY <1>3 DEF CountDown, Fulfil
    <2>2. rpc'[th] = "fulfil" /\ \A s \in Threads : s # th => rpc'[s] = rpc[s]
      BY <2>1 DEF Typed, ThreadsTyped
    <2>3. HandsFew'
      BY <1>1, <2>1, <2>2, ThreadsHas DEF SlotInv, HandsFew, HandFew, Hand
    <2> QED
      BY <2>1, <2>3, NoMove
  <1> QED
    BY <1>2, <1>3

-------------------------------------------------------------------------------
(* The theorems.                                                           *)

LEMMA NextSlotInv == Typed /\ ReportInv /\ SlotInv /\ [Next]_vars => SlotInv'
  <1> SUFFICES ASSUME Typed, ReportInv, SlotInv, [Next]_vars PROVE SlotInv'
    OBVIOUS
  <1>1. ASSUME NEW th \in Threads, ReportStep(th) PROVE SlotInv'
    BY <1>1, RecordExceptionSlots, CountedSlots DEF ReportStep
  <1>2. ASSUME NEW a \in Reads, CallerStep(a) PROVE SlotInv'
    BY <1>2, SubmitPreadSlots, FailSubmittedSlots, OutsideSlots DEF CallerStep
  <1>3. ASSUME NEW r \in Reactors, LoopStep(r) \/ MultiCallFails(r) PROVE SlotInv'
    BY <1>3, QuietSlots, SettledSlots, AdmitRetrySlots, TryPopQueuedSlots, AdmitPoppedSlots,
       ReturnToQueueSlots, ReapCompletionSlots, RequeueForRetrySlots, SwapQueueSlots,
       DrainQueueSlots, FailPendingSlots, FailInFlightSlots, ClearInFlightSlots DEF LoopStep
  <1> QED
    BY <1>1, <1>2, <1>3, OutsideSlots DEF Next

LEMMA SlotsInvariant == Spec => [](Typed /\ ReportInv /\ SlotInv)
  <1>1. Init => Typed /\ ReportInv /\ SlotInv
    BY InitTyped, InitReportInv, InitSlotInv
  <1>2. Typed /\ ReportInv /\ SlotInv /\ [Next]_vars => (Typed /\ ReportInv /\ SlotInv)'
    BY NextTyped, NextReportInv, NextSlotInv DEF ReportInv
  <1> QED
    BY <1>1, <1>2, PTL DEF Spec

\* Each reactor's limiter counts exactly the transfers that hold one of its slots and
\* stays within its slice, whatever the interleaving of admission, retry, return to
\* the queue, settling and pool death (ConcurrentRequestLimiter, RequestSlot).
THEOREM SlotsAreConserved == Spec => []SlotsConserved
  <1>1. SlotInv => SlotsConserved
    BY DEF SlotInv, SlotsCounted, SlotPlaces, SlotsOf, SlotsConserved
  <1> QED
    BY <1>1, SlotsInvariant, PTL

\* The backend is type correct; in particular the limiters' _count and
\* _subranges_left, both unsigned, never go below zero.
THEOREM TypeCorrect == Spec => []TypeOK
  <1>1. Typed /\ ReportInv /\ SlotInv => TypeOK
    <2> SUFFICES ASSUME Typed, ReportInv, SlotInv PROVE TypeOK
      OBVIOUS
    <2>1. inUse \in [Reactors -> Nat]
      BY SlotsAreCounted DEF SlotInv, SlotsCounted, Typed, GatesTyped
    <2>2. left \in [Reads -> Nat]
      BY OpenIsCounted DEF OpenOf, ReportInv, LeftIsOpen, Typed, AggregatesTyped
    <2> QED
      BY <2>1, <2>2 DEF TypeOK, Typed, PoolTyped, TransfersTyped, GatesTyped,
                        AggregatesTyped, PassTyped, ThreadsTyped
  <1> QED
    BY <1>1, SlotsInvariant, PTL

===============================================================================
