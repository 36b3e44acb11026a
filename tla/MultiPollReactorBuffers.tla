------------------------ MODULE MultiPollReactorBuffers ------------------------
(***************************************************************************)
(* Waiting, copying and sleeping in MultiPollReactor, for every instance:  *)
(* retries start clean and are not overslept, bounce buffers are           *)
(* conserved, a device read returns with its data on the device, and work  *)
(* in the queue is never left to reactors that all sleep.                  *)
(*                                                                         *)
(* The invariants rest on the reports and slots (ReportInv, SlotInv).      *)
(***************************************************************************)
EXTENDS MultiPollReactorProofs

USE DEF poolVars, xferVars, ownVars, gateVars, copyVars, aggVars, passVars, loopVars, repVars

-------------------------------------------------------------------------------
(* The invariants.                                                         *)

\* The labels of one pass, and those of a reactor that leaves its loop.
PassLabels == {"retries", "pool", "popped", "return", "perform", "reap", "settle"}
DyingLabels == {"signal", "swap", "drain", "fail", "failInFlight", "exited"}

\* What a reactor r knows of the retries it holds: one that its pass will not visit has left
\* its deadline or a refusal behind, and the timeout it sleeps with comes from these.
Watched(r) ==
    /\ pc[r] \in PassLabels /\ ~(Pending(r) \subseteq todo[r]) => r \in timer \/ r \in deferred
    /\ pc[r] \in PassLabels \ {"retries"} => todo[r] = {}
    /\ pc[r] = "poll" /\ Pending(r) # {} => timeout[r] # "idle"
    /\ rpc[r] # "idle" => pc[r] \in {"perform", "reap", "drain", "fail", "failInFlight"}

WatchInv == \A r \in Reactors : Watched(r)

-------------------------------------------------------------------------------
(* A step of one thread and the other reactors.                            *)

OwnStep(r) == LoopStep(r) \/ MultiCallFails(r)

\* A step of another thread, as reactor s sees it.
Undisturbed(s) ==
    /\ pc'[s] = pc[s] /\ todo'[s] = todo[s] /\ timeout'[s] = timeout[s]
    /\ exhausted'[s] = exhausted[s]
    /\ rpc'[s] # "idle" => rpc[s] # "idle"
    /\ (s \in timer' <=> s \in timer)
    /\ (s \in deferred' <=> s \in deferred)
    /\ (s \in completed' <=> s \in completed)
    /\ (s \in woken => s \in woken')
    /\ Pending(s)' = Pending(s) /\ InFlight(s)' = InFlight(s) /\ Hand(s)' \subseteq Hand(s)

\* Thread th takes transfers from the queue or from itself, and keeps them or lets them go.
MovesOwn(th) ==
    \A u \in Transfers :
        \/ at'[u] = at[u] /\ by'[u] = by[u]
        \/ /\ by[u] = th \/ at[u] = "queue"
           /\ by'[u] = th \/ at'[u] \in {"queue", "gone"}

LEMMA PlacesApart ==
    ASSUME NEW th, MovesOwn(th), NEW s, s # th
    PROVE  Pending(s)' = Pending(s) /\ InFlight(s)' = InFlight(s) /\ Hand(s)' = Hand(s)
  BY DEF MovesOwn, Pending, InFlight, Hand

\* One transfer moves.
LEMMA OneMoves ==
    ASSUME Typed, NEW th, NEW t \in Transfers, NEW p, NEW h,
           at' = [at EXCEPT ![t] = p], by' = [by EXCEPT ![t] = h] \/ (UNCHANGED by /\ h = by[t]),
           by[t] = th \/ at[t] = "queue", h = th \/ p \in {"queue", "gone"}
    PROVE  /\ MovesOwn(th)
           /\ at'[t] = p /\ by'[t] = h
           /\ \A u \in Transfers : u # t => at'[u] = at[u] /\ by'[u] = by[u]
  BY DEF MovesOwn, Typed, TransfersTyped

LEMMA AdmissionMoves ==
    ASSUME Typed, NEW r \in Reactors, NEW t \in Transfers, by[t] = r,
           Admitted(r, t) \/ Refused(r, t) \/ AdmissionThrows(r, t)
    PROVE  MovesOwn(r)
  <1>1. CASE Refused(r, t)
    BY <1>1 DEF Refused, MovesOwn
  <1>2. CASE Admitted(r, t) \/ AdmissionThrows(r, t)
    BY <1>2, OneMoves DEF Admitted, AdmissionThrows
  <1> QED
    BY <1>1, <1>2

LEMMA LoopMoves ==
    ASSUME Typed, ReportInv, NEW r \in Reactors, OwnStep(r) PROVE MovesOwn(r)
  <1>1. ASSUME UNCHANGED <<at, by>> PROVE MovesOwn(r)
    BY <1>1 DEF MovesOwn
  <1>2. CASE AdmitRetry(r)
    <2>1. PICK t \in todo[r] : Admitted(r, t) \/ Refused(r, t) \/ AdmissionThrows(r, t)
      BY <1>2 DEF AdmitRetry
    <2>2. t \in Transfers /\ by[t] = r
      BY <1>2, <2>1 DEF AdmitRetry, At, ReportInv, TodoHeld, Pending
    <2> QED
      BY <2>1, <2>2, AdmissionMoves
  <1>3. CASE AdmitPopped(r)
    <2>1. PICK t \in Hand(r) : Admitted(r, t) \/ Refused(r, t) \/ AdmissionThrows(r, t)
      BY <1>3 DEF AdmitPopped
    <2>2. t \in Transfers /\ by[t] = r
      BY <2>1 DEF Hand
    <2> QED
      BY <2>1, <2>2, AdmissionMoves
  <1>4. CASE TryPopQueued(r)
    <2>1. CASE UNCHANGED <<at, by>>
      BY <1>1, <2>1
    <2>2. CASE ~(UNCHANGED <<at, by>>)
      <3>1. /\ queue # <<>>
            /\ at' = [at EXCEPT ![Head(queue)] = "hand"]
            /\ by' = [by EXCEPT ![Head(queue)] = r]
        BY <1>4, <2>2 DEF TryPopQueued
      <3>2. Head(queue) \in Transfers /\ at[Head(queue)] = "queue"
        BY <3>1, PoppedQueue DEF ReportInv, QueueHolds, Typed, PoolTyped
      <3> QED
        BY <3>1, <3>2, OneMoves
    <2> QED
      BY <2>1, <2>2
  <1>5. CASE ReturnToQueue(r)
    <2>1. PICK t \in Hand(r) : \/ UNCHANGED <<at, by>>
                               \/ /\ at' = [at EXCEPT ![t] = "queue"]
                                  /\ by' = [by EXCEPT ![t] = ReadOf[t]]
      BY <1>5 DEF ReturnToQueue
    <2>2. t \in Transfers /\ by[t] = r
      BY <2>1 DEF Hand
    <2> QED
      BY <1>1, <2>1, <2>2, OneMoves
  <1>6. CASE ReapCompletion(r)
    <2>1. PICK t \in InFlight(r) : at' = [at EXCEPT ![t] = "hand"] /\ UNCHANGED by
      BY <1>6 DEF ReapCompletion
    <2> QED
      BY <2>1, OneMoves DEF InFlight
  <1>7. CASE RequeueForRetry(r)
    <2>1. PICK t \in Hand(r) : /\ UNCHANGED by
                               /\ UNCHANGED at \/ at' = [at EXCEPT ![t] = "pending"]
      BY <1>7 DEF RequeueForRetry, PushPending
    <2> QED
      BY <1>1, <2>1, OneMoves DEF Hand
  <1>8. CASE SwapQueue(r)
    BY <1>8 DEF SwapQueue, MovesOwn
  <1>9. CASE FailPending(r)
    <2>1. UNCHANGED by /\ (UNCHANGED at \/ \E t \in Pending(r) : at' = [at EXCEPT ![t] = "hand"])
      BY <1>9 DEF FailPending
    <2> QED
      BY <1>1, <2>1, OneMoves DEF Pending
  <1>10. CASE ClearInFlight(r)
    BY <1>10 DEF ClearInFlight, MovesOwn, InFlight
  <1>11. CASE \/ LoopTop(r) \/ ReadQueueShare(r) \/ PerformReturns(r) \/ SettleHost(r)
              \/ StageDeviceCopy(r) \/ StageFails(r) \/ SettleFailed(r) \/ EnterPoll(r)
              \/ PollReturns(r) \/ SignalDeath(r) \/ DrainQueue(r) \/ FailInFlight(r)
              \/ MultiCallFails(r)
    BY <1>1, <1>11 DEF LoopTop, ReadQueueShare, PerformReturns, SettleHost, StageDeviceCopy,
       StageFails, SettleFailed, EnterPoll, PollReturns, SignalDeath, DrainQueue, FailInFlight,
       MultiCallFails
  <1> QED
    BY <1>2, <1>3, <1>4, <1>5, <1>6, <1>7, <1>8, <1>9, <1>10, <1>11 DEF OwnStep, LoopStep

\* The variables of the other reactors' threads are their own.
LEMMA LoopApart ==
    ASSUME Typed, ReportInv, NEW r \in Reactors, OwnStep(r), NEW s \in Reactors, s # r
    PROVE  Undisturbed(s)
  <1>1. Pending(s)' = Pending(s) /\ InFlight(s)' = InFlight(s) /\ Hand(s)' = Hand(s)
    BY LoopMoves, PlacesApart
  <1>2. pc'[s] = pc[s] /\ timeout'[s] = timeout[s]
    BY DEF OwnStep, LoopStep, LoopTop, AdmitRetry, ReadQueueShare, TryPopQueued, AdmitPopped,
       ReturnToQueue, PerformReturns, ReapCompletion, SettleHost, StageDeviceCopy, StageFails,
       SettleFailed, RequeueForRetry, EnterPoll, PollReturns, SignalDeath, SwapQueue, DrainQueue,
       FailPending, FailInFlight, ClearInFlight, MultiCallFails, Goto, AdmissionThrows,
       Typed, ThreadsTyped
  <1>3. todo'[s] = todo[s] /\ exhausted'[s] = exhausted[s]
    BY DEF OwnStep, LoopStep, LoopTop, AdmitRetry, ReadQueueShare, TryPopQueued, AdmitPopped,
       ReturnToQueue, PerformReturns, ReapCompletion, SettleHost, StageDeviceCopy, StageFails,
       SettleFailed, RequeueForRetry, EnterPoll, PollReturns, SignalDeath, SwapQueue, DrainQueue,
       FailPending, FailInFlight, ClearInFlight, MultiCallFails, Refused, NewPass, SetPass,
       Typed, PassTyped
  <1>4. /\ (s \in timer' <=> s \in timer)
        /\ (s \in deferred' <=> s \in deferred)
        /\ (s \in completed' <=> s \in completed)
        /\ (s \in woken => s \in woken')
    BY DEF OwnStep, LoopStep, LoopTop, AdmitRetry, ReadQueueShare, TryPopQueued, AdmitPopped,
       ReturnToQueue, PerformReturns, ReapCompletion, SettleHost, StageDeviceCopy, StageFails,
       SettleFailed, RequeueForRetry, EnterPoll, PollReturns, SignalDeath, SwapQueue, DrainQueue,
       FailPending, FailInFlight, ClearInFlight, MultiCallFails, Refused, NewPass, SetPass,
       Typed, PassTyped
  <1>5. rpc'[s] = rpc[s]
    BY ThreadsHas DEF OwnStep, LoopStep, LoopTop, AdmitRetry, ReadQueueShare, TryPopQueued,
       AdmitPopped, ReturnToQueue, PerformReturns, ReapCompletion, SettleHost, StageDeviceCopy,
       StageFails, SettleFailed, RequeueForRetry, EnterPoll, PollReturns, SignalDeath, SwapQueue,
       DrainQueue, FailPending, FailInFlight, ClearInFlight, MultiCallFails, Report, PushPending,
       Typed, ThreadsTyped
  <1> QED
    BY <1>1, <1>2, <1>3, <1>4, <1>5 DEF Undisturbed

LEMMA ReportApart ==
    ASSUME Typed, ReportInv, NEW th \in Threads, ReportStep(th), NEW s \in Reactors
    PROVE  Undisturbed(s)
  <1>1. rpc[th] # "idle" /\ UNCHANGED <<loopVars, woken>>
    BY DEF ReportStep, RecordException, CountDown, Fulfil
  <1>2. \/ EndReport(th)
        \/ UNCHANGED <<at, by>> /\ \E l : rpc' = [rpc EXCEPT ![th] = l]
    BY DEF ReportStep, RecordException, CountDown, Fulfil
  <1>3. rpc'[s] # "idle" => rpc[s] # "idle"
    BY <1>1, <1>2, Ended, ThreadsHas DEF Typed, ThreadsTyped
  <1>4. Pending(s)' = Pending(s) /\ InFlight(s)' = InFlight(s) /\ Hand(s)' \subseteq Hand(s)
    <2>1. CASE UNCHANGED <<at, by>>
      BY <2>1 DEF Pending, InFlight, Hand
    <2>2. CASE EndReport(th)
      <3>1. /\ rt[th] \in Transfers /\ by[rt[th]] = th
            /\ at[rt[th]] = "hand" \/ at[rt[th]] = "inflight"
        BY <1>1, Reported
      <3>2. /\ \A u \in Transfers : u # rt[th] => at'[u] = at[u] /\ by'[u] = by[u]
            /\ IF at[rt[th]] = "inflight"
               THEN at'[rt[th]] = "inflight" /\ by'[rt[th]] = th
               ELSE at'[rt[th]] = "gone"
        BY <1>1, <2>2, Ended
      <3> QED
        BY <3>1, <3>2 DEF Pending, InFlight, Hand
    <2> QED
      BY <1>2, <2>1, <2>2
  <1> QED
    BY <1>1, <1>3, <1>4 DEF Undisturbed

LEMMA CallerApart ==
    ASSUME Typed, ReportInv, SlotInv, NEW a \in Reads, CallerStep(a), NEW s \in Reactors
    PROVE  Undisturbed(s)
  <1>1. UNCHANGED loopVars /\ (s \in woken => s \in woken')
    BY DEF CallerStep, SubmitPread, FailSubmitted, WakeAllReactors, Get, SyncAllEvents
  <1>2. a # s
    BY ConstantsAssumption
  <1>3. rpc'[s] = rpc[s]
    BY <1>2, ThreadsHas DEF CallerStep, SubmitPread, FailSubmitted, WakeAllReactors, Get,
       SyncAllEvents, Report, Typed, ThreadsTyped
  <1>4. MovesOwn(a)
    <2>1. CASE UNCHANGED <<at, by>>
      BY <2>1 DEF MovesOwn
    <2>2. CASE SubmitPread(a)
      <3>1. \A t \in Transfers : ReadOf[t] = a => by[t] = a
        BY <2>2 DEF SubmitPread, ReportInv, QueueHolds, SubrangesOf, SlotInv, SlotPlaces
      <3> QED
        BY <2>2, <3>1 DEF SubmitPread, MovesOwn
    <2> QED
      BY <2>1, <2>2 DEF CallerStep, FailSubmitted, WakeAllReactors, Get, SyncAllEvents
  <1> QED
    BY <1>1, <1>2, <1>3, <1>4, PlacesApart DEF Undisturbed

\* Whatever step is taken, a reactor that does not take it is not disturbed.
LEMMA OthersUndisturbed ==
    ASSUME Typed, ReportInv, SlotInv, [Next]_vars, NEW s \in Reactors
    PROVE  OwnStep(s) \/ Undisturbed(s)
  <1>1. ASSUME NEW r \in Reactors, OwnStep(r) PROVE OwnStep(s) \/ Undisturbed(s)
    BY <1>1, LoopApart
  <1>2. ASSUME \/ \E r \in Reactors, t \in Transfers : WriteCallback(r, t) \/ AttemptEnds(r, t)
               \/ \E t \in Transfers : BackoffElapses(t) \/ CopyCompletes(t)
               \/ UNCHANGED vars
        PROVE  Undisturbed(s)
    <2>1. UNCHANGED <<at, by, loopVars, rpc>> /\ (s \in woken => s \in woken')
      BY <1>2 DEF WriteCallback, AttemptEnds, BackoffElapses, CopyCompletes, vars
    <2> QED
      BY <2>1 DEF Undisturbed, Pending, InFlight, Hand
  <1> QED
    BY <1>1, <1>2, ReportApart, CallerApart DEF Next, OwnStep

-------------------------------------------------------------------------------
(* Retries are not overslept.                                              *)

LEMMA InitWatchInv == Init => WatchInv
  BY ThreadsHas DEF Init, WatchInv, Watched, PassLabels

\* The label a step leads to.
LEMMA LabelIs ==
    ASSUME Typed, NEW r \in Reactors, NEW l, Goto(r, l) PROVE pc'[r] = l
  BY DEF Goto, Typed, ThreadsTyped

LEMMA AdmitRetryWatched ==
    ASSUME Typed, ReportInv, WatchInv, NEW r \in Reactors, AdmitRetry(r) PROVE Watched(r)'
  <1>1. PICK t \in todo[r] :
          /\ todo' = [todo EXCEPT ![r] = @ \ {t}]
          /\ \/ Admitted(r, t) /\ UNCHANGED <<pc, timer, deferred>>
             \/ Refused(r, t) /\ UNCHANGED pc
             \/ AdmissionThrows(r, t)
    BY DEF AdmitRetry
  <1>2. pc[r] = "retries" /\ rpc[r] = "idle" /\ UNCHANGED rpc
    BY DEF AdmitRetry, At
  <1>3. t \in Transfers /\ at[t] = "pending" /\ by[t] = r
    BY <1>2 DEF ReportInv, TodoHeld, Pending
  <1>4. todo'[r] = todo[r] \ {t}
    BY <1>1 DEF Typed, PassTyped
  <1>5. CASE Admitted(r, t) /\ UNCHANGED <<pc, timer, deferred>>
    <2>1. Pending(r)' = Pending(r) \ {t}
      <3>1. at' = [at EXCEPT ![t] = "inflight"] /\ UNCHANGED by
        BY <1>5 DEF Admitted
      <3>2. at'[t] = "inflight" /\ \A u \in Transfers : u # t => at'[u] = at[u]
        BY <1>3, <3>1 DEF Typed, TransfersTyped
      <3> QED
        BY <3>1, <3>2 DEF Pending
    <2> QED
      BY <1>2, <1>4, <1>5, <2>1 DEF WatchInv, Watched, PassLabels
  <1>6. CASE Refused(r, t) /\ UNCHANGED pc
    <2>1. r \in deferred'
      BY <1>6 DEF Refused
    <2> QED
      BY <1>2, <1>6, <2>1 DEF WatchInv, Watched, PassLabels
  <1>7. CASE AdmissionThrows(r, t)
    <2>1. pc'[r] = "signal"
      BY <1>7, LabelIs DEF AdmissionThrows
    <2> QED
      BY <1>2, <2>1 DEF Watched, PassLabels
  <1> QED
    BY <1>1, <1>5, <1>6, <1>7

LEMMA AdmitPoppedWatched ==
    ASSUME Typed, ReportInv, WatchInv, NEW r \in Reactors, AdmitPopped(r) PROVE Watched(r)'
  <1>1. PICK t \in Hand(r) :
          \/ Admitted(r, t) /\ Goto(r, "pool") /\ UNCHANGED <<timer, deferred>>
          \/ Refused(r, t) /\ Goto(r, "return")
          \/ AdmissionThrows(r, t)
    BY DEF AdmitPopped
  <1>2. pc[r] = "popped" /\ rpc[r] = "idle" /\ UNCHANGED <<rpc, todo>>
    BY DEF AdmitPopped, At
  <1>3. t \in Transfers /\ at[t] = "hand" /\ by[t] = r
    BY DEF Hand
  <1>4. CASE Admitted(r, t) /\ Goto(r, "pool") /\ UNCHANGED <<timer, deferred>>
    <2>1. Pending(r)' = Pending(r)
      <3>1. at' = [at EXCEPT ![t] = "inflight"] /\ UNCHANGED by
        BY <1>4 DEF Admitted
      <3>2. at'[t] = "inflight" /\ \A u \in Transfers : u # t => at'[u] = at[u]
        BY <1>3, <3>1 DEF Typed, TransfersTyped
      <3> QED
        BY <1>3, <3>1, <3>2 DEF Pending
    <2>2. pc'[r] = "pool"
      BY <1>4, LabelIs
    <2> QED
      BY <1>2, <1>4, <2>1, <2>2 DEF WatchInv, Watched, PassLabels
  <1>5. CASE Refused(r, t) /\ Goto(r, "return")
    <2>1. r \in deferred' /\ pc'[r] = "return"
      BY <1>5, LabelIs DEF Refused
    <2> QED
      BY <1>2, <2>1 DEF WatchInv, Watched, PassLabels
  <1>6. CASE AdmissionThrows(r, t)
    <2>1. pc'[r] = "signal"
      BY <1>6, LabelIs DEF AdmissionThrows
    <2> QED
      BY <1>2, <2>1 DEF Watched, PassLabels
  <1> QED
    BY <1>1, <1>4, <1>5, <1>6

\* The pass outcome knows of every retry that the pass does not visit.
LEMMA LoopTopWatched ==
    ASSUME Typed, WatchInv, NEW r \in Reactors, LoopTop(r) PROVE Watched(r)'
  <1>1. rpc[r] = "idle" /\ UNCHANGED <<rpc, at, by>>
    BY DEF LoopTop, At
  <1>2. Pending(r)' = Pending(r)
    BY <1>1 DEF Pending
  <1>3. CASE dead
    <2>1. pc'[r] = "fail"
      BY <1>3, LabelIs DEF LoopTop
    <2> QED
      BY <1>1, <2>1 DEF Watched, PassLabels
  <1>4. CASE ~dead
    <2>1. pc'[r] = "retries" /\ NewPass(r)
      BY <1>4, LabelIs DEF LoopTop
    <2>2. /\ todo'[r] = Pending(r) \ backingOff
          /\ Pending(r) \cap backingOff # {} => r \in timer'
      BY <2>1 DEF NewPass, SetPass, Typed, PassTyped
    <2> QED
      BY <1>1, <1>2, <2>1, <2>2 DEF Watched, PassLabels
  <1> QED
    BY <1>3, <1>4

LEMMA EnterPollWatched ==
    ASSUME Typed, WatchInv, NEW r \in Reactors, EnterPoll(r) PROVE Watched(r)'
  <1>1. pc[r] = "reap" /\ rpc[r] = "idle" /\ UNCHANGED <<rpc, at, by>>
    BY DEF EnterPoll, At
  <1>2. Pending(r)' = Pending(r) /\ pc'[r] = "poll"
    BY <1>1, LabelIs DEF Pending, EnterPoll
  <1>3. timeout'[r] = PollTimeout(r)
    BY DEF EnterPoll, Typed, ThreadsTyped
  <1>4. Pending(r) # {} => r \in timer \/ r \in deferred
    BY <1>1 DEF WatchInv, Watched, PassLabels
  <1>5. Pending(r) # {} => PollTimeout(r) # "idle"
    BY <1>4 DEF PollTimeout
  <1> QED
    BY <1>1, <1>2, <1>3, <1>5 DEF Watched, PassLabels

LEMMA RequeueForRetryWatched ==
    ASSUME Typed, WatchInv, NEW r \in Reactors, RequeueForRetry(r) PROVE Watched(r)'
  <1>1. pc[r] = "settle" /\ pc'[r] = "reap" /\ r \in timer' /\ UNCHANGED todo
    BY LabelIs DEF RequeueForRetry, At
  <1> QED
    BY <1>1 DEF WatchInv, Watched, PassLabels

LEMMA QuietWatched ==
    ASSUME Typed, ReportInv, WatchInv, NEW r \in Reactors,
           \/ ReadQueueShare(r) \/ TryPopQueued(r) \/ ReturnToQueue(r) \/ PerformReturns(r)
           \/ ReapCompletion(r) \/ SettleHost(r) \/ StageDeviceCopy(r) \/ StageFails(r)
           \/ SettleFailed(r)
    PROVE  Watched(r)'
  <1>1. Pending(r)' \subseteq Pending(r)
    <2>1. ASSUME NEW t, NEW p, NEW h, p # "pending", UNCHANGED by \/ by' = [by EXCEPT ![t] = h],
                 at' = [at EXCEPT ![t] = p]
          PROVE  Pending(r)' \subseteq Pending(r)
      BY <2>1 DEF Pending, Typed, TransfersTyped
    <2>2. ASSUME UNCHANGED <<at, by>> PROVE Pending(r)' \subseteq Pending(r)
      BY <2>2 DEF Pending
    <2>3. CASE TryPopQueued(r)
      BY <2>1, <2>2, <2>3 DEF TryPopQueued
    <2>4. CASE ReturnToQueue(r)
      BY <2>1, <2>2, <2>4 DEF ReturnToQueue
    <2>5. CASE ReapCompletion(r)
      BY <2>1, <2>5 DEF ReapCompletion
    <2> QED
      BY <2>2, <2>3, <2>4, <2>5 DEF ReadQueueShare, PerformReturns, SettleHost, StageDeviceCopy,
         StageFails, SettleFailed
  <1>2. /\ UNCHANGED <<todo, timer>> /\ (r \in deferred => r \in deferred')
        /\ pc[r] \in PassLabels /\ (pc[r] = "retries" => todo[r] = {})
    BY DEF ReadQueueShare, TryPopQueued, ReturnToQueue, PerformReturns, ReapCompletion,
       SettleHost, StageDeviceCopy, StageFails, SettleFailed, At, PassLabels
  <1>3. /\ pc'[r] \in PassLabels \ {"retries"}
        /\ (UNCHANGED rpc /\ rpc[r] = "idle") \/ pc'[r] \in {"perform", "reap"}
    BY LabelIs DEF ReadQueueShare, TryPopQueued, ReturnToQueue, PerformReturns, ReapCompletion,
       SettleHost, StageDeviceCopy, StageFails, SettleFailed, At, PassLabels
  <1> QED
    BY <1>1, <1>2, <1>3 DEF WatchInv, Watched, PassLabels

LEMMA DyingWatched ==
    ASSUME Typed, WatchInv, NEW r \in Reactors,
           \/ PollReturns(r) \/ MultiCallFails(r) \/ SignalDeath(r) \/ SwapQueue(r)
           \/ DrainQueue(r) \/ FailPending(r) \/ FailInFlight(r) \/ ClearInFlight(r)
    PROVE  Watched(r)'
  <1>1. pc'[r] \in {"top"} \cup DyingLabels
    BY LabelIs DEF PollReturns, MultiCallFails, SignalDeath, SwapQueue, DrainQueue, FailPending,
       FailInFlight, ClearInFlight, At, DyingLabels
  <1>2. (UNCHANGED rpc /\ rpc[r] = "idle") \/ pc'[r] \in {"drain", "fail", "failInFlight"}
    BY LabelIs DEF PollReturns, MultiCallFails, SignalDeath, SwapQueue, DrainQueue, FailPending,
       FailInFlight, ClearInFlight, At
  <1> QED
    BY <1>1, <1>2 DEF Watched, PassLabels, DyingLabels

LEMMA NextWatchInv == Typed /\ ReportInv /\ SlotInv /\ WatchInv /\ [Next]_vars => WatchInv'
  <1> SUFFICES ASSUME Typed, ReportInv, SlotInv, WatchInv, [Next]_vars, NEW s \in Reactors
               PROVE  Watched(s)'
    BY DEF WatchInv
  <1>1. CASE Undisturbed(s)
    BY <1>1 DEF WatchInv, Watched, Undisturbed
  <1>2. CASE OwnStep(s)
    BY <1>2, AdmitRetryWatched, AdmitPoppedWatched, LoopTopWatched, EnterPollWatched,
       RequeueForRetryWatched, QuietWatched, DyingWatched DEF OwnStep, LoopStep
  <1> QED
    BY <1>1, <1>2, OthersUndisturbed

\* A reactor that holds retries polls no longer than to the earliest of their deadlines, or
\* for the busy timeout if one of them waits for a resource (poll_timeout_ms()).
THEOREM RetriesAreWatched == Spec => []RetriesNotOverslept
  <1>1. Init => WatchInv
    BY InitWatchInv
  <1>2. Typed /\ ReportInv /\ SlotInv /\ WatchInv /\ [Next]_vars => WatchInv'
    BY NextWatchInv
  <1>3. WatchInv => RetriesNotOverslept
    BY DEF WatchInv, Watched, RetriesNotOverslept
  <1> QED
    BY <1>1, <1>2, <1>3, SlotsInvariant, PTL DEF Spec

-------------------------------------------------------------------------------
(* Attempts start clean.                                                   *)

\* The callback context of t is rewound, and t has an attempt left.
Clean(t) == /\ offset[t] = 0 /\ t \notin overflowed /\ result[t] = "none"
            /\ attempt[t] < MaxAttempts

\* t was never on the wire: it is new, queued, or just popped from the queue.
Fresh(t) == \/ at[t] \in {"new", "queue"}
            \/ at[t] = "hand" /\ by[t] \in Reactors /\ pc[by[t]] \in {"popped", "return"}

CleanInv ==
    /\ \A t \in Transfers : /\ Fresh(t) => Clean(t) /\ t \notin backingOff
                            /\ at[t] = "pending" => Clean(t)
    /\ \A r \in Reactors : pc[r] = "retries" => todo[r] \cap backingOff = {}

LEMMA InitCleanInv == Init => CleanInv
  BY ConstantsAssumption DEF Init, CleanInv, Fresh, Clean

\* Steps that put nothing on a list of things to admit.
LEMMA CleanKept ==
    ASSUME CleanInv, UNCHANGED <<attempt, overflowed, result, offset>>, backingOff' \subseteq backingOff,
           \A t \in Transfers : /\ Fresh(t)' => Fresh(t)
                                /\ at'[t] = "pending" => at[t] = "pending" \/ Fresh(t),
           \A r \in Reactors : pc'[r] = "retries" =>
                pc[r] = "retries" /\ todo'[r] \subseteq todo[r]
    PROVE  CleanInv'
  BY DEF CleanInv, Clean

\* A reactor whose step does not lead to admission has nothing fresh that it had not before.
LEMMA FreshKept ==
    ASSUME NEW r \in Reactors, \A s \in Reactors : s # r => pc'[s] = pc[s],
           pc'[r] \notin {"popped", "return"}, NEW t \in Transfers,
           \/ at'[t] = at[t] /\ by'[t] = by[t]
           \/ at'[t] \in {"inflight", "pending", "gone"}
           \/ at'[t] = "hand" /\ by'[t] = r
    PROVE  Fresh(t)' => Fresh(t)
  BY DEF Fresh

\* The steps of reactor r that leave the list of retries.
LEMMA OthersLabels ==
    ASSUME Typed, ReportInv, NEW r \in Reactors, OwnStep(r)
    PROVE  \A s \in Reactors : s # r => pc'[s] = pc[s] /\ todo'[s] = todo[s]
  BY LoopApart DEF Undisturbed

LEMMA StillClean ==
    ASSUME Typed, ReportInv, CleanInv, NEW r \in Reactors, 
           \/ ReadQueueShare(r) \/ PerformReturns(r) \/ SettleHost(r) \/ StageDeviceCopy(r)
           \/ StageFails(r) \/ EnterPoll(r) \/ PollReturns(r) \/ SignalDeath(r) \/ DrainQueue(r)
           \/ FailInFlight(r) \/ MultiCallFails(r) \/ LoopTop(r)
    PROVE  CleanInv'
  <1>1. OwnStep(r)
    BY DEF OwnStep, LoopStep
  <1>2. UNCHANGED <<xferVars, at, by>>
    BY DEF LoopTop, ReadQueueShare, PerformReturns, SettleHost, StageDeviceCopy, StageFails,
       EnterPoll, PollReturns, SignalDeath, DrainQueue, FailInFlight, MultiCallFails
  <1>3. pc'[r] \notin {"popped", "return"}
    BY LabelIs DEF LoopTop, ReadQueueShare, PerformReturns, SettleHost, StageDeviceCopy,
       StageFails, EnterPoll, PollReturns, SignalDeath, DrainQueue, FailInFlight,
       MultiCallFails, At
  <1>4. \A s \in Reactors : s # r => pc'[s] = pc[s] /\ todo'[s] = todo[s]
    BY <1>1, OthersLabels
  <1>5. \A t \in Transfers : Fresh(t)' => Fresh(t)
    BY <1>2, <1>3, <1>4, FreshKept
  <1>6. CASE LoopTop(r)
    <2>1. pc'[r] = "retries" => todo'[r] \cap backingOff = {}
      BY <1>6, LabelIs DEF LoopTop, NewPass, SetPass, Typed, PassTyped
    <2> QED
      BY <1>2, <1>4, <1>5, <2>1 DEF CleanInv, Clean
  <1>7. CASE ~LoopTop(r)
    <2>1. pc'[r] # "retries"
      BY <1>7, LabelIs DEF ReadQueueShare, PerformReturns, SettleHost, StageDeviceCopy,
         StageFails, EnterPoll, PollReturns, SignalDeath, DrainQueue, FailInFlight,
         MultiCallFails, At
    <2> QED
      BY <1>2, <1>4, <1>5, <2>1, CleanKept
  <1> QED
    BY <1>6, <1>7

LEMMA LeavingClean ==
    ASSUME Typed, ReportInv, CleanInv, NEW r \in Reactors, 
           ReapCompletion(r) \/ SwapQueue(r) \/ FailPending(r) \/ ClearInFlight(r)
    PROVE  CleanInv'
  <1>1. OwnStep(r) /\ UNCHANGED xferVars
    BY DEF OwnStep, LoopStep, ReapCompletion, SwapQueue, FailPending, ClearInFlight
  <1>2. pc'[r] \notin {"popped", "return", "retries"}
    BY LabelIs DEF ReapCompletion, SwapQueue, FailPending, ClearInFlight, At
  <1>3. \A s \in Reactors : s # r => pc'[s] = pc[s] /\ todo'[s] = todo[s]
    BY <1>1, OthersLabels
  <1>4. \A t \in Transfers : \/ at'[t] = at[t] /\ by'[t] = by[t]
                             \/ at'[t] = "gone"
                             \/ at'[t] = "hand" /\ by'[t] = r
    <2>1. ASSUME NEW u \in Transfers, by[u] = r, at' = [at EXCEPT ![u] = "hand"], UNCHANGED by
          PROVE  \A t \in Transfers : \/ at'[t] = at[t] /\ by'[t] = by[t]
                                      \/ at'[t] = "hand" /\ by'[t] = r
      BY <2>1 DEF Typed, TransfersTyped
    <2>2. CASE ReapCompletion(r)
      BY <2>1, <2>2 DEF ReapCompletion, InFlight
    <2>3. CASE FailPending(r)
      BY <2>1, <2>3 DEF FailPending, Pending
    <2>4. CASE SwapQueue(r) \/ ClearInFlight(r)
      BY <2>4 DEF SwapQueue, ClearInFlight
    <2> QED
      BY <2>2, <2>3, <2>4
  <1>5. \A t \in Transfers : Fresh(t)' => Fresh(t)
    BY <1>2, <1>3, <1>4, FreshKept
  <1>6. \A t \in Transfers : at'[t] = "pending" => at[t] = "pending"
    BY <1>4
  <1> QED
    BY <1>1, <1>2, <1>3, <1>5, <1>6, CleanKept

LEMMA TryPopQueuedClean ==
    ASSUME Typed, ReportInv, SlotInv, CleanInv, NEW r \in Reactors, TryPopQueued(r)
    PROVE  CleanInv'
  <1>1. /\ OwnStep(r) /\ UNCHANGED xferVars /\ pc[r] = "pool" /\ rpc[r] = "idle"
        /\ pc'[r] \in {"perform", "popped"}
    BY LabelIs DEF OwnStep, LoopStep, TryPopQueued, At
  <1>2. \A s \in Reactors : s # r => pc'[s] = pc[s] /\ todo'[s] = todo[s]
    BY <1>1, OthersLabels
  <1>3. Hand(r) = {}
    BY <1>1 DEF SlotInv, HandsFew, HandFew
  <1>4. CASE UNCHANGED <<at, by>>
    <2>1. \A t \in Transfers : Fresh(t)' => Fresh(t)
      BY <1>1, <1>2, <1>3, <1>4 DEF Fresh, Hand
    <2> QED
      BY <1>1, <1>2, <1>4, <2>1, CleanKept
  <1>5. CASE ~(UNCHANGED <<at, by>>)
    <2>1. /\ queue # <<>>
          /\ at' = [at EXCEPT ![Head(queue)] = "hand"]
          /\ by' = [by EXCEPT ![Head(queue)] = r]
      BY <1>5 DEF TryPopQueued
    <2>2. Head(queue) \in Transfers /\ at[Head(queue)] = "queue"
      BY <2>1, PoppedQueue DEF ReportInv, QueueHolds, Typed, PoolTyped
    <2>3. /\ \A u \in Transfers : u # Head(queue) => at'[u] = at[u] /\ by'[u] = by[u]
          /\ at'[Head(queue)] = "hand"
      BY <2>1, <2>2 DEF Typed, TransfersTyped
    <2>4. \A t \in Transfers : Fresh(t)' => Fresh(t)
      BY <1>1, <1>2, <1>3, <2>2, <2>3 DEF Fresh, Hand
    <2>5. \A t \in Transfers : at'[t] = "pending" => at[t] = "pending"
      BY <2>3
    <2> QED
      BY <1>1, <1>2, <2>4, <2>5, CleanKept
  <1> QED
    BY <1>4, <1>5

LEMMA ReturnToQueueClean ==
    ASSUME Typed, ReportInv, CleanInv, NEW r \in Reactors, ReturnToQueue(r) PROVE CleanInv'
  <1>1. OwnStep(r) /\ UNCHANGED xferVars /\ pc[r] = "return" /\ pc'[r] = "perform"
    BY LabelIs DEF OwnStep, LoopStep, ReturnToQueue, At
  <1>2. \A s \in Reactors : s # r => pc'[s] = pc[s] /\ todo'[s] = todo[s]
    BY <1>1, OthersLabels
  <1>3. PICK t \in Hand(r) : \/ UNCHANGED <<at, by>>
                             \/ /\ at' = [at EXCEPT ![t] = "queue"]
                                /\ by' = [by EXCEPT ![t] = ReadOf[t]]
    BY DEF ReturnToQueue
  <1>4. t \in Transfers /\ Fresh(t)
    BY <1>1, <1>3 DEF Hand, Fresh
  <1>5. /\ \A u \in Transfers : u # t => at'[u] = at[u] /\ by'[u] = by[u]
        /\ at'[t] \in {"hand", "queue"}
    BY <1>3, <1>4 DEF Typed, TransfersTyped, Hand
  <1>6. \A u \in Transfers : Fresh(u)' => Fresh(u)
    BY <1>1, <1>2, <1>4, <1>5 DEF Fresh
  <1>7. \A u \in Transfers : at'[u] = "pending" => at[u] = "pending"
    BY <1>5
  <1> QED
    BY <1>1, <1>2, <1>6, <1>7, CleanKept

LEMMA AdmissionClean ==
    ASSUME Typed, ReportInv, SlotInv, CleanInv, NEW r \in Reactors, AdmitRetry(r) \/ AdmitPopped(r)
    PROVE  CleanInv'
  <1>1. PICK t \in Transfers :
          /\ (pc[r] = "retries" /\ at[t] = "pending") \/ (pc[r] = "popped" /\ at[t] = "hand")
          /\ by[t] = r
          /\ \/ Admitted(r, t) \/ AdmissionThrows(r, t)
             \/ Refused(r, t)
    <2>1. CASE AdmitRetry(r)
      BY <2>1 DEF AdmitRetry, At, ReportInv, TodoHeld, Pending
    <2>2. CASE AdmitPopped(r)
      BY <2>2 DEF AdmitPopped, At, Hand
    <2> QED
      BY <2>1, <2>2
  <1>2. OwnStep(r) /\ UNCHANGED xferVars
    BY DEF OwnStep, LoopStep, AdmitRetry, AdmitPopped
  <1>3. \A s \in Reactors : s # r => pc'[s] = pc[s] /\ todo'[s] = todo[s]
    BY <1>2, OthersLabels
  <1>4. /\ pc[r] = "retries" => pc'[r] \in {"retries", "signal"} /\ todo'[r] \subseteq todo[r]
        /\ pc[r] = "popped" => pc'[r] \in {"pool", "return", "signal"}
    BY LabelIs DEF AdmitRetry, AdmitPopped, At, AdmissionThrows, Typed, PassTyped
  <1>5. /\ \A u \in Transfers : u # t => at'[u] = at[u] /\ by'[u] = by[u]
        /\ by'[t] = by[t] /\ at'[t] \in {at[t], "inflight", "pending"}
    BY <1>1 DEF Admitted, Refused, AdmissionThrows, Typed, TransfersTyped
  <1>6. \A u \in Transfers : Fresh(u)' => Fresh(u)
    BY <1>1, <1>3, <1>4, <1>5 DEF Fresh
  <1>7. \A u \in Transfers : at'[u] = "pending" => at[u] = "pending" \/ Fresh(u)
    BY <1>1, <1>5 DEF Fresh
  <1> QED
    BY <1>1, <1>2, <1>3, <1>4, <1>6, <1>7, CleanKept

LEMMA SettledClean ==
    ASSUME Typed, ReportInv, SlotInv, CleanInv, NEW r \in Reactors, SettleFailed(r) \/ RequeueForRetry(r)
    PROVE  CleanInv'
  <1>1. PICK t \in Hand(r) :
          /\ \A u \in Transfers : u # t =>
               /\ at'[u] = at[u] /\ offset'[u] = offset[u] /\ attempt'[u] = attempt[u]
               /\ result'[u] = result[u] /\ (u \in overflowed' <=> u \in overflowed)
               /\ (u \in backingOff' <=> u \in backingOff)
          /\ \/ at'[t] = "hand"
             \/ at'[t] = "pending" /\ Clean(t)'
    <2>1. CASE SettleFailed(r)
      BY <2>1 DEF SettleFailed, Typed, TransfersTyped, Hand
    <2>2. CASE RequeueForRetry(r)
      <3>1. PICK t \in Hand(r) :
              /\ ShouldRetry(t)
              /\ attempt' = [attempt EXCEPT ![t] = @ + 1]
              /\ offset' = [offset EXCEPT ![t] = 0]
              /\ overflowed' = overflowed \ {t}
              /\ result' = [result EXCEPT ![t] = "none"]
              /\ backingOff' = backingOff \cup {t}
              /\ at' = [at EXCEPT ![t] = "pending"] \/ UNCHANGED at
        BY <2>2 DEF RequeueForRetry, PushPending, ResetForRetry
      <3>2. t \in Transfers /\ at[t] = "hand"
        BY DEF Hand
      <3>3. Clean(t)'
        BY <3>1, <3>2 DEF Clean, ShouldRetry, Typed, TransfersTyped
      <3>4. /\ \A u \in Transfers : u # t =>
               /\ at'[u] = at[u] /\ offset'[u] = offset[u] /\ attempt'[u] = attempt[u]
               /\ result'[u] = result[u]
            /\ at'[t] \in {"hand", "pending"}
        BY <3>1, <3>2 DEF Typed, TransfersTyped
      <3> QED
        BY <3>1, <3>3, <3>4
    <2> QED
      BY <2>1, <2>2
  <1>2. /\ OwnStep(r) /\ pc[r] = "settle" /\ pc'[r] = "reap" /\ UNCHANGED <<by, todo>>
    BY LabelIs DEF OwnStep, LoopStep, SettleFailed, RequeueForRetry, At
  <1>3. \A s \in Reactors : s # r => pc'[s] = pc[s]
    BY <1>2, OthersLabels
  <1>4. t \in Transfers /\ at[t] = "hand" /\ by[t] = r
    BY DEF Hand
  <1>5. \A u \in Transfers : Fresh(u)' => Fresh(u) /\ u # t
    BY <1>1, <1>2, <1>3, <1>4 DEF Fresh
  <1>6. \A u \in Transfers : u # t /\ Clean(u) => Clean(u)'
    BY <1>1 DEF Clean
  <1>7. \A s \in Reactors : pc'[s] = "retries" => pc[s] = "retries" /\ t \notin todo[s]
    BY <1>2, <1>3, <1>4 DEF ReportInv, TodoHeld, Pending
  <1>8. \A s \in Reactors : pc'[s] = "retries" => todo'[s] \cap backingOff' = {}
    BY <1>1, <1>2, <1>7 DEF CleanInv, Typed, PassTyped
  <1> QED
    BY <1>1, <1>5, <1>6, <1>8 DEF CleanInv

LEMMA ReportClean ==
    ASSUME Typed, ReportInv, CleanInv, NEW th \in Threads, ReportStep(th) PROVE CleanInv'
  <1>1. rpc[th] # "idle" /\ UNCHANGED <<xferVars, pc, todo>>
    BY DEF ReportStep, RecordException, CountDown, Fulfil
  <1>2. \/ EndReport(th)
        \/ UNCHANGED <<at, by>>
    BY DEF ReportStep, RecordException, CountDown, Fulfil
  <1>3. \A u \in Transfers : \/ at'[u] = at[u] /\ by'[u] = by[u]
                             \/ at'[u] = "gone"
    <2>1. CASE EndReport(th)
      BY <1>1, <2>1, Ended, Reported
    <2> QED
      BY <1>2, <2>1
  <1>4. \A u \in Transfers : Fresh(u)' => Fresh(u)
    BY <1>1, <1>3 DEF Fresh
  <1>5. \A u \in Transfers : at'[u] = "pending" => at[u] = "pending"
    BY <1>3
  <1> QED
    BY <1>1, <1>4, <1>5, CleanKept

LEMMA CallerClean ==
    ASSUME Typed, ReportInv, CleanInv, NEW a \in Reads, CallerStep(a) PROVE CleanInv'
  <1>1. UNCHANGED <<xferVars, pc, todo, by>>
    BY DEF CallerStep, SubmitPread, FailSubmitted, WakeAllReactors, Get, SyncAllEvents
  <1>2. CASE UNCHANGED at
    BY <1>1, <1>2, CleanKept DEF Fresh
  <1>3. CASE SubmitPread(a)
    <2>1. \A t \in Transfers : at'[t] = at[t] \/ (at[t] = "new" /\ at'[t] \in {"hand", "queue"})
      BY <1>3 DEF SubmitPread, ReportInv, QueueHolds, SubrangesOf
    <2>2. \A t \in Transfers : Fresh(t)' => Fresh(t)
      BY <1>1, <2>1 DEF Fresh
    <2>3. \A t \in Transfers : at'[t] = "pending" => at[t] = "pending"
      BY <2>1
    <2> QED
      BY <1>1, <2>2, <2>3, CleanKept
  <1> QED
    BY <1>2, <1>3 DEF CallerStep, FailSubmitted, WakeAllReactors, Get, SyncAllEvents

LEMMA OutsideClean ==
    ASSUME Typed, ReportInv, CleanInv,
           \/ \E r \in Reactors, t \in Transfers : WriteCallback(r, t) \/ AttemptEnds(r, t)
           \/ \E t \in Transfers : BackoffElapses(t) \/ CopyCompletes(t)
           \/ UNCHANGED vars
    PROVE  CleanInv'
  <1>1. UNCHANGED <<at, by, pc, todo, attempt>>
    BY DEF WriteCallback, AttemptEnds, BackoffElapses, CopyCompletes, vars
  <1>2. \A t \in Transfers : Fresh(t)' <=> Fresh(t)
    BY <1>1 DEF Fresh
  <1>3. CASE \E r \in Reactors, t \in Transfers : WriteCallback(r, t) \/ AttemptEnds(r, t)
    <2>1. PICK t \in Transfers :
            /\ at[t] = "inflight" /\ UNCHANGED backingOff
            /\ \A u \in Transfers : u # t =>
                 /\ offset'[u] = offset[u] /\ result'[u] = result[u]
                 /\ (u \in overflowed' <=> u \in overflowed)
      BY <1>3 DEF WriteCallback, AttemptEnds, InFlight, Typed, TransfersTyped
    <2>2. ~Fresh(t)
      BY <2>1 DEF Fresh
    <2> QED
      BY <1>1, <1>2, <2>1, <2>2 DEF CleanInv, Clean
  <1>4. CASE (\E t \in Transfers : BackoffElapses(t) \/ CopyCompletes(t)) \/ UNCHANGED vars
    <2>1. UNCHANGED <<overflowed, result, offset>> /\ backingOff' \subseteq backingOff
      BY <1>4 DEF BackoffElapses, CopyCompletes, vars
    <2> QED
      BY <1>1, <1>2, <2>1, CleanKept
  <1> QED
    BY <1>3, <1>4

LEMMA NextCleanInv == Typed /\ ReportInv /\ SlotInv /\ CleanInv /\ [Next]_vars => CleanInv'
  <1> SUFFICES ASSUME Typed, ReportInv, SlotInv, CleanInv, [Next]_vars PROVE CleanInv'
    OBVIOUS
  <1>1. ASSUME NEW r \in Reactors, LoopStep(r) \/ MultiCallFails(r) PROVE CleanInv'
    BY <1>1, StillClean, LeavingClean, TryPopQueuedClean, ReturnToQueueClean, AdmissionClean,
       SettledClean DEF LoopStep
  <1> QED
    BY <1>1, ReportClean, CallerClean, OutsideClean DEF Next

\* Only admission puts a transfer on the wire.
LEMMA OnlyAdmitted ==
    ASSUME Typed, ReportInv, SlotInv, CleanInv, [Next]_vars, NEW t \in Transfers,
           at[t] # "inflight", at'[t] = "inflight"
    PROVE  Clean(t) /\ t \notin backingOff
  <1>1. ASSUME NEW r \in Reactors, AdmitRetry(r) PROVE Clean(t) /\ t \notin backingOff
    <2>1. PICK u \in todo[r] : Admitted(r, u) \/ Refused(r, u) \/ AdmissionThrows(r, u)
      BY <1>1 DEF AdmitRetry
    <2>2. u \in Transfers /\ at[u] = "pending" /\ pc[r] = "retries"
      BY <1>1, <2>1 DEF AdmitRetry, At, ReportInv, TodoHeld, Pending
    <2>3. t = u
      BY <2>1, <2>2 DEF Admitted, Refused, AdmissionThrows, Typed, TransfersTyped
    <2> QED
      BY <2>2, <2>3 DEF CleanInv
  <1>2. ASSUME NEW r \in Reactors, AdmitPopped(r) PROVE Clean(t) /\ t \notin backingOff
    <2>1. PICK u \in Hand(r) : Admitted(r, u) \/ Refused(r, u) \/ AdmissionThrows(r, u)
      BY <1>2 DEF AdmitPopped
    <2>2. u \in Transfers /\ at[u] = "hand" /\ by[u] = r /\ pc[r] = "popped"
      BY <1>2, <2>1 DEF AdmitPopped, At, Hand
    <2>3. t = u
      BY <2>1, <2>2 DEF Admitted, Refused, AdmissionThrows, Typed, TransfersTyped
    <2> QED
      BY <2>2, <2>3 DEF CleanInv, Fresh
  <1>3. ASSUME NEW r \in Reactors, LoopStep(r) \/ MultiCallFails(r), ~AdmitRetry(r), ~AdmitPopped(r)
        PROVE  FALSE
    <2>1. ASSUME UNCHANGED at PROVE FALSE
      BY <2>1
    <2>2. ASSUME NEW u, NEW p, p # "inflight", at' = [at EXCEPT ![u] = p] PROVE FALSE
      BY <2>2 DEF Typed, TransfersTyped
    <2>3. CASE SwapQueue(r) \/ ClearInFlight(r)
      BY <2>3 DEF SwapQueue, ClearInFlight
    <2>4. CASE TryPopQueued(r) \/ ReturnToQueue(r)
      BY <2>1, <2>2, <2>4 DEF TryPopQueued, ReturnToQueue
    <2>5. CASE ReapCompletion(r) \/ RequeueForRetry(r) \/ FailPending(r)
      BY <2>1, <2>2, <2>5 DEF ReapCompletion, RequeueForRetry, PushPending, FailPending
    <2> QED
      BY <1>3, <2>1, <2>3, <2>4, <2>5 DEF LoopStep, LoopTop, ReadQueueShare, PerformReturns,
         SettleHost, StageDeviceCopy, StageFails, SettleFailed, EnterPoll, PollReturns,
         SignalDeath, DrainQueue, FailInFlight, MultiCallFails
  <1>4. ASSUME NEW th \in Threads, ReportStep(th) PROVE FALSE
    <2>1. rpc[th] # "idle" /\ (EndReport(th) \/ UNCHANGED at)
      BY <1>4 DEF ReportStep, RecordException, CountDown, Fulfil
    <2> QED
      BY <2>1, Ended, Reported
  <1>5. ASSUME NEW a \in Reads, CallerStep(a) PROVE FALSE
    BY <1>5 DEF CallerStep, SubmitPread, FailSubmitted, WakeAllReactors, Get, SyncAllEvents
  <1>6. ASSUME \/ \E r \in Reactors, u \in Transfers : WriteCallback(r, u) \/ AttemptEnds(r, u)
               \/ \E u \in Transfers : BackoffElapses(u) \/ CopyCompletes(u)
               \/ UNCHANGED vars
        PROVE  FALSE
    BY <1>6 DEF WriteCallback, AttemptEnds, BackoffElapses, CopyCompletes, vars
  <1> QED
    BY <1>1, <1>2, <1>3, <1>4, <1>5, <1>6 DEF Next

\* No attempt goes on the wire with what an earlier one left in the callback context, before
\* its backoff has elapsed or beyond the policy's attempts (reset_for_retry(), admit_pending()).
THEOREM AttemptsAreClean == Spec => AttemptsStartClean
  <1>1. Init => CleanInv
    BY InitCleanInv
  <1>2. Typed /\ ReportInv /\ SlotInv /\ CleanInv /\ [Next]_vars => CleanInv'
    BY NextCleanInv
  <1>3. Typed /\ ReportInv /\ SlotInv /\ CleanInv /\ [Next]_vars =>
          [\A t \in Transfers : at[t] # "inflight" /\ at'[t] = "inflight" =>
             /\ offset[t] = 0 /\ t \notin overflowed /\ result[t] = "none" /\ t \notin backingOff
             /\ attempt[t] < MaxAttempts]_vars
    BY OnlyAdmitted DEF Clean
  <1> QED
    BY <1>1, <1>2, <1>3, SlotsInvariant, PTL DEF Spec, AttemptsStartClean

-------------------------------------------------------------------------------
(* Device copies.                                                          *)

\* The thread that holds t is in one of the steps ls of a report on t.
Reporting(t, ls) == rt[by[t]] = t /\ rpc[by[t]] \in ls

\* A copy runs for a device transfer whose report has at least begun; if the barrier does not
\* cover it, the report is a failure.
CopyCovered(t) ==
    /\ IsDevice(t)
    /\ told[t] # "open" \/ Reporting(t, {"complete", "failed", "countFailed"})
    /\ t \in recorded \/ told[t] = "failed" \/ Reporting(t, {"failed", "countFailed"})

CopiesCovered == \A t \in copying : CopyCovered(t)

ReadReturns(a) ==
    /\ promise[a] = "value" => a \notin failed
    /\ cpc[a] \in {"sync", "done"} => promise[a] # "pending"
    /\ cpc[a] = "done" /\ promise[a] = "value" => copying \cap SubrangesOf(a) = {}

CopyInv == CopiesCovered /\ \A a \in Reads : ReadReturns(a)

LEMMA InitCopyInv == Init => CopyInv
  BY DEF Init, CopyInv, CopiesCovered, ReadReturns

\* A loop step is taken outside reports, and starts at most one of its own.
LEMMA LoopReports ==
    ASSUME Typed, NEW r \in Reactors, OwnStep(r)
    PROVE  /\ rpc[r] = "idle"
           /\ \A th \in Threads : th # r => rpc'[th] = rpc[th] /\ rt'[th] = rt[th]
  <1>1. rpc[r] = "idle"
    BY DEF OwnStep, LoopStep, LoopTop, AdmitRetry, ReadQueueShare, TryPopQueued,
       AdmitPopped, ReturnToQueue, PerformReturns, ReapCompletion, SettleHost, StageDeviceCopy,
       StageFails, SettleFailed, RequeueForRetry, EnterPoll, PollReturns, SignalDeath, SwapQueue,
       DrainQueue, FailPending, FailInFlight, ClearInFlight, MultiCallFails, At
  <1>2. UNCHANGED <<rpc, rt>> \/ \E t \in Transfers : \E l : Report(r, t, l)
    BY DEF OwnStep, LoopStep, LoopTop, AdmitRetry, ReadQueueShare, TryPopQueued,
       AdmitPopped, ReturnToQueue, PerformReturns, ReapCompletion, SettleHost, StageDeviceCopy,
       StageFails, SettleFailed, RequeueForRetry, EnterPoll, PollReturns, SignalDeath, SwapQueue,
       DrainQueue, FailPending, FailInFlight, ClearInFlight, MultiCallFails, PushPending, Hand,
       Pending, Typed, PassTyped
  <1>3. \A th \in Threads : th # r => rpc'[th] = rpc[th] /\ rt'[th] = rt[th]
    BY <1>2 DEF Report, Typed, ThreadsTyped
  <1> QED
    BY <1>1, <1>3

\* Copies that were covered stay so as long as nothing is counted and their reports go on.
LEMMA StayCovered ==
    ASSUME Typed, ReportInv, CopiesCovered, UNCHANGED told, recorded \subseteq recorded',
           NEW t \in copying,
           told[t] = "open" =>
               by'[t] = by[t] /\ rpc'[by[t]] = rpc[by[t]] /\ rt'[by[t]] = rt[by[t]]
    PROVE  CopyCovered(t)'
  <1>1. CASE told[t] = "open"
    BY <1>1 DEF CopiesCovered, CopyCovered, Reporting, IsDevice
  <1>2. CASE told[t] # "open"
    <2>1. ~Reporting(t, {"failed", "countFailed"})
      BY <1>2 DEF Reporting, ReportInv, ReportsHeld, Typed, TransfersTyped, GatesTyped
    <2> QED
      BY <1>2, <2>1 DEF CopiesCovered, CopyCovered, IsDevice
  <1> QED
    BY <1>1, <1>2

\* A read that is over has no open sub-range.
LEMMA NoneOpen ==
    ASSUME Typed, ReportInv, NEW a \in Reads, promise[a] # "pending", NEW t \in SubrangesOf(a)
    PROVE  told[t] # "open"
  <1>1. Cardinality(OpenOf(a)) = 0
    BY DEF OpenOf, ReportInv, FulfilledByLast, LeftIsOpen
  <1>2. OpenOf(a) = {}
    BY <1>1, OpenIsCounted, FS_EmptySet
  <1> QED
    BY <1>2 DEF OpenOf

\* A read keeps what it returned if no new copy is for it.
LEMMA ReturnsKept ==
    ASSUME CopyInv, UNCHANGED <<promise, failed, cpc>>, NEW a \in Reads,
           \A t \in copying' : t \in copying \/ promise[ReadOf[t]] = "pending"
    PROVE  ReadReturns(a)'
  BY DEF CopyInv, ReadReturns, SubrangesOf

LEMMA LoopCopies ==
    ASSUME Typed, ReportInv, CopyInv, NEW r \in Reactors, OwnStep(r) PROVE CopyInv'
  <1>1. UNCHANGED <<told, promise, failed, cpc>> /\ recorded \subseteq recorded'
    BY DEF OwnStep, LoopStep, LoopTop, AdmitRetry, ReadQueueShare, TryPopQueued,
       AdmitPopped, ReturnToQueue, PerformReturns, ReapCompletion, SettleHost, StageDeviceCopy,
       StageFails, SettleFailed, RequeueForRetry, EnterPoll, PollReturns, SignalDeath, SwapQueue,
       DrainQueue, FailPending, FailInFlight, ClearInFlight, MultiCallFails
  <1>2. ASSUME NEW t \in copying PROVE CopyCovered(t)'
    <2>1. ASSUME told[t] = "open"
          PROVE  by'[t] = by[t] /\ rpc'[by[t]] = rpc[by[t]] /\ rt'[by[t]] = rt[by[t]]
      <3>1. t \in Transfers /\ by[t] \in Threads
        BY DEF Typed, GatesTyped, TransfersTyped
      <3>2. rt[by[t]] = t /\ rpc[by[t]] # "idle"
        BY <2>1 DEF CopyInv, CopiesCovered, CopyCovered, Reporting
      <3>3. at[t] # "queue"
        BY <3>1, <3>2, Reported
      <3>4. by[t] # r
        BY <3>2, LoopReports
      <3>5. by'[t] = by[t]
        BY <3>1, <3>3, <3>4, LoopMoves DEF MovesOwn
      <3> QED
        BY <3>1, <3>4, <3>5, LoopReports
    <2> QED
      BY <1>1, <2>1, StayCovered DEF CopyInv
  <1>3. CASE UNCHANGED copying
    BY <1>1, <1>2, <1>3, ReturnsKept DEF CopyInv, CopiesCovered
  <1>4. CASE ~(UNCHANGED copying)
    <2>1. StageDeviceCopy(r) \/ StageFails(r)
      BY <1>4 DEF OwnStep, LoopStep, LoopTop, AdmitRetry, ReadQueueShare, TryPopQueued,
         AdmitPopped, ReturnToQueue, PerformReturns, ReapCompletion, SettleHost, SettleFailed,
         RequeueForRetry, EnterPoll, PollReturns, SignalDeath, SwapQueue, DrainQueue,
         FailPending, FailInFlight, ClearInFlight, MultiCallFails
    <2>2. PICK t \in Hand(r) :
            /\ IsDevice(t) /\ copying' = copying \cup {t} /\ UNCHANGED by
            /\ \/ Report(r, t, "complete") /\ t \in recorded'
               \/ Report(r, t, "failed")
      BY <1>4, <2>1 DEF StageDeviceCopy, StageFails
    <2>3. t \in Transfers /\ at[t] = "hand" /\ by[t] = r /\ rpc[r] = "idle"
      BY <2>2, LoopReports DEF Hand
    <2>4. CopyCovered(t)'
      BY <2>2, <2>3, ThreadsHas DEF CopyCovered, Reporting, IsDevice, Report, Typed, ThreadsTyped
    <2>5. promise[ReadOf[t]] = "pending"
      BY <2>3, HeldIsOpen, NoneOpen, ReadOfType DEF SubrangesOf
    <2>6. \A a \in Reads : ReadReturns(a)'
      BY <1>1, <2>2, <2>5, ReturnsKept
    <2> QED
      BY <1>2, <2>2, <2>4, <2>6 DEF CopyInv, CopiesCovered
  <1> QED
    BY <1>3, <1>4

LEMMA RecordExceptionCopies ==
    ASSUME Typed, ReportInv, CopyInv, NEW th \in Threads, RecordException(th) PROVE CopyInv'
  <1>1. /\ rpc[th] = "failed" /\ failed' = failed \cup {ReadOf[rt[th]]}
        /\ UNCHANGED <<by, told, promise, cpc, copying, recorded, rt>>
    BY DEF RecordException
  <1>2. rpc'[th] = "countFailed" /\ \A s \in Threads : s # th => rpc'[s] = rpc[s]
    BY DEF RecordException, Typed, ThreadsTyped
  <1>3. CopiesCovered'
    <2> SUFFICES ASSUME NEW t \in copying PROVE CopyCovered(t)'
      BY <1>1 DEF CopiesCovered
    <2>1. by[t] \in Threads
      BY DEF Typed, GatesTyped, TransfersTyped
    <2> QED
      BY <1>1, <1>2, <2>1 DEF CopyInv, CopiesCovered, CopyCovered, Reporting, IsDevice
  <1>4. promise[ReadOf[rt[th]]] = "pending"
    <2>1. rt[th] \in Transfers /\ told[rt[th]] = "open"
      BY <1>1 DEF ReportInv, ReportsHeld
    <2> QED
      BY <2>1, NoneOpen, ReadOfType DEF SubrangesOf
  <1>5. \A a \in Reads : ReadReturns(a)'
    BY <1>1, <1>4 DEF CopyInv, ReadReturns
  <1> QED
    BY <1>3, <1>5 DEF CopyInv

LEMMA CountDownCopies ==
    ASSUME Typed, ReportInv, CopyInv, NEW th \in Threads, CountDown(th) PROVE CopyInv'
  <1> DEFINE t == rt[th]
  <1>1. /\ rpc[th] \in {"complete", "countFailed"}
        /\ told' = [told EXCEPT ![t] = IF rpc[th] = "complete" THEN "ok" ELSE "failed"]
        /\ UNCHANGED <<promise, failed, cpc, copying, recorded>>
        /\ EndReport(th) \/ (UNCHANGED <<rt, at, by>> /\ rpc' = [rpc EXCEPT ![th] = "fulfil"])
    BY DEF CountDown
  <1>2. t \in Transfers /\ by[t] = th /\ told[t] = "open"
    BY <1>1 DEF ReportInv, ReportsHeld
  <1> HIDE DEF t
  <1>3. /\ told'[t] = IF rpc[th] = "complete" THEN "ok" ELSE "failed"
        /\ \A u \in Transfers : u # t => told'[u] = told[u]
    BY <1>1, <1>2 DEF Typed, AggregatesTyped
  <1>4. /\ \A s \in Threads : s # th => rpc'[s] = rpc[s] /\ rt'[s] = rt[s]
        /\ \A u \in Transfers : u # t => by'[u] = by[u]
    <2>1. CASE EndReport(th)
      BY <1>1, <2>1, Ended DEF t
    <2>2. CASE UNCHANGED <<rt, at, by>> /\ rpc' = [rpc EXCEPT ![th] = "fulfil"]
      BY <2>2 DEF Typed, ThreadsTyped
    <2> QED
      BY <1>1, <2>1, <2>2
  <1>5. ASSUME NEW u \in copying PROVE CopyCovered(u)'
    <2>1. u \in Transfers /\ by[u] \in Threads
      BY DEF Typed, GatesTyped, TransfersTyped
    <2>2. CopyCovered(u)
      BY DEF CopyInv, CopiesCovered
    <2>3. CASE u = t
      BY <1>1, <1>2, <1>3, <2>2, <2>3 DEF CopyCovered, Reporting, IsDevice
    <2>4. CASE u # t /\ by[u] # th
      BY <1>1, <1>3, <1>4, <2>1, <2>2, <2>4 DEF CopyCovered, Reporting, IsDevice
    <2>5. CASE u # t /\ by[u] = th
      BY <1>1, <1>3, <2>1, <2>2, <2>5 DEF CopyCovered, Reporting, IsDevice, t
    <2> QED
      BY <2>3, <2>4, <2>5
  <1>6. \A a \in Reads : ReadReturns(a)'
    BY <1>1 DEF CopyInv, ReadReturns
  <1> QED
    BY <1>1, <1>5, <1>6 DEF CopyInv, CopiesCovered

LEMMA FulfilCopies ==
    ASSUME Typed, ReportInv, CopyInv, NEW th \in Threads, Fulfil(th) PROVE CopyInv'
  <1> DEFINE t == rt[th]
  <1>1. /\ rpc[th] = "fulfil" /\ EndReport(th)
        /\ promise' = [promise EXCEPT ![ReadOf[t]] =
                         IF ReadOf[t] \in failed THEN "exception" ELSE "value"]
        /\ UNCHANGED <<told, failed, cpc, copying, recorded>>
    BY DEF Fulfil
  <1>2. t \in Transfers /\ by[t] = th /\ promise[ReadOf[t]] = "pending"
    BY <1>1 DEF ReportInv, ReportsHeld, FulfilledByLast
  <1> HIDE DEF t
  <1>3. /\ \A s \in Threads : s # th => rpc'[s] = rpc[s] /\ rt'[s] = rt[s]
        /\ \A u \in Transfers : u # t => by'[u] = by[u]
    BY <1>1, Ended DEF t
  <1>4. ASSUME NEW u \in copying PROVE CopyCovered(u)'
    <2>1. u \in Transfers /\ by[u] \in Threads
      BY DEF Typed, GatesTyped, TransfersTyped
    <2>2. CopyCovered(u)
      BY DEF CopyInv, CopiesCovered
    <2>3. told[u] = "open" => by[u] # th /\ u # t
      BY <1>1, <1>2, <2>2 DEF CopyCovered, Reporting
    <2> QED
      BY <1>1, <1>3, <2>1, <2>3, StayCovered DEF CopyInv
  <1>5. ASSUME NEW a \in Reads PROVE ReadReturns(a)'
    <2>1. /\ a # ReadOf[t] => promise'[a] = promise[a]
          /\ a = ReadOf[t] => promise'[a] = IF a \in failed THEN "exception" ELSE "value"
      BY <1>1 DEF Typed, AggregatesTyped
    <2>2. a = ReadOf[t] => cpc[a] # "done"
      BY <1>2 DEF CopyInv, ReadReturns
    <2> QED
      BY <1>1, <2>1, <2>2 DEF CopyInv, ReadReturns
  <1> QED
    BY <1>1, <1>4, <1>5 DEF CopyInv, CopiesCovered

\* What a caller that gets a value has waited for.
LEMMA CallerCopies ==
    ASSUME Typed, ReportInv, CopyInv, NEW a \in Reads, CallerStep(a) PROVE CopyInv'
  <1>1. UNCHANGED <<by, told, promise, failed, copying, recorded>>
    BY DEF CallerStep, SubmitPread, FailSubmitted, WakeAllReactors, Get, SyncAllEvents
  <1>2. UNCHANGED <<rpc, rt>> \/ (rpc[a] = "idle" /\ \E t : Report(a, t, "failed"))
    BY DEF CallerStep, SubmitPread, FailSubmitted, WakeAllReactors, Get, SyncAllEvents
  <1>3. \A th \in Threads : rpc[th] # "idle" => rpc'[th] = rpc[th] /\ rt'[th] = rt[th]
    BY <1>2 DEF Report, Typed, ThreadsTyped
  <1>4. ASSUME NEW t \in copying PROVE CopyCovered(t)'
    <2>1. by[t] \in Threads
      BY DEF Typed, GatesTyped, TransfersTyped
    <2>2. told[t] = "open" => rpc[by[t]] # "idle"
      BY DEF CopyInv, CopiesCovered, CopyCovered, Reporting
    <2> QED
      BY <1>1, <1>3, <2>1, <2>2, StayCovered DEF CopyInv
  <1>5. \A b \in Reads : b # a => cpc'[b] = cpc[b]
    BY DEF CallerStep, SubmitPread, FailSubmitted, WakeAllReactors, Get, SyncAllEvents, Typed,
       ThreadsTyped
  <1>6. ReadReturns(a)'
    <2>1. promise[a] = "value" => a \notin failed
      BY DEF CopyInv, ReadReturns
    <2>2. CASE Get(a)
      <3>1. /\ promise[a] # "pending"
            /\ cpc'[a] = IF promise[a] = "value" /\ \E t \in SubrangesOf(a) : IsDevice(t)
                         THEN "sync" ELSE "done"
        BY <2>2 DEF Get, Typed, ThreadsTyped
      <3>2. \A t \in copying : IsDevice(t)
        BY DEF CopyInv, CopiesCovered, CopyCovered
      <3> QED
        BY <1>1, <2>1, <3>1, <3>2 DEF ReadReturns
    <2>3. CASE SyncAllEvents(a)
      <3>1. cpc[a] = "sync" /\ copying \cap recorded \cap SubrangesOf(a) = {}
        BY <2>3 DEF SyncAllEvents
      <3>2. promise[a] # "pending"
        BY <3>1 DEF CopyInv, ReadReturns
      <3>3. ASSUME promise[a] = "value", NEW t \in copying, t \in SubrangesOf(a) PROVE FALSE
        <4>1. told[t] # "open" /\ t \in Transfers /\ ReadOf[t] = a
          BY <3>2, <3>3, NoneOpen DEF SubrangesOf
        <4>2. told[t] # "failed"
          BY <2>1, <3>3, <4>1 DEF ReportInv, FailuresRecorded
        <4>3. ~Reporting(t, {"failed", "countFailed"})
          BY <4>1 DEF Reporting, ReportInv, ReportsHeld, Typed, TransfersTyped
        <4>4. t \in recorded
          BY <4>2, <4>3 DEF CopyInv, CopiesCovered, CopyCovered
        <4> QED
          BY <3>1, <3>3, <4>4
      <3> QED
        BY <1>1, <2>1, <3>2, <3>3 DEF ReadReturns
    <2>4. CASE ~Get(a) /\ ~SyncAllEvents(a)
      <3>1. cpc'[a] \notin {"sync", "done"} \/ cpc'[a] = cpc[a]
        BY <2>4 DEF CallerStep, SubmitPread, FailSubmitted, WakeAllReactors, Typed, ThreadsTyped
      <3> QED
        BY <1>1, <3>1 DEF CopyInv, ReadReturns
    <2> QED
      BY <2>2, <2>3, <2>4
  <1>7. \A b \in Reads : ReadReturns(b)'
    BY <1>1, <1>5, <1>6 DEF CopyInv, ReadReturns
  <1> QED
    BY <1>1, <1>4, <1>7 DEF CopyInv, CopiesCovered

LEMMA OutsideCopies ==
    ASSUME Typed, ReportInv, CopyInv,
           \/ \E r \in Reactors, t \in Transfers : WriteCallback(r, t) \/ AttemptEnds(r, t)
           \/ \E t \in Transfers : BackoffElapses(t) \/ CopyCompletes(t)
           \/ UNCHANGED vars
    PROVE  CopyInv'
  <1>1. /\ UNCHANGED <<by, rpc, rt, told, promise, failed, cpc, recorded>>
        /\ copying' \subseteq copying
    BY DEF WriteCallback, AttemptEnds, BackoffElapses, CopyCompletes, vars
  <1>2. \A t \in copying : CopyCovered(t)'
    BY <1>1, StayCovered DEF CopyInv
  <1> QED
    BY <1>1, <1>2, ReturnsKept DEF CopyInv, CopiesCovered

LEMMA NextCopyInv == Typed /\ ReportInv /\ CopyInv /\ [Next]_vars => CopyInv'
  BY LoopCopies, RecordExceptionCopies, CountDownCopies, FulfilCopies, CallerCopies,
     OutsideCopies DEF Next, OwnStep, ReportStep

\* When pread()'s future yields the value of a device read, no copy of it is running any more:
\* the events of the barrier cover every copy of a read without failures (sync_all_events()).
THEOREM ReturnedReadsAreOnDevice == Spec => []ReturnedDataIsOnDevice
  <1>1. Init => CopyInv
    BY InitCopyInv
  <1>2. Typed /\ ReportInv /\ CopyInv /\ [Next]_vars => CopyInv'
    BY NextCopyInv
  <1>3. CopyInv => ReturnedDataIsOnDevice
    BY DEF CopyInv, ReadReturns, ReturnedDataIsOnDevice
  <1> QED
    BY <1>1, <1>2, <1>3, Invariant, PTL DEF Spec

-------------------------------------------------------------------------------
(* Bounce buffers.                                                         *)

\* A reactor that has met a fatal error and has not yet emptied `_pending`.
PendingDoomed == {"signal", "swap", "drain", "fail"}

\* Where a transfer with a buffer can be: with the reactor whose shard lent it, and never
\* before admission.
BufferPlaced(t) ==
    /\ by[t] \in Reactors /\ t \in lent[by[t]]
    /\ at[t] \in {"inflight", "hand", "pending"}
    /\ at[t] = "hand" => pc[by[t]] \notin {"popped", "return"}
    /\ at[t] = "pending" => pc[by[t]] \in PendingDoomed

LentFor(r, c) == {t \in lent[r] : CtxOf[t] = c}

BufferInv ==
    /\ \A t \in buffered : BufferPlaced(t)
    /\ \A r \in Reactors : \A t \in lent[r] : (t \in buffered /\ by[t] = r) \/ t \in copying
    /\ \A r, s \in Reactors : r # s => lent[r] \cap lent[s] = {}
    /\ Unlimited \/ \A r \in Reactors, c \in Contexts : Cardinality(LentFor(r, c)) <= BufferCap

LEMMA CapIsInt == BufferCap \in Int /\ BufferCap >= 2
  <1>1. MaxConcurrentRequests \div NumReactors \in Int
    BY ConstantsAssumption
  <1> QED
    BY <1>1 DEF BufferCap

LEMMA LentIsCounted ==
    ASSUME Typed, NEW r \in Reactors, NEW c
    PROVE  IsFiniteSet(LentFor(r, c)) /\ Cardinality(LentFor(r, c)) \in Nat
  BY SubsetIsCounted DEF LentFor, Typed, GatesTyped

LEMMA InitBufferInv == Init => BufferInv
  <1> SUFFICES ASSUME Init PROVE BufferInv
    OBVIOUS
  <1>1. \A r \in Reactors, c \in Contexts : LentFor(r, c) = {}
    BY DEF Init, LentFor
  <1>2. \A r \in Reactors, c \in Contexts : Cardinality(LentFor(r, c)) <= BufferCap
    BY <1>1, CapIsInt, FS_EmptySet
  <1> QED
    BY <1>2 DEF Init, BufferInv

\* Steps that lend no buffer.
LEMMA BuffersShrink ==
    ASSUME Typed, BufferInv,
           \A r \in Reactors : lent'[r] \subseteq lent[r],
           \A t \in buffered' : BufferPlaced(t)',
           \A r \in Reactors : \A t \in lent'[r] : (t \in buffered' /\ by'[t] = r) \/ t \in copying'
    PROVE  BufferInv'
  <1>1. ASSUME NEW r \in Reactors, NEW c \in Contexts
        PROVE  Cardinality(LentFor(r, c)') <= Cardinality(LentFor(r, c))
    <2>1. LentFor(r, c)' \subseteq LentFor(r, c)
      BY DEF LentFor
    <2> QED
      BY <2>1, LentIsCounted, FS_Subset
  <1>2. ASSUME NEW r \in Reactors, NEW c \in Contexts
        PROVE  Cardinality(LentFor(r, c)') \in Nat /\ Cardinality(LentFor(r, c)) \in Nat
    <2>1. LentFor(r, c)' \subseteq Transfers
      BY DEF LentFor, Typed, GatesTyped
    <2> QED
      BY <2>1, LentIsCounted, SubsetIsCounted
  <1>3. Unlimited \/ \A r \in Reactors, c \in Contexts : Cardinality(LentFor(r, c)') <= BufferCap
    BY <1>1, <1>2, CapIsInt DEF BufferInv
  <1>4. Unlimited' <=> Unlimited
    BY DEF Unlimited
  <1>5. BufferCap' = BufferCap /\ Contexts' = Contexts
    BY DEF BufferCap, Contexts
  <1> QED
    BY <1>3, <1>4, <1>5 DEF BufferInv

\* Reactor r lends a buffer to t, which nobody else has one for.
LEMMA BufferTaken ==
    ASSUME Typed, BufferInv, NEW r \in Reactors, NEW t \in Transfers, IsDevice(t),
           by[t] = r, UNCHANGED <<by, copying>>, BufferAvailable(r, t),
           buffered' = buffered \cup {t},
           lent' = [lent EXCEPT ![r] = @ \cup {t}],
           \A s \in Reactors : s # r => t \notin lent[s],
           \A u \in buffered' : BufferPlaced(u)'
    PROVE  BufferInv'
  <1>1. lent'[r] = lent[r] \cup {t} /\ \A s \in Reactors : s # r => lent'[s] = lent[s]
    BY DEF Typed, GatesTyped
  <1>2. \A s \in Reactors : \A u \in lent'[s] : (u \in buffered' /\ by'[u] = s) \/ u \in copying'
    BY <1>1 DEF BufferInv
  <1>3. \A p, s \in Reactors : p # s => lent'[p] \cap lent'[s] = {}
    BY <1>1 DEF BufferInv
  <1>4. ASSUME ~Unlimited, NEW s \in Reactors, NEW c \in Contexts
        PROVE  Cardinality(LentFor(s, c)') <= BufferCap
    <2>1. CASE s # r \/ c # CtxOf[t]
      <3>1. LentFor(s, c)' = LentFor(s, c)
        BY <1>1, <2>1 DEF LentFor
      <3> QED
        BY <1>4, <3>1 DEF BufferInv
    <2>2. CASE s = r /\ c = CtxOf[t]
      <3>1. LentFor(r, c)' = LentFor(r, c) \cup {t}
        BY <1>1, <2>2 DEF LentFor
      <3>2. Cardinality(LentFor(r, c)) < BufferCap
        BY <1>4, <2>2 DEF BufferAvailable, LentFor
      <3>3. Cardinality(LentFor(r, c) \cup {t}) =
              IF t \in LentFor(r, c) THEN Cardinality(LentFor(r, c))
              ELSE Cardinality(LentFor(r, c)) + 1
        BY LentIsCounted, FS_AddElement
      <3> QED
        BY <2>2, <3>1, <3>2, <3>3, LentIsCounted, CapIsInt
    <2> QED
      BY <2>1, <2>2
  <1>5. Unlimited' <=> Unlimited
    BY DEF Unlimited
  <1>6. BufferCap' = BufferCap /\ Contexts' = Contexts
    BY DEF BufferCap, Contexts
  <1> QED
    BY <1>2, <1>3, <1>4, <1>5, <1>6 DEF BufferInv

\* What a step of reactor r must see to for the buffers: the labels it leaves.
LEMMA PlacedKept ==
    ASSUME BufferInv, NEW r \in Reactors, \A s \in Reactors : s # r => pc'[s] = pc[s],
           NEW t \in buffered, t \in lent'[by[t]], by'[t] = by[t],
           at'[t] = at[t] \/ at'[t] \in {"inflight", "hand"},
           by[t] = r => /\ at'[t] = "hand" => pc'[r] \notin {"popped", "return"}
                        /\ pc[r] \in PendingDoomed /\ at'[t] = "pending" => pc'[r] \in PendingDoomed,
           at'[t] = at[t] \/ by[t] = r
    PROVE  BufferPlaced(t)'
  BY DEF BufferInv, BufferPlaced

LEMMA QuietBuffers ==
    ASSUME Typed, ReportInv, BufferInv, NEW r \in Reactors,
           \/ LoopTop(r) \/ ReadQueueShare(r) \/ PerformReturns(r) \/ EnterPoll(r)
           \/ PollReturns(r) \/ MultiCallFails(r) \/ SignalDeath(r) \/ DrainQueue(r)
           \/ FailInFlight(r) \/ SettleHost(r) \/ SettleFailed(r)
    PROVE  BufferInv'
  <1>1. OwnStep(r) /\ UNCHANGED <<at, by, buffered, lent, copying>>
    BY DEF OwnStep, LoopStep, LoopTop, ReadQueueShare, PerformReturns, EnterPoll, PollReturns,
       MultiCallFails, SignalDeath, DrainQueue, FailInFlight, SettleHost, SettleFailed
  <1>2. \A s \in Reactors : s # r => pc'[s] = pc[s]
    BY <1>1, OthersLabels
  <1>3. /\ pc'[r] \notin {"popped", "return"}
        /\ pc[r] \in PendingDoomed => pc'[r] \in PendingDoomed
    BY LabelIs DEF LoopTop, ReadQueueShare, PerformReturns, EnterPoll, PollReturns,
       MultiCallFails, SignalDeath, DrainQueue, FailInFlight, SettleHost, SettleFailed, At,
       PendingDoomed
  <1>4. \A t \in buffered : t \in lent[by[t]]
    BY DEF BufferInv, BufferPlaced
  <1>5. \A t \in buffered : BufferPlaced(t)'
    BY <1>1, <1>2, <1>3, <1>4, PlacedKept
  <1> QED
    BY <1>1, <1>5, BuffersShrink DEF BufferInv

LEMMA TryPopQueuedBuffers ==
    ASSUME Typed, ReportInv, SlotInv, BufferInv, NEW r \in Reactors, TryPopQueued(r)
    PROVE  BufferInv'
  <1>1. /\ OwnStep(r) /\ UNCHANGED <<buffered, lent, copying>> /\ pc[r] = "pool"
        /\ rpc[r] = "idle" /\ pc'[r] \in {"perform", "popped"}
    BY LabelIs DEF OwnStep, LoopStep, TryPopQueued, At
  <1>2. \A s \in Reactors : s # r => pc'[s] = pc[s]
    BY <1>1, OthersLabels
  <1>3. Hand(r) = {}
    BY <1>1 DEF SlotInv, HandsFew, HandFew
  <1>4. \A t \in buffered : at'[t] = at[t] /\ by'[t] = by[t]
    <2>1. CASE UNCHANGED <<at, by>>
      BY <2>1
    <2>2. CASE ~(UNCHANGED <<at, by>>)
      <3>1. /\ queue # <<>>
            /\ at' = [at EXCEPT ![Head(queue)] = "hand"]
            /\ by' = [by EXCEPT ![Head(queue)] = r]
        BY <2>2 DEF TryPopQueued
      <3>2. Head(queue) \in Transfers /\ at[Head(queue)] = "queue"
        BY <3>1, PoppedQueue DEF ReportInv, QueueHolds, Typed, PoolTyped
      <3>3. Head(queue) \notin buffered
        BY <3>2 DEF BufferInv, BufferPlaced
      <3> QED
        BY <3>1, <3>2, <3>3 DEF Typed, TransfersTyped, GatesTyped
    <2> QED
      BY <2>1, <2>2
  <1>5. \A t \in buffered : BufferPlaced(t)'
    <2> SUFFICES ASSUME NEW t \in buffered PROVE BufferPlaced(t)'
      OBVIOUS
    <2>1. at[t] = "hand" => by[t] # r
      BY <1>3 DEF Hand, Typed, GatesTyped
    <2>2. pc[r] \notin PendingDoomed
      BY <1>1 DEF PendingDoomed
    <2> QED
      BY <1>1, <1>2, <1>4, <2>1, <2>2 DEF BufferInv, BufferPlaced
  <1> QED
    BY <1>1, <1>4, <1>5, BuffersShrink DEF BufferInv

\* A transfer that waits for admission has no buffer, and no copy of it was ever started.
LEMMA Bufferless ==
    ASSUME Typed, ReportInv, CopyInv, BufferInv, NEW r \in Reactors, NEW t \in Transfers, by[t] = r,
           rpc[r] = "idle",
           (pc[r] = "retries" /\ at[t] = "pending") \/ (pc[r] = "popped" /\ at[t] = "hand")
    PROVE  t \notin buffered /\ t \notin copying /\ \A s \in Reactors : t \notin lent[s]
  <1>1. t \notin buffered
    BY DEF BufferInv, BufferPlaced, PendingDoomed
  <1>2. told[t] = "open"
    BY HeldIsOpen
  <1>3. t \notin copying
    BY <1>2 DEF CopyInv, CopiesCovered, CopyCovered, Reporting
  <1> QED
    BY <1>1, <1>3 DEF BufferInv

LEMMA AdmissionBuffers ==
    ASSUME Typed, ReportInv, CopyInv, BufferInv, NEW r \in Reactors, AdmitRetry(r) \/ AdmitPopped(r)
    PROVE  BufferInv'
  <1>1. PICK t \in Transfers :
          /\ (pc[r] = "retries" /\ at[t] = "pending") \/ (pc[r] = "popped" /\ at[t] = "hand")
          /\ by[t] = r
          /\ \/ Admitted(r, t) /\ pc'[r] \in {"retries", "pool"}
             \/ AdmissionThrows(r, t)
             \/ Refused(r, t) /\ pc'[r] \in {"retries", "return"}
    <2>1. CASE AdmitRetry(r)
      BY <2>1 DEF AdmitRetry, At, ReportInv, TodoHeld, Pending
    <2>2. CASE AdmitPopped(r)
      BY <2>2, LabelIs DEF AdmitPopped, At, Hand
    <2> QED
      BY <2>1, <2>2
  <1>2. OwnStep(r) /\ UNCHANGED copying /\ rpc[r] = "idle"
    BY DEF OwnStep, LoopStep, AdmitRetry, AdmitPopped, At
  <1>3. \A s \in Reactors : s # r => pc'[s] = pc[s]
    BY <1>2, OthersLabels
  <1>4. t \notin buffered /\ t \notin copying /\ \A s \in Reactors : t \notin lent[s]
    BY <1>1, <1>2, Bufferless
  <1>5. /\ \A u \in Transfers : u # t => at'[u] = at[u]
        /\ UNCHANGED by
    BY <1>1 DEF Admitted, Refused, AdmissionThrows, Typed, TransfersTyped
  <1>6. ASSUME NEW u \in buffered, \A s \in Reactors : lent[s] \subseteq lent'[s]
        PROVE  BufferPlaced(u)'
    <2>1. u # t /\ u \in Transfers /\ at'[u] = at[u]
      BY <1>4, <1>5 DEF Typed, GatesTyped
    <2>2. BufferPlaced(u)
      BY DEF BufferInv
    <2>3. by[u] = r => at[u] = "inflight" \/ (at[u] = "hand" /\ pc[r] = "retries")
      BY <1>1, <2>2 DEF BufferPlaced, PendingDoomed
    <2>4. pc[r] = "retries" => pc'[r] \in {"retries", "signal"}
      BY LabelIs DEF AdmitRetry, AdmitPopped, At, AdmissionThrows
    <2> QED
      BY <1>3, <1>5, <1>6, <2>1, <2>2, <2>3, <2>4 DEF BufferPlaced
  <1>7. CASE UNCHANGED <<buffered, lent>>
    BY <1>2, <1>5, <1>6, <1>7, BuffersShrink DEF BufferInv
  <1>8. CASE ~(UNCHANGED <<buffered, lent>>)
    <2>1. /\ IsDevice(t) /\ BufferAvailable(r, t)
          /\ buffered' = buffered \cup {t}
          /\ lent' = [lent EXCEPT ![r] = @ \cup {t}]
          /\ (at'[t] = "inflight") \/ (at'[t] = "pending" /\ pc'[r] = "signal")
      BY <1>1, <1>8, LabelIs DEF Admitted, Refused, AdmissionThrows, TakeBuffer, BufferRefused,
         Typed, TransfersTyped
    <2>2. lent'[r] = lent[r] \cup {t} /\ \A s \in Reactors : s # r => lent'[s] = lent[s]
      BY <2>1 DEF Typed, GatesTyped
    <2>3. BufferPlaced(t)'
      BY <1>1, <1>5, <2>1, <2>2 DEF BufferPlaced, PendingDoomed
    <2>4. \A u \in buffered' : BufferPlaced(u)'
      BY <1>6, <2>1, <2>2, <2>3
    <2> QED
      BY <1>1, <1>2, <1>4, <1>5, <2>1, <2>4, BufferTaken
  <1> QED
    BY <1>7, <1>8

LEMMA MovedBuffers ==
    ASSUME Typed, ReportInv, SlotInv, BufferInv, NEW r \in Reactors,
           ReturnToQueue(r) \/ ReapCompletion(r) \/ SwapQueue(r) \/ FailPending(r)
    PROVE  BufferInv'
  <1>1. OwnStep(r) /\ UNCHANGED <<buffered, lent, copying>>
    BY DEF OwnStep, LoopStep, ReturnToQueue, ReapCompletion, SwapQueue, FailPending
  <1>2. \A s \in Reactors : s # r => pc'[s] = pc[s]
    BY <1>1, OthersLabels
  <1>3. pc'[r] \in {"perform", "settle", "drain", "fail", "failInFlight"}
    BY LabelIs DEF ReturnToQueue, ReapCompletion, SwapQueue, FailPending, At
  <1>4. ASSUME NEW t \in buffered
        PROVE  /\ by'[t] = by[t]
               /\ at'[t] = at[t] \/ (at'[t] = "hand" /\ by[t] = r)
    <2>1. t \in Transfers /\ BufferPlaced(t)
      BY DEF BufferInv, Typed, GatesTyped
    <2>2. CASE ReturnToQueue(r)
      <3>1. PICK u \in Hand(r) : \/ UNCHANGED <<at, by>>
                                 \/ /\ at' = [at EXCEPT ![u] = "queue"]
                                    /\ by' = [by EXCEPT ![u] = ReadOf[u]]
        BY <2>2 DEF ReturnToQueue
      <3>2. u # t
        BY <2>1, <2>2 DEF BufferPlaced, Hand, ReturnToQueue, At
      <3> QED
        BY <2>1, <3>1, <3>2 DEF Typed, TransfersTyped
    <2>3. CASE ReapCompletion(r)
      BY <2>1, <2>3 DEF ReapCompletion, InFlight, Typed, TransfersTyped
    <2>4. CASE SwapQueue(r)
      BY <2>1, <2>4 DEF SwapQueue, BufferPlaced
    <2>5. CASE FailPending(r)
      BY <2>1, <2>5 DEF FailPending, Pending, Typed, TransfersTyped
    <2> QED
      BY <2>2, <2>3, <2>4, <2>5
  <1>5. ASSUME NEW t \in buffered, by[t] = r, pc[r] \in PendingDoomed, at'[t] = "pending"
        PROVE  pc'[r] \in PendingDoomed
    <2>1. CASE SwapQueue(r)
      BY <2>1, LabelIs DEF SwapQueue, PendingDoomed
    <2>2. CASE FailPending(r)
      <3>1. at[t] = "pending" /\ t \in Transfers
        BY <1>4, <1>5 DEF Typed, GatesTyped
      <3> QED
        BY <1>5, <2>2, <3>1 DEF FailPending, Pending
    <2> QED
      BY <1>5, <2>1, <2>2 DEF ReturnToQueue, ReapCompletion, At, PendingDoomed
  <1>6. ASSUME NEW t \in buffered PROVE BufferPlaced(t)'
    <2>1. t \in lent[by[t]]
      BY DEF BufferInv, BufferPlaced
    <2> QED
      BY <1>1, <1>2, <1>3, <1>4, <1>5, <2>1, PlacedKept
  <1>7. \A s \in Reactors : \A t \in lent[s] : (t \in buffered /\ by'[t] = s) \/ t \in copying
    BY <1>4 DEF BufferInv
  <1> QED
    BY <1>1, <1>6, <1>7, BuffersShrink

LEMMA SettledBuffers ==
    ASSUME Typed, ReportInv, BufferInv, NEW r \in Reactors,
           StageDeviceCopy(r) \/ StageFails(r) \/ RequeueForRetry(r)
    PROVE  BufferInv'
  <1>1. OwnStep(r) /\ pc[r] = "settle" /\ pc'[r] = "reap" /\ UNCHANGED by
    BY LabelIs DEF OwnStep, LoopStep, StageDeviceCopy, StageFails, RequeueForRetry, At
  <1>2. \A s \in Reactors : s # r => pc'[s] = pc[s]
    BY <1>1, OthersLabels
  <1>3. PICK t \in Hand(r) :
          /\ \A u \in Transfers : u # t => at'[u] = at[u]
          /\ \/ UNCHANGED <<buffered, lent, at>> /\ copying \subseteq copying'
             \/ buffered' = buffered \ {t} /\ UNCHANGED lent /\ copying' = copying \cup {t}
             \/ /\ buffered' = buffered \ {t} /\ lent' = [lent EXCEPT ![r] = @ \ {t}]
                /\ copying \subseteq copying'
    <2>1. CASE StageDeviceCopy(r)
      BY <2>1 DEF StageDeviceCopy
    <2>2. CASE StageFails(r)
      BY <2>2 DEF StageFails
    <2>3. CASE RequeueForRetry(r)
      BY <2>3 DEF RequeueForRetry, PushPending, Typed, TransfersTyped
    <2> QED
      BY <2>1, <2>2, <2>3
  <1>4. t \in Transfers /\ at[t] = "hand" /\ by[t] = r
    BY DEF Hand
  <1>5. /\ \A s \in Reactors : lent'[s] = lent[s] \/ lent'[s] = lent[s] \ {t}
        /\ lent' # lent => lent'[r] = lent[r] \ {t} /\ \A s \in Reactors : s # r => lent'[s] = lent[s]
    BY <1>3 DEF Typed, GatesTyped
  <1>6. ASSUME NEW u \in buffered' PROVE BufferPlaced(u)'
    <2>1. u \in buffered /\ u \in Transfers /\ u \in lent'[by[u]]
      BY <1>3, <1>5 DEF BufferInv, BufferPlaced, Typed, GatesTyped
    <2>2. at'[u] = at[u]
      BY <1>3, <2>1
    <2>3. pc[r] \notin PendingDoomed
      BY <1>1 DEF PendingDoomed
    <2> QED
      BY <1>1, <1>2, <2>1, <2>2, <2>3, PlacedKept
  <1>7. \A s \in Reactors : \A u \in lent'[s] : (u \in buffered' /\ by[u] = s) \/ u \in copying'
    <2> SUFFICES ASSUME NEW s \in Reactors, NEW u \in lent'[s]
                 PROVE  (u \in buffered' /\ by[u] = s) \/ u \in copying'
      OBVIOUS
    <2>1. u \in lent[s]
      BY <1>5
    <2>2. (u \in buffered /\ by[u] = s) \/ u \in copying
      BY <2>1 DEF BufferInv
    <2>3. copying \subseteq copying' /\ (buffered' = buffered \/ buffered' = buffered \ {t})
      BY <1>3
    <2>4. buffered' = buffered \/ t \in copying' \/ t \notin lent'[r]
      BY <1>3 DEF Typed, GatesTyped
    <2> QED
      BY <1>4, <2>2, <2>3, <2>4
  <1> QED
    BY <1>1, <1>5, <1>6, <1>7, BuffersShrink

LEMMA ClearInFlightBuffers ==
    ASSUME Typed, ReportInv, BufferInv, NEW r \in Reactors, ClearInFlight(r) PROVE BufferInv'
  <1>1. /\ OwnStep(r) /\ pc[r] = "failInFlight" /\ pc'[r] = "exited" /\ UNCHANGED copying
        /\ buffered' = buffered \ InFlight(r)
        /\ lent' = [lent EXCEPT ![r] = @ \ (buffered \cap InFlight(r))]
        /\ \A t \in Transfers : t \notin InFlight(r) => at'[t] = at[t] /\ by'[t] = by[t]
    BY LabelIs DEF OwnStep, LoopStep, ClearInFlight, At
  <1>2. \A s \in Reactors : s # r => pc'[s] = pc[s]
    BY <1>1, OthersLabels
  <1>3. /\ lent'[r] = lent[r] \ (buffered \cap InFlight(r))
        /\ \A s \in Reactors : s # r => lent'[s] = lent[s]
    BY <1>1 DEF Typed, GatesTyped
  <1>4. ASSUME NEW t \in buffered' PROVE BufferPlaced(t)'
    <2>1. t \in buffered /\ t \in Transfers /\ t \notin InFlight(r)
      BY <1>1 DEF Typed, GatesTyped
    <2>2. at'[t] = at[t] /\ by'[t] = by[t] /\ t \in lent[by[t]] /\ by[t] \in Reactors
      BY <1>1, <2>1 DEF BufferInv, BufferPlaced
    <2>3. t \in lent'[by[t]]
      BY <1>3, <2>1, <2>2
    <2>4. pc[r] \notin PendingDoomed
      BY <1>1 DEF PendingDoomed
    <2> QED
      BY <1>1, <1>2, <2>1, <2>2, <2>3, <2>4, PlacedKept
  <1>5. ASSUME NEW s \in Reactors, NEW u \in lent'[s]
        PROVE  (u \in buffered' /\ by'[u] = s) \/ u \in copying
    <2>1. u \in lent[s] /\ u \in Transfers
      BY <1>3 DEF Typed, GatesTyped
    <2>2. (u \in buffered /\ by[u] = s) \/ u \in copying
      BY <2>1 DEF BufferInv
    <2>3. CASE u \in InFlight(r)
      BY <1>3, <1>5, <2>2, <2>3 DEF InFlight
    <2>4. CASE u \notin InFlight(r)
      BY <1>1, <2>1, <2>2, <2>4
    <2> QED
      BY <2>3, <2>4
  <1> QED
    BY <1>1, <1>3, <1>4, <1>5, BuffersShrink

LEMMA ReportBuffers ==
    ASSUME Typed, ReportInv, BufferInv, NEW th \in Threads, ReportStep(th) PROVE BufferInv'
  <1>1. rpc[th] # "idle" /\ UNCHANGED <<pc, copying>>
    BY DEF ReportStep, RecordException, CountDown, Fulfil
  <1>2. EndReport(th) \/ UNCHANGED <<at, by, buffered, lent>>
    BY DEF ReportStep, RecordException, CountDown, Fulfil
  <1>3. CASE UNCHANGED <<at, by, buffered, lent>>
    BY <1>1, <1>3, BuffersShrink DEF BufferInv, BufferPlaced
  <1>4. CASE EndReport(th) /\ ~(UNCHANGED <<at, by, buffered, lent>>)
    <2> DEFINE t == rt[th]
    <2>1. /\ buffered' = buffered \ {t}
          /\ lent' = IF t \in buffered THEN [r \in Reactors |-> lent[r] \ {t}] ELSE lent
      BY <1>4 DEF EndReport, Destroy
    <2>2. /\ \A u \in Transfers : u # t => at'[u] = at[u] /\ by'[u] = by[u]
      BY <1>1, <1>4, Ended
    <2> HIDE DEF t
    <2>3. \A r \in Reactors : lent'[r] = IF t \in buffered THEN lent[r] \ {t} ELSE lent[r]
      BY <2>1
    <2>4. ASSUME NEW u \in buffered' PROVE BufferPlaced(u)'
      <3>1. u \in buffered /\ u # t /\ at'[u] = at[u] /\ by'[u] = by[u]
        BY <2>1, <2>2 DEF Typed, GatesTyped
      <3>2. BufferPlaced(u)
        BY <3>1 DEF BufferInv
      <3>3. u \in lent'[by[u]]
        BY <2>3, <3>1, <3>2 DEF BufferPlaced
      <3> QED
        BY <1>1, <3>1, <3>2, <3>3 DEF BufferPlaced
    <2>5. ASSUME NEW s \in Reactors, NEW u \in lent'[s]
          PROVE  (u \in buffered' /\ by'[u] = s) \/ u \in copying
      <3>1. u \in lent[s] /\ u \in Transfers /\ (t \in buffered => u # t)
        BY <2>3 DEF Typed, GatesTyped
      <3>2. (u \in buffered /\ by[u] = s) \/ u \in copying
        BY <3>1 DEF BufferInv
      <3> QED
        BY <2>1, <2>2, <3>1, <3>2
    <2> QED
      BY <1>1, <2>3, <2>4, <2>5, BuffersShrink
  <1> QED
    BY <1>2, <1>3, <1>4

LEMMA CallerBuffers ==
    ASSUME Typed, ReportInv, BufferInv, NEW a \in Reads, CallerStep(a) PROVE BufferInv'
  <1>1. UNCHANGED <<by, pc, buffered, lent, copying>>
    BY DEF CallerStep, SubmitPread, FailSubmitted, WakeAllReactors, Get, SyncAllEvents
  <1>2. \A t \in buffered : at'[t] = at[t]
    <2>1. CASE SubmitPread(a)
      <3>1. \A t \in Transfers : ReadOf[t] = a => at[t] = "new"
        BY <2>1 DEF SubmitPread, ReportInv, QueueHolds, SubrangesOf
      <3> QED
        BY <2>1, <3>1 DEF SubmitPread, BufferInv, BufferPlaced, Typed, GatesTyped
    <2> QED
      BY <2>1 DEF CallerStep, FailSubmitted, WakeAllReactors, Get, SyncAllEvents
  <1> QED
    BY <1>1, <1>2, BuffersShrink DEF BufferInv, BufferPlaced

LEMMA OutsideBuffers ==
    ASSUME Typed, ReportInv, BufferInv,
           \/ \E r \in Reactors, t \in Transfers : WriteCallback(r, t) \/ AttemptEnds(r, t)
           \/ \E t \in Transfers : BackoffElapses(t) \/ CopyCompletes(t)
           \/ UNCHANGED vars
    PROVE  BufferInv'
  <1>1. UNCHANGED <<at, by, pc, buffered>>
    BY DEF WriteCallback, AttemptEnds, BackoffElapses, CopyCompletes, vars
  <1>2. CASE UNCHANGED <<lent, copying>>
    BY <1>1, <1>2, BuffersShrink DEF BufferInv, BufferPlaced
  <1>3. CASE ~(UNCHANGED <<lent, copying>>)
    <2>1. PICK t \in Transfers : CopyCompletes(t)
      BY <1>3 DEF WriteCallback, AttemptEnds, BackoffElapses, vars
    <2>2. /\ copying' = copying \ {t}
          /\ \A r \in Reactors : lent'[r] = IF t \in buffered THEN lent[r] ELSE lent[r] \ {t}
      BY <2>1 DEF CopyCompletes
    <2>3. ASSUME NEW u \in buffered PROVE BufferPlaced(u)'
      <3>1. BufferPlaced(u)
        BY DEF BufferInv
      <3>2. u \in lent'[by[u]]
        BY <2>2, <3>1 DEF BufferPlaced
      <3> QED
        BY <1>1, <3>1, <3>2 DEF BufferPlaced
    <2>4. ASSUME NEW s \in Reactors, NEW u \in lent'[s]
          PROVE  (u \in buffered' /\ by'[u] = s) \/ u \in copying'
      <3>1. u \in lent[s]
        BY <2>2
      <3>2. CASE u \in buffered
        <4>1. by[u] \in Reactors /\ u \in lent[by[u]]
          BY <3>2 DEF BufferInv, BufferPlaced
        <4>2. by[u] = s
          BY <3>1, <4>1 DEF BufferInv
        <4> QED
          BY <1>1, <3>2, <4>2
      <3>3. CASE u \notin buffered
        <4>1. u # t \/ t \in buffered
          BY <2>2
        <4> QED
          BY <2>2, <3>1, <3>3, <4>1 DEF BufferInv
      <3> QED
        BY <3>2, <3>3
    <2> QED
      BY <1>1, <2>2, <2>3, <2>4, BuffersShrink
  <1> QED
    BY <1>2, <1>3

LEMMA NextBufferInv ==
    Typed /\ ReportInv /\ SlotInv /\ CopyInv /\ BufferInv /\ [Next]_vars => BufferInv'
  <1> SUFFICES ASSUME Typed, ReportInv, SlotInv, CopyInv, BufferInv, [Next]_vars PROVE BufferInv'
    OBVIOUS
  <1>1. ASSUME NEW r \in Reactors, LoopStep(r) \/ MultiCallFails(r) PROVE BufferInv'
    BY <1>1, QuietBuffers, TryPopQueuedBuffers, AdmissionBuffers, MovedBuffers, SettledBuffers,
       ClearInFlightBuffers DEF LoopStep
  <1> QED
    BY <1>1, ReportBuffers, CallerBuffers, OutsideBuffers DEF Next

LEMMA BufferInvariant == Spec => [](Typed /\ ReportInv /\ SlotInv /\ CopyInv /\ BufferInv)
  <1>1. Init => CopyInv /\ BufferInv
    BY InitCopyInv, InitBufferInv
  <1>2. Typed /\ ReportInv /\ SlotInv /\ CopyInv /\ BufferInv /\ [Next]_vars
          => CopyInv' /\ BufferInv'
    BY NextCopyInv, NextBufferInv
  <1> QED
    BY <1>1, <1>2, SlotsInvariant, PTL DEF Spec

\* A bounce buffer is lent by one reactor's shard exactly as long as a transfer of that reactor
\* or a running copy uses it, and no shard lends more than its cap, through admission, retries,
\* staging, every failure of a CUDA call and pool death (bounce_buffer_cache.cpp).
THEOREM BuffersAreConserved == Spec => []BuffersConserved
  <1>1. Typed /\ BufferInv => BuffersConserved
    <2> SUFFICES ASSUME Typed, BufferInv PROVE BuffersConserved
      OBVIOUS
    <2>1. ASSUME NEW r \in Reactors
          PROVE  lent[r] = {t \in Transfers : t \in buffered /\ by[t] = r}
                             \cup {t \in lent[r] : t \in copying}
      BY DEF BufferInv, BufferPlaced, Typed, GatesTyped
    <2> QED
      BY <2>1 DEF BuffersConserved, BufferInv, LentFor
  <1> QED
    BY <1>1, BufferInvariant, PTL

-------------------------------------------------------------------------------
(* Work in the queue.                                                      *)

\* Something ends the sleep of reactor r before its timeout: a wakeup, a transfer on the wire,
\* or a copy whose callback returns the buffer to r's shard.
Stirred(r) == r \in woken \/ InFlight(r) # {} \/ copying \cap lent[r] # {}

\* What a reactor r knows when it goes to sleep: whatever it was refused is in use, by
\* something that stirs it, or was in use by a transfer that completed in this pass.
Rested(r) ==
    /\ pc[r] = "settle" => r \in completed
    /\ pc[r] = "poll" => r \notin completed
    /\ pc[r] \in PassLabels /\ r \in deferred => r \in completed \/ Stirred(r)
    /\ exhausted[r] # {} => r \in deferred
    /\ \A t \in buffered \cap copying : by[t] = r => r \in completed \/ pc[r] \in DyingLabels
    /\ ~dead => pc[r] \notin DyingLabels \ {"signal"}

QueueServed ==
    /\ dead /\ queue # <<>> => \E r \in Reactors : pc[r] = "swap"
    /\ ~dead /\ queue # <<>> => \/ \E a \in Reads : cpc[a] = "wake"
                                \/ \E r \in Reactors : ~FastAsleep(r)

RestInv == QueueServed /\ \A r \in Reactors : Rested(r)

LEMMA InitRestInv == Init => RestInv
  BY DEF Init, RestInv, QueueServed, Rested, PassLabels, DyingLabels

\* Where the steps of a reactor lead.
LEMMA LabelsLed ==
    ASSUME Typed, NEW r \in Reactors, OwnStep(r)
    PROVE  /\ pc'[r] = "poll" => EnterPoll(r)
           /\ pc'[r] = "settle" => ReapCompletion(r)
           /\ pc[r] \in DyingLabels => pc'[r] \in DyingLabels
           /\ pc'[r] \in DyingLabels \ {"signal"} => dead' \/ pc[r] \in DyingLabels \ {"signal"}
           /\ pc[r] = "swap" => SwapQueue(r)
  <1>1. CASE \/ LoopTop(r) \/ ReadQueueShare(r) \/ TryPopQueued(r) \/ PerformReturns(r)
             \/ ReapCompletion(r) \/ SettleHost(r) \/ StageDeviceCopy(r) \/ StageFails(r)
             \/ SettleFailed(r) \/ RequeueForRetry(r) \/ ReturnToQueue(r)
    BY <1>1, LabelIs DEF LoopTop, ReadQueueShare, TryPopQueued, PerformReturns, ReapCompletion,
       SettleHost, StageDeviceCopy, StageFails, SettleFailed, RequeueForRetry, ReturnToQueue, At,
       DyingLabels
  <1>2. CASE AdmitRetry(r) \/ AdmitPopped(r)
    BY <1>2, LabelIs DEF AdmitRetry, AdmitPopped, AdmissionThrows, At, DyingLabels
  <1>3. CASE \/ EnterPoll(r) \/ PollReturns(r) \/ SignalDeath(r) \/ SwapQueue(r) \/ DrainQueue(r)
             \/ FailPending(r) \/ FailInFlight(r) \/ ClearInFlight(r) \/ MultiCallFails(r)
    BY <1>3, LabelIs DEF EnterPoll, PollReturns, SignalDeath, SwapQueue, DrainQueue, FailPending,
       FailInFlight, ClearInFlight, MultiCallFails, At, DyingLabels
  <1> QED
    BY <1>1, <1>2, <1>3 DEF OwnStep, LoopStep

\* A pass forgets that something completed, or was refused, only when it is over.
LEMMA PassRemembers ==
    ASSUME Typed, NEW r \in Reactors, OwnStep(r)
    PROVE  /\ LoopTop(r) \/ EnterPoll(r) \/ SignalDeath(r) \/ (completed \subseteq completed')
           /\ \/ LoopTop(r) \/ EnterPoll(r) \/ SignalDeath(r) \/ UNCHANGED <<deferred, exhausted>>
              \/ \E t \in Transfers : Refused(r, t)
              \/ TryPopQueued(r) /\ UNCHANGED exhausted /\ deferred' = deferred \cup {r}
  BY DEF OwnStep, LoopStep, AdmitRetry, ReadQueueShare, TryPopQueued, AdmitPopped, ReturnToQueue,
     PerformReturns, ReapCompletion, SettleHost, StageDeviceCopy, StageFails, SettleFailed,
     RequeueForRetry, PollReturns, SwapQueue, DrainQueue, FailPending, FailInFlight,
     ClearInFlight, MultiCallFails, Refused, Hand, Typed, PassTyped

\* The copy of a buffer that is still the transfer's own is one whose staging failed.
LEMMA OwnCopies ==
    ASSUME BufferInv, RestInv, NEW r \in Reactors, NEW u \in copying \cap lent[r], u \in buffered
    PROVE  r \in completed \/ pc[r] \in DyingLabels
  <1>1. by[u] \in Reactors /\ u \in lent[by[u]]
    BY DEF BufferInv, BufferPlaced
  <1>2. by[u] = r
    BY <1>1 DEF BufferInv
  <1> QED
    BY <1>2 DEF RestInv, Rested

\* A copy that counts against r's shard stirs r until it is done, or its end is known.
LEMMA CopiesStir ==
    ASSUME Typed, ReportInv, BufferInv, RestInv, [Next]_vars, NEW r \in Reactors,
           NEW u \in copying \cap lent[r]
    PROVE  \/ u \in copying' \cap lent'[r]
           \/ r \in woken' \/ r \in completed' \/ pc'[r] \in DyingLabels
  <1>1. u \in buffered => r \in completed \/ pc[r] \in DyingLabels
    BY OwnCopies
  <1>2. ASSUME NEW s \in Reactors, OwnStep(s)
        PROVE  u \in copying' \cap lent'[r] \/ r \in completed' \/ pc'[r] \in DyingLabels
    <2>1. copying \subseteq copying'
      BY <1>2 DEF OwnStep, LoopStep, LoopTop, AdmitRetry, ReadQueueShare, TryPopQueued,
         AdmitPopped, ReturnToQueue, PerformReturns, ReapCompletion, SettleHost, StageDeviceCopy,
         StageFails, SettleFailed, RequeueForRetry, EnterPoll, PollReturns, SignalDeath, SwapQueue,
         DrainQueue, FailPending, FailInFlight, ClearInFlight, MultiCallFails
    <2>2. CASE StageFails(s) \/ RequeueForRetry(s)
      <3>1. /\ pc[s] = "settle" /\ UNCHANGED completed
            /\ lent' = lent \/ \E t : lent' = [lent EXCEPT ![s] = @ \ {t}]
        BY <2>2 DEF StageFails, RequeueForRetry, At
      <3>2. s # r => lent'[r] = lent[r]
        BY <3>1 DEF Typed, GatesTyped
      <3>3. s = r => r \in completed'
        BY <3>1 DEF RestInv, Rested
      <3> QED
        BY <2>1, <3>2, <3>3
    <2>3. CASE ClearInFlight(s)
      <3>1. /\ s # r => lent'[r] = lent[r]
            /\ pc'[s] = "exited"
        BY <2>3, LabelIs DEF ClearInFlight, Typed, GatesTyped
      <3> QED
        BY <2>1, <3>1 DEF DyingLabels
    <2>4. CASE ~(StageFails(s) \/ RequeueForRetry(s) \/ ClearInFlight(s))
      <3>1. UNCHANGED lent \/ \E t : lent' = [lent EXCEPT ![s] = @ \cup {t}]
        BY <1>2, <2>4 DEF OwnStep, LoopStep, LoopTop, AdmitRetry, ReadQueueShare, TryPopQueued,
           AdmitPopped, ReturnToQueue, PerformReturns, ReapCompletion, SettleHost,
           StageDeviceCopy, SettleFailed, EnterPoll, PollReturns, SignalDeath, SwapQueue,
           DrainQueue, FailPending, FailInFlight, MultiCallFails, Admitted, Refused,
           AdmissionThrows, TakeBuffer
      <3>2. lent[r] \subseteq lent'[r]
        BY <3>1 DEF Typed, GatesTyped
      <3> QED
        BY <2>1, <3>2
    <2> QED
      BY <2>2, <2>3, <2>4
  <1>3. ASSUME NEW th \in Threads, ReportStep(th)
        PROVE  u \in copying' \cap lent'[r] \/ r \in completed' \/ pc'[r] \in DyingLabels
    <2>1. UNCHANGED <<copying, completed, pc>>
      BY <1>3 DEF ReportStep, RecordException, CountDown, Fulfil
    <2>2. lent' = lent \/ \E t \in buffered : lent' = [s \in Reactors |-> lent[s] \ {t}]
      BY <1>3 DEF ReportStep, RecordException, CountDown, Fulfil, EndReport, Destroy
    <2>3. u \in lent'[r] \/ u \in buffered
      BY <2>2
    <2> QED
      BY <1>1, <2>1, <2>3
  <1>4. ASSUME NEW a \in Reads, CallerStep(a) PROVE UNCHANGED <<copying, lent>>
    BY <1>4 DEF CallerStep, SubmitPread, FailSubmitted, WakeAllReactors, Get, SyncAllEvents
  <1>5. ASSUME NEW t \in Transfers, CopyCompletes(t)
        PROVE  \/ u \in copying' \cap lent'[r]
               \/ r \in woken' \/ r \in completed' \/ pc'[r] \in DyingLabels
    <2>1. UNCHANGED <<completed, pc>> /\ copying' = copying \ {t}
      BY <1>5 DEF CopyCompletes
    <2>2. CASE t \in buffered
      BY <1>1, <1>5, <2>1, <2>2 DEF CopyCompletes
    <2>3. CASE t \notin buffered
      BY <1>5, <2>1, <2>3 DEF CopyCompletes
    <2> QED
      BY <2>2, <2>3
  <1>6. ASSUME \/ \E s \in Reactors, t \in Transfers : WriteCallback(s, t) \/ AttemptEnds(s, t)
               \/ \E t \in Transfers : BackoffElapses(t)
               \/ UNCHANGED vars
        PROVE  UNCHANGED <<copying, lent>>
    BY <1>6 DEF WriteCallback, AttemptEnds, BackoffElapses, vars
  <1> QED
    BY <1>2, <1>3, <1>4, <1>5, <1>6 DEF Next, OwnStep

\* What is on the wire stays there until it is reaped or the thread ends.
LEMMA WireStirs ==
    ASSUME Typed, ReportInv, NEW r \in Reactors, OwnStep(r), ~ReapCompletion(r),
           ~ClearInFlight(r)
    PROVE  InFlight(r) \subseteq InFlight(r)'
  <1>1. ASSUME NEW t \in Transfers, NEW p, NEW h, at[t] # "inflight",
               at' = [at EXCEPT ![t] = p], UNCHANGED by \/ by' = [by EXCEPT ![t] = h]
        PROVE  InFlight(r) \subseteq InFlight(r)'
    BY <1>1 DEF InFlight, Typed, TransfersTyped
  <1>2. ASSUME UNCHANGED <<at, by>> PROVE InFlight(r) \subseteq InFlight(r)'
    BY <1>2 DEF InFlight
  <1>3. CASE AdmitRetry(r)
    <2>1. todo[r] \subseteq Pending(r)
      BY <1>3 DEF AdmitRetry, At, ReportInv, TodoHeld
    <2> QED
      BY <1>1, <1>2, <1>3, <2>1 DEF AdmitRetry, Admitted, Refused, AdmissionThrows, Pending
  <1>4. CASE AdmitPopped(r)
    BY <1>1, <1>2, <1>4 DEF AdmitPopped, Admitted, Refused, AdmissionThrows, Hand
  <1>5. CASE TryPopQueued(r)
    <2>1. queue # <<>> => Head(queue) \in Transfers /\ at[Head(queue)] = "queue"
      BY PoppedQueue DEF ReportInv, QueueHolds, Typed, PoolTyped
    <2> QED
      BY <1>1, <1>2, <1>5, <2>1 DEF TryPopQueued
  <1>6. CASE ReturnToQueue(r)
    BY <1>1, <1>2, <1>6 DEF ReturnToQueue, Hand
  <1>7. CASE RequeueForRetry(r)
    BY <1>1, <1>2, <1>7 DEF RequeueForRetry, PushPending, Hand
  <1>8. CASE SwapQueue(r)
    BY <1>8 DEF SwapQueue, InFlight
  <1>9. CASE FailPending(r)
    BY <1>1, <1>2, <1>9 DEF FailPending, Pending
  <1>10. CASE \/ LoopTop(r) \/ ReadQueueShare(r) \/ PerformReturns(r) \/ SettleHost(r)
              \/ StageDeviceCopy(r) \/ StageFails(r) \/ SettleFailed(r) \/ EnterPoll(r)
              \/ PollReturns(r) \/ SignalDeath(r) \/ DrainQueue(r) \/ FailInFlight(r)
              \/ MultiCallFails(r)
    BY <1>2, <1>10 DEF LoopTop, ReadQueueShare, PerformReturns, SettleHost, StageDeviceCopy,
       StageFails, SettleFailed, EnterPoll, PollReturns, SignalDeath, DrainQueue, FailInFlight,
       MultiCallFails
  <1> QED
    BY <1>3, <1>4, <1>5, <1>6, <1>7, <1>8, <1>9, <1>10 DEF OwnStep, LoopStep

\* A reactor stays stirred until it returns from its poll, reaps a completion or dies.
LEMMA StirredKept ==
    ASSUME Typed, ReportInv, SlotInv, BufferInv, RestInv, [Next]_vars, NEW r \in Reactors,
           Stirred(r)
    PROVE  Stirred(r)' \/ r \in completed' \/ pc'[r] \in DyingLabels \/ pc'[r] = "top"
  <1>1. CASE r \in woken
    <2>1. CASE OwnStep(r)
      <3>1. PollReturns(r) \/ woken \subseteq woken'
        BY <2>1 DEF OwnStep, LoopStep, LoopTop, AdmitRetry, ReadQueueShare, TryPopQueued,
           AdmitPopped, ReturnToQueue, PerformReturns, ReapCompletion, SettleHost,
           StageDeviceCopy, StageFails, SettleFailed, RequeueForRetry, EnterPoll, SignalDeath,
           SwapQueue, DrainQueue, FailPending, FailInFlight, ClearInFlight, MultiCallFails,
           Typed, ThreadsTyped, PassTyped
      <3>2. PollReturns(r) => pc'[r] = "top"
        BY LabelIs DEF PollReturns
      <3> QED
        BY <1>1, <3>1, <3>2 DEF Stirred
    <2> QED
      BY <1>1, <2>1, OthersUndisturbed DEF Undisturbed, Stirred
  <1>2. CASE InFlight(r) # {}
    <2>1. CASE ReapCompletion(r)
      BY <2>1 DEF ReapCompletion
    <2>2. CASE ClearInFlight(r)
      BY <2>2, LabelIs DEF ClearInFlight, DyingLabels
    <2> QED
      BY <1>2, <2>1, <2>2, WireStirs, OthersUndisturbed DEF Undisturbed, Stirred
  <1>3. CASE copying \cap lent[r] # {}
    <2>1. PICK u \in copying \cap lent[r] : TRUE
      BY <1>3
    <2> QED
      BY CopiesStir DEF Stirred
  <1> QED
    BY <1>1, <1>2, <1>3 DEF Stirred

\* Why a reactor is refused: a slot of its limiter is taken by a transfer on the wire ...
LEMMA SlotInUse ==
    ASSUME Typed, SlotInv, NEW r \in Reactors, ~CanAcquire(r),
           \A t \in Hand(r) : t \notin slotted
    PROVE  InFlight(r) # {}
  <1>1. inUse[r] = Cardinality(SlotsOf(r)) /\ inUse[r] >= 1
    BY SliceIsInt DEF CanAcquire, SlotInv, SlotsCounted, Typed, GatesTyped
  <1>2. SlotsOf(r) # {}
    BY <1>1, FS_EmptySet
  <1>3. PICK u \in slotted : by[u] = r
    BY <1>2 DEF SlotsOf
  <1>4. u \in Transfers /\ at[u] \in {"inflight", "hand"}
    BY DEF SlotInv, SlotPlaces, Typed, GatesTyped, TransfersTyped
  <1> QED
    BY <1>3, <1>4 DEF InFlight, Hand

\* ... or a buffer of its shard is, or has a copy running.
LEMMA BufferInUse ==
    ASSUME Typed, SlotInv, BufferInv, NEW r \in Reactors, NEW t \in Transfers,
           At(r, "retries") \/ At(r, "popped"), BufferRefused(r, t)
    PROVE  Stirred(r)
  <1>1. ~Unlimited /\ ~(Cardinality(LentFor(r, CtxOf[t])) < BufferCap)
    BY DEF BufferRefused, BufferAvailable, LentFor
  <1>2. LentFor(r, CtxOf[t]) # {}
    BY <1>1, CapIsInt, FS_EmptySet
  <1>3. PICK u \in lent[r] : TRUE
    BY <1>2 DEF LentFor
  <1>4. CASE u \in copying
    BY <1>4 DEF Stirred
  <1>5. CASE u \notin copying
    <2>1. u \in buffered /\ by[u] = r /\ u \in Transfers
      BY <1>5 DEF BufferInv, Typed, GatesTyped
    <2>2. at[u] = "inflight" \/ (at[u] = "hand" /\ pc[r] = "retries")
      BY <2>1 DEF BufferInv, BufferPlaced, PendingDoomed, At
    <2>3. ~(at[u] = "hand" /\ pc[r] = "retries")
      BY <2>1 DEF SlotInv, HandsFew, HandFew, Hand, At
    <2> QED
      BY <2>1, <2>2, <2>3 DEF Stirred, InFlight
  <1> QED
    BY <1>4, <1>5

LEMMA RefusedForCause ==
    ASSUME Typed, ReportInv, SlotInv, BufferInv, RestInv, NEW r \in Reactors,
           OwnStep(r), ~(r \in deferred), r \in deferred', ~LoopTop(r), ~EnterPoll(r),
           ~SignalDeath(r)
    PROVE  Stirred(r)'
  <1>1. CASE TryPopQueued(r)
    <2>1. /\ pc[r] = "pool" /\ rpc[r] = "idle" /\ ~CanAcquire(r)
          /\ UNCHANGED <<at, by, copying, lent, woken>>
      BY <1>1 DEF TryPopQueued, At
    <2>2. Hand(r) = {}
      BY <2>1 DEF SlotInv, HandsFew, HandFew
    <2>3. InFlight(r) # {}
      BY <2>1, <2>2, SlotInUse
    <2> QED
      BY <2>1, <2>3 DEF Stirred, InFlight
  <1>2. CASE AdmitRetry(r) \/ AdmitPopped(r)
    <2>1. PICK t : /\ Refused(r, t)
                   /\ \/ At(r, "retries") /\ t \in todo[r]
                      \/ At(r, "popped") /\ t \in Hand(r)
      BY <1>2 DEF AdmitRetry, AdmitPopped
    <2>2. t \in Transfers /\ UNCHANGED <<at, by, copying, lent, woken>>
      BY <1>2, <2>1 DEF AdmitRetry, AdmitPopped, Refused, Hand, Typed, PassTyped
    <2>3. ~ContextMissed(r, t)
      BY DEF ContextMissed, RestInv, Rested
    <2>4. Stirred(r)
      <3>1. CASE BufferRefused(r, t)
        BY <2>1, <2>2, <3>1, BufferInUse
      <3>2. CASE SlotRefused(r, t)
        <4>1. \A u \in Hand(r) : u \notin slotted
          BY <2>1, <3>2 DEF SlotRefused, SlotInv, HandsFew, HandFew, At
        <4> QED
          BY <3>2, <4>1, SlotInUse DEF SlotRefused, Stirred
      <3> QED
        BY <2>1, <2>3, <3>1, <3>2 DEF Refused
    <2> QED
      BY <2>2, <2>4 DEF Stirred, InFlight
  <1> QED
    BY <1>1, <1>2 DEF OwnStep, LoopStep, ReadQueueShare, ReturnToQueue,
       PerformReturns, ReapCompletion, SettleHost, StageDeviceCopy, StageFails, SettleFailed,
       RequeueForRetry, PollReturns, SwapQueue, DrainQueue, FailPending, FailInFlight,
       ClearInFlight, MultiCallFails

\* A buffer that its transfer keeps while a copy runs from it: an old one, or one whose
\* staging has just failed.
LEMMA BufferedCopies ==
    ASSUME Typed, ReportInv, SlotInv, CopyInv, BufferInv, [Next]_vars,
           NEW t \in buffered' \cap copying'
    PROVE  \/ t \in buffered \cap copying /\ by'[t] = by[t]
           \/ \E r \in Reactors : StageFails(r) /\ by'[t] = r
  <1>1. t \in buffered => t \in Transfers /\ BufferPlaced(t)
    BY DEF BufferInv, Typed, GatesTyped
  <1>2. ASSUME NEW r \in Reactors, OwnStep(r) PROVE
           \/ t \in buffered \cap copying /\ by'[t] = by[t]
           \/ StageFails(r) /\ by'[t] = r
    <2>1. CASE AdmitRetry(r) \/ AdmitPopped(r)
      <3>1. UNCHANGED <<by, copying>>
        BY <2>1 DEF AdmitRetry, AdmitPopped, Admitted, Refused, AdmissionThrows
      <3>2. t \in buffered
        <4> SUFFICES ASSUME t \notin buffered PROVE FALSE
          OBVIOUS
        <4>1. /\ (At(r, "retries") /\ t \in todo[r]) \/ (At(r, "popped") /\ t \in Hand(r))
          BY <2>1 DEF AdmitRetry, AdmitPopped, Admitted, Refused, AdmissionThrows, TakeBuffer
        <4>2. /\ rpc[r] = "idle" /\ t \in Transfers /\ by[t] = r
              /\ (pc[r] = "retries" /\ at[t] = "pending") \/ (pc[r] = "popped" /\ at[t] = "hand")
          BY <4>1 DEF At, ReportInv, TodoHeld, Pending, Hand
        <4> QED
          BY <3>1, <4>2, Bufferless
      <3> QED
        BY <3>1, <3>2
    <2>2. CASE StageDeviceCopy(r) \/ StageFails(r)
      BY <2>2 DEF StageDeviceCopy, StageFails, Hand
    <2>3. CASE ~(\/ AdmitRetry(r) \/ AdmitPopped(r) \/ StageDeviceCopy(r) \/ StageFails(r))
      <3>1. buffered' \subseteq buffered /\ UNCHANGED copying
        BY <1>2, <2>3 DEF OwnStep, LoopStep, LoopTop, ReadQueueShare, TryPopQueued,
           ReturnToQueue, PerformReturns, ReapCompletion, SettleHost, SettleFailed,
           RequeueForRetry, EnterPoll, PollReturns, SignalDeath, SwapQueue, DrainQueue,
           FailPending, FailInFlight, ClearInFlight, MultiCallFails
      <3>2. t \in buffered /\ t \in Transfers /\ BufferPlaced(t)
        BY <1>1, <3>1
      <3>3. by'[t] = by[t]
        <4>1. CASE TryPopQueued(r)
          <5>1. queue # <<>> => Head(queue) \in Transfers /\ at[Head(queue)] = "queue"
            BY PoppedQueue DEF ReportInv, QueueHolds, Typed, PoolTyped
          <5>2. queue # <<>> => Head(queue) # t
            BY <3>2, <5>1 DEF BufferPlaced
          <5> QED
            BY <3>2, <4>1, <5>2 DEF TryPopQueued, Typed, TransfersTyped
        <4>2. CASE ReturnToQueue(r)
          BY <3>2, <4>2 DEF ReturnToQueue, At, Hand, BufferPlaced, Typed, TransfersTyped
        <4>3. CASE SwapQueue(r)
          BY <3>2, <4>3 DEF SwapQueue, BufferPlaced
        <4>4. CASE ClearInFlight(r)
          BY <3>2, <4>4 DEF ClearInFlight
        <4> QED
          BY <1>2, <2>3, <4>1, <4>2, <4>3, <4>4 DEF OwnStep, LoopStep, LoopTop, ReadQueueShare,
             PerformReturns, ReapCompletion, SettleHost, SettleFailed, RequeueForRetry,
             EnterPoll, PollReturns, SignalDeath, DrainQueue, FailPending, FailInFlight,
             MultiCallFails
      <3> QED
        BY <3>1, <3>2, <3>3
    <2> QED
      BY <2>1, <2>2, <2>3
  <1>3. ASSUME NEW th \in Threads, ReportStep(th)
        PROVE  t \in buffered \cap copying /\ by'[t] = by[t]
    <2>1. /\ UNCHANGED copying
          /\ UNCHANGED <<by, buffered>> \/ EndReport(th)
      BY <1>3 DEF ReportStep, RecordException, CountDown, Fulfil
    <2>2. EndReport(th) => /\ buffered' \subseteq buffered
                           /\ UNCHANGED by \/ buffered' = buffered \ {rt[th]}
      BY DEF EndReport, Destroy
    <2>3. t \in buffered \cap copying /\ t \in Transfers
      BY <1>1, <2>1, <2>2
    <2>4. EndReport(th) /\ t # rt[th] => by'[t] = by[t]
      BY <2>3 DEF EndReport, Destroy, Typed, TransfersTyped
    <2> QED
      BY <2>1, <2>2, <2>3, <2>4
  <1>4. ASSUME NEW a \in Reads, CallerStep(a) PROVE UNCHANGED <<by, copying, buffered>>
    BY <1>4 DEF CallerStep, SubmitPread, FailSubmitted, WakeAllReactors, Get, SyncAllEvents
  <1>5. ASSUME \/ \E s \in Reactors, u \in Transfers : WriteCallback(s, u) \/ AttemptEnds(s, u)
               \/ \E u \in Transfers : BackoffElapses(u) \/ CopyCompletes(u)
               \/ UNCHANGED vars
        PROVE  UNCHANGED <<by, buffered>> /\ copying' \subseteq copying
    BY <1>5 DEF WriteCallback, AttemptEnds, BackoffElapses, CopyCompletes, vars
  <1> QED
    BY <1>2, <1>3, <1>4, <1>5 DEF Next, OwnStep

\* A reactor starts or ends a pass only when it has no such buffer.
LEMMA NoneHeldBack ==
    ASSUME Typed, ReportInv, CopyInv, BufferInv, NEW r \in Reactors, rpc[r] = "idle",
           pc[r] # "failInFlight", NEW t \in buffered \cap copying
    PROVE  by[t] # r
  <1> SUFFICES ASSUME by[t] = r PROVE FALSE
    OBVIOUS
  <1>1. t \in Transfers /\ at[t] \in {"inflight", "hand", "pending"}
    BY DEF BufferInv, BufferPlaced, Typed, GatesTyped
  <1>2. told[t] # "open"
    BY DEF CopyInv, CopiesCovered, CopyCovered, Reporting
  <1> QED
    BY <1>1, <1>2 DEF ReportInv, CountedOnce

\* The pool dies by a signal, and stays dead.
LEMMA DeathIsFinal ==
    ASSUME [Next]_vars
    PROVE  UNCHANGED dead \/ (dead' = TRUE /\ \E r \in Reactors : SignalDeath(r))
  <1>1. ASSUME NEW r \in Reactors, OwnStep(r)
        PROVE  UNCHANGED dead \/ (dead' = TRUE /\ SignalDeath(r))
    BY <1>1 DEF OwnStep, LoopStep, LoopTop, AdmitRetry, ReadQueueShare, TryPopQueued, AdmitPopped,
       ReturnToQueue, PerformReturns, ReapCompletion, SettleHost, StageDeviceCopy, StageFails,
       SettleFailed, RequeueForRetry, EnterPoll, PollReturns, SignalDeath, SwapQueue, DrainQueue,
       FailPending, FailInFlight, ClearInFlight, MultiCallFails
  <1>2. ASSUME NEW th \in Threads, ReportStep(th) PROVE UNCHANGED dead
    BY <1>2 DEF ReportStep, RecordException, CountDown, Fulfil
  <1>3. ASSUME NEW a \in Reads, CallerStep(a) PROVE UNCHANGED dead
    BY <1>3 DEF CallerStep, SubmitPread, FailSubmitted, WakeAllReactors, Get, SyncAllEvents
  <1>4. ASSUME \/ \E s \in Reactors, t \in Transfers : WriteCallback(s, t) \/ AttemptEnds(s, t)
               \/ \E t \in Transfers : BackoffElapses(t) \/ CopyCompletes(t)
               \/ UNCHANGED vars
        PROVE  UNCHANGED dead
    BY <1>4 DEF WriteCallback, AttemptEnds, BackoffElapses, CopyCompletes, vars
  <1> QED
    BY <1>1, <1>2, <1>3, <1>4 DEF Next, OwnStep

LEMMA NextRested ==
    ASSUME Typed, ReportInv, SlotInv, CopyInv, BufferInv, RestInv, [Next]_vars,
           NEW r \in Reactors
    PROVE  Rested(r)'
  <1>1. dead => dead'
    BY DeathIsFinal
  <1>2. Rested(r)
    BY DEF RestInv
  <1>3. pc[r] \in PassLabels /\ pc'[r] \in PassLabels /\ r \in deferred /\ completed \cap {r} \subseteq completed'
          => r \in completed' \/ Stirred(r)'
    BY <1>2, StirredKept DEF Rested, PassLabels, DyingLabels
  <1>4. ASSUME NEW t \in buffered' \cap copying', by'[t] = r, ~StageFails(r)
        PROVE  t \in buffered \cap copying /\ by[t] = r
    <2>1. ASSUME NEW s \in Reactors, StageFails(s), by'[t] = s PROVE FALSE
      BY <1>4, <2>1
    <2> QED
      BY <1>4, <2>1, BufferedCopies
  <1>5. CASE Undisturbed(r) /\ ~StageFails(r)
    <2>1. /\ pc'[r] = pc[r] /\ (r \in completed' <=> r \in completed)
          /\ (r \in deferred' <=> r \in deferred) /\ exhausted'[r] = exhausted[r]
      BY <1>5 DEF Undisturbed
    <2>2. pc'[r] \in PassLabels /\ r \in deferred' => r \in completed' \/ Stirred(r)'
      BY <1>3, <2>1
    <2>3. \A t \in buffered' \cap copying' : by'[t] = r => r \in completed' \/ pc'[r] \in DyingLabels
      BY <1>2, <1>4, <1>5, <2>1 DEF Rested
    <2>4. ~dead' => pc'[r] \notin DyingLabels \ {"signal"}
      BY <1>1, <1>2, <2>1 DEF Rested
    <2> QED
      BY <1>2, <2>1, <2>2, <2>3, <2>4 DEF Rested
  <1>6. CASE OwnStep(r)
    <2>1. pc'[r] = "settle" => r \in completed'
      BY <1>6, LabelsLed DEF ReapCompletion
    <2>2. pc'[r] = "poll" => r \notin completed'
      BY <1>6, LabelsLed DEF EnterPoll, SetPass
    <2>3. ~dead' => pc'[r] \notin DyingLabels \ {"signal"}
      BY <1>1, <1>2, <1>6, LabelsLed DEF Rested
    <2>4. CASE LoopTop(r) \/ EnterPoll(r)
      <3>1. /\ rpc[r] = "idle" /\ pc[r] \in {"top", "reap"} /\ UNCHANGED <<buffered, copying, by>>
            /\ \/ r \notin deferred' /\ exhausted'[r] = {}
               \/ pc'[r] = "fail" /\ UNCHANGED <<deferred, exhausted>>
        BY <2>4, LabelIs DEF LoopTop, EnterPoll, NewPass, SetPass, At, Typed, PassTyped
      <3>2. \A t \in buffered' \cap copying' : by'[t] # r
        BY <3>1, NoneHeldBack
      <3> QED
        BY <1>2, <2>1, <2>2, <2>3, <3>1, <3>2 DEF Rested, PassLabels
    <2>5. CASE SignalDeath(r)
      <3>1. /\ pc'[r] \in DyingLabels \ PassLabels /\ exhausted'[r] = {}
        BY <2>5, LabelIs DEF SignalDeath, SetPass, DyingLabels, PassLabels, Typed, PassTyped
      <3> QED
        BY <2>1, <2>2, <2>3, <3>1 DEF Rested
    <2>6. CASE ~(LoopTop(r) \/ EnterPoll(r) \/ SignalDeath(r))
      <3>1. completed \subseteq completed'
        BY <1>6, <2>6, PassRemembers
      <3>2. /\ deferred \subseteq deferred'
            /\ exhausted'[r] # {} => exhausted[r] # {} \/ r \in deferred'
        BY <1>6, <2>6, PassRemembers DEF Refused
      <3>3. exhausted'[r] # {} => r \in deferred'
        BY <1>2, <3>2 DEF Rested
      <3>4. pc'[r] \in PassLabels => pc[r] \in PassLabels
        BY <1>6, <2>6, LabelIs DEF OwnStep, LoopStep, AdmitRetry, ReadQueueShare, TryPopQueued,
           AdmitPopped, ReturnToQueue, PerformReturns, ReapCompletion, SettleHost,
           StageDeviceCopy, StageFails, SettleFailed, RequeueForRetry, PollReturns, SwapQueue,
           DrainQueue, FailPending, FailInFlight, ClearInFlight, MultiCallFails, At, PassLabels
      <3>5. pc'[r] \in PassLabels /\ r \in deferred' => r \in completed' \/ Stirred(r)'
        BY <1>3, <1>6, <2>6, <3>1, <3>4, RefusedForCause
      <3>6. ASSUME NEW t \in buffered' \cap copying', by'[t] = r
            PROVE  r \in completed' \/ pc'[r] \in DyingLabels
        <4>1. CASE StageFails(r)
          BY <1>2, <3>1, <4>1 DEF StageFails, At, Rested
        <4>2. CASE ~StageFails(r)
          BY <1>2, <1>4, <1>6, <3>1, <3>6, <4>2, LabelsLed DEF Rested
        <4> QED
          BY <4>1, <4>2
      <3> QED
        BY <2>1, <2>2, <2>3, <3>3, <3>5, <3>6 DEF Rested
    <2> QED
      BY <2>4, <2>5, <2>6
  <1>7. StageFails(r) => OwnStep(r)
    BY DEF OwnStep, LoopStep
  <1> QED
    BY <1>5, <1>6, <1>7, OthersUndisturbed

\* A reactor that is not fast asleep falls asleep only by entering its poll.
LEMMA AwakeKept ==
    ASSUME Typed, ReportInv, SlotInv, CopyInv, BufferInv, RestInv, [Next]_vars,
           NEW r \in Reactors, ~FastAsleep(r), ~EnterPoll(r)
    PROVE  ~FastAsleep(r)'
  <1>1. CASE OwnStep(r)
    <2>1. pc'[r] # "poll"
      BY <1>1, LabelsLed
    <2> QED
      BY <2>1 DEF FastAsleep
  <1>2. CASE Undisturbed(r)
    <2>1. CASE pc[r] = "poll" /\ timeout[r] = "idle"
      <3>1. Stirred(r)
        BY <2>1 DEF FastAsleep, Stirred
      <3>2. pc'[r] = "poll" /\ r \notin completed'
        BY <1>2, <2>1 DEF Undisturbed, RestInv, Rested
      <3>3. Stirred(r)'
        BY <3>1, <3>2, StirredKept DEF DyingLabels
      <3> QED
        BY <3>3 DEF FastAsleep, Stirred
    <2> QED
      BY <1>2, <2>1 DEF Undisturbed, FastAsleep
  <1> QED
    BY <1>1, <1>2, OthersUndisturbed

\* A reactor that goes to sleep on a non-empty queue is one that something stirs.
LEMMA SleepsLightly ==
    ASSUME Typed, RestInv, NEW r \in Reactors, EnterPoll(r), queue # <<>>
    PROVE  ~FastAsleep(r)'
  <1>1. pc[r] = "reap" /\ UNCHANGED <<at, by, woken, copying, lent>>
    BY DEF EnterPoll, At
  <1>2. timeout'[r] = PollTimeout(r)
    BY DEF EnterPoll, Typed, ThreadsTyped
  <1>3. PollTimeout(r) = "idle" => r \notin completed /\ r \in deferred
    BY DEF PollTimeout
  <1>4. PollTimeout(r) = "idle" => Stirred(r)
    BY <1>1, <1>3 DEF RestInv, Rested, PassLabels
  <1>5. Stirred(r) => Stirred(r)'
    BY <1>1 DEF Stirred, InFlight
  <1> QED
    BY <1>2, <1>4, <1>5 DEF FastAsleep, Stirred

\* Only a submission and a return put work into the queue, and only while the pool lives.
LEMMA QueueFilled ==
    ASSUME Typed, [Next]_vars, queue = <<>>, queue' # <<>>
    PROVE  ~dead /\ UNCHANGED dead
           /\ \/ \E a \in Reads : SubmitPread(a)
              \/ \E r \in Reactors : ReturnToQueue(r)
  <1>1. ~(UNCHANGED queue)
    OBVIOUS
  <1>2. \/ \E a \in Reads : SubmitPread(a)
        \/ \E r \in Reactors : ReturnToQueue(r) \/ SwapQueue(r) \/ TryPopQueued(r)
    BY ZenonT(30), <1>1 DEF Next, ReportStep, RecordException, CountDown, Fulfil, CallerStep,
       FailSubmitted, WakeAllReactors, Get, SyncAllEvents, LoopStep, LoopTop, AdmitRetry,
       ReadQueueShare, AdmitPopped, PerformReturns, ReapCompletion,
       SettleHost, StageDeviceCopy, StageFails, SettleFailed, RequeueForRetry, EnterPoll,
       PollReturns, SignalDeath, DrainQueue, FailPending, FailInFlight, ClearInFlight,
       MultiCallFails, WriteCallback, AttemptEnds, BackoffElapses, CopyCompletes, vars
  <1>3. ASSUME NEW r \in Reactors PROVE ~SwapQueue(r) /\ ~TryPopQueued(r)
    BY <1>1 DEF SwapQueue, TryPopQueued
  <1> QED
    BY <1>1, <1>2, <1>3 DEF SubmitPread, ReturnToQueue

LEMMA NextQueueServed ==
    ASSUME Typed, ReportInv, SlotInv, CopyInv, BufferInv, RestInv, [Next]_vars
    PROVE  QueueServed'
  <1>1. ASSUME dead', queue' # <<>> PROVE \E r \in Reactors : pc'[r] = "swap"
    <2>1. CASE dead
      <3>1. queue # <<>>
        BY <1>1, <2>1, QueueFilled
      <3>2. PICK r \in Reactors : pc[r] = "swap"
        BY <2>1, <3>1 DEF RestInv, QueueServed
      <3>3. ~SwapQueue(r)
        BY <1>1 DEF SwapQueue
      <3> QED
        BY <3>2, <3>3, LabelsLed, OthersUndisturbed DEF Undisturbed
    <2>2. CASE ~dead
      <3>1. PICK r \in Reactors : SignalDeath(r)
        BY <1>1, <2>2, DeathIsFinal
      <3> QED
        BY <2>2, <3>1, LabelIs DEF SignalDeath
    <2> QED
      BY <2>1, <2>2
  <1>2. ASSUME ~dead', queue' # <<>>
        PROVE  \/ \E a \in Reads : cpc'[a] = "wake"
               \/ \E r \in Reactors : ~FastAsleep(r)'
    <2>1. CASE \E a \in Reads : SubmitPread(a)
      <3>1. PICK a \in Reads : SubmitPread(a)
        BY <2>1
      <3>2. cpc'[a] = "wake"
        BY <1>2, <3>1 DEF SubmitPread, Typed, ThreadsTyped
      <3> QED
        BY <3>2
    <2>2. CASE \E r \in Reactors : ReturnToQueue(r)
      <3>1. PICK r \in Reactors : ReturnToQueue(r)
        BY <2>2
      <3>2. pc'[r] = "perform"
        BY <3>1, LabelIs DEF ReturnToQueue
      <3> QED
        BY <3>2 DEF FastAsleep
    <2>3. CASE \E a \in Reads : WakeAllReactors(a)
      <3>1. woken' = Reactors
        BY <2>3 DEF WakeAllReactors
      <3>2. 0 \in Reactors
        BY ConstantsAssumption DEF Reactors
      <3> QED
        BY <3>1, <3>2 DEF FastAsleep
    <2>4. CASE /\ \A a \in Reads : ~SubmitPread(a) /\ ~WakeAllReactors(a)
               /\ \A r \in Reactors : ~ReturnToQueue(r)
      <3>1. queue # <<>>
        BY <1>2, <2>4, QueueFilled
      <3>2. ~dead
        BY <1>2, DeathIsFinal
      <3>3. CASE \E a \in Reads : cpc[a] = "wake"
        <4>1. PICK a \in Reads : cpc[a] = "wake"
          BY <3>3
        <4>2. ASSUME NEW b \in Reads, CallerStep(b) PROVE cpc'[a] = "wake"
          BY <2>4, <4>1, <4>2 DEF CallerStep, FailSubmitted, Get, SyncAllEvents, Typed,
             ThreadsTyped
        <4>3. CASE UNCHANGED cpc
          BY <4>1, <4>3
        <4>4. UNCHANGED cpc \/ \E b \in Reads : CallerStep(b)
          BY ZenonT(30) DEF Next, ReportStep, RecordException, CountDown, Fulfil, LoopStep, LoopTop,
             AdmitRetry, ReadQueueShare, TryPopQueued, AdmitPopped, ReturnToQueue,
             PerformReturns, ReapCompletion, SettleHost, StageDeviceCopy, StageFails,
             SettleFailed, RequeueForRetry, EnterPoll, PollReturns, SignalDeath, SwapQueue,
             DrainQueue, FailPending, FailInFlight, ClearInFlight, MultiCallFails,
             WriteCallback, AttemptEnds, BackoffElapses, CopyCompletes, vars
        <4> QED
          BY <4>2, <4>3, <4>4
      <3>4. CASE \E r \in Reactors : ~FastAsleep(r)
        <4>1. PICK r \in Reactors : ~FastAsleep(r)
          BY <3>4
        <4>2. CASE EnterPoll(r)
          BY <3>1, <4>2, SleepsLightly
        <4>3. CASE ~EnterPoll(r)
          BY <4>1, <4>3, AwakeKept
        <4> QED
          BY <4>2, <4>3
      <3> QED
        BY <3>1, <3>2, <3>3, <3>4 DEF RestInv, QueueServed
    <2> QED
      BY <2>1, <2>2, <2>3, <2>4
  <1> QED
    BY <1>1, <1>2 DEF QueueServed

\* While work waits in the shared queue somebody is about to look at it: a submitter that has
\* yet to wake the reactors, or a reactor that is awake, is woken, or is refused only by what
\* will stir it; on a dead pool, the reactor that is about to drain the queue.
THEOREM WorkIsNotStranded == Spec => []NoStrandedWork
  <1>1. Init => RestInv
    BY InitRestInv
  <1>2. Typed /\ ReportInv /\ SlotInv /\ CopyInv /\ BufferInv /\ RestInv /\ [Next]_vars => RestInv'
    BY NextRested, NextQueueServed DEF RestInv
  <1>3. RestInv => NoStrandedWork
    <2> SUFFICES ASSUME RestInv, queue # <<>> PROVE NoStrandedWork
      BY DEF NoStrandedWork
    <2>1. CASE dead
      BY <2>1 DEF RestInv, QueueServed, NoStrandedWork, FastAsleep
    <2>2. CASE ~dead
      BY <2>2 DEF RestInv, QueueServed, Rested, NoStrandedWork, DyingLabels
    <2> QED
      BY <2>1, <2>2
  <1> QED
    BY <1>1, <1>2, <1>3, BufferInvariant, PTL DEF Spec

===============================================================================
