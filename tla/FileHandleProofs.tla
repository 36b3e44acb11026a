--------------------------- MODULE FileHandleProofs ---------------------------
(***************************************************************************)
(* parallel_io() on any number of workers, calls and parts: a last part    *)
(* never waits for a part that nobody runs, the contract of ParallelRead   *)
(* is kept, observations are emitted when the operation is over, and the   *)
(* caller's future holds the number of bytes that the parts transferred.   *)
(* The size FileHandle caches is the file's if no call of nbytes()         *)
(* overlaps a write.                                                       *)
(***************************************************************************)
EXTENDS FileHandle, Sums, SequenceTheorems

USE DEF queueVars, threadVars, callVars

\* Part t is submitted before part u of the same call.
Before(t, u) ==
    /\ CallOf[t] = CallOf[u]
    /\ \E i, j \in 1..Len(Parts[CallOf[t]]) :
         i < j /\ t = Parts[CallOf[t]][i] /\ u = Parts[CallOf[t]][j]

Sent(a) == {Parts[a][i] : i \in 1..sent[a]}
InQueue(t) == \E k \in 1..Len(queue) : queue[k] = t
Running(t) == \E v \in Threads : task[v] = t

\* How far the callers are.
SentBound ==
    \A a \in Calls : /\ sent[a] <= Len(Parts[a])
                     /\ a \in Shortcut => sent[a] = 0
                     /\ a \notin Shortcut /\ cpc[a] \in {"start", "submit"} =>
                          sent[a] < Len(Parts[a])

\* The queue holds parts that were sent and not started, in the order of their call.
QueueSent ==
    \A k \in 1..Len(queue) : /\ queue[k] \in Sent(CallOf[queue[k]])
                             /\ verdict[queue[k]] = "open"
                             /\ ~Running(queue[k])

QueueOrder ==
    \A k, l \in 1..Len(queue) : k < l =>
        queue[k] # queue[l] /\ ~Before(queue[l], queue[k])

\* A part that was sent is in the queue, runs or is over; one that was not is untouched.
SentPlaced ==
    \A t \in Tasks : t \in Sent(CallOf[t]) /\ verdict[t] = "open" => InQueue(t) \/ Running(t)

UnsentUntouched ==
    \A t \in Tasks :
        \/ CallOf[t] \notin Shortcut /\ t \notin Sent(CallOf[t])
        \/ CallOf[t] \in Shortcut /\ cpc[CallOf[t]] = "start"
        => verdict[t] = "open" /\ ~Running(t)

\* A thread transfers for a part that is open, and joins for a last part that is over.
ThreadsRun ==
    \A w \in Threads :
        /\ task[w] = NoTask <=> tpc[w] = "idle"
        /\ tpc[w] \in {"idle", "io", "op"} => idx[w] = 1
        /\ tpc[w] \in {"io", "op"} => verdict[task[w]] = "open"
        /\ tpc[w] \in {"collect", "drain", "return", "throw"} =>
             IsLast(task[w]) /\ verdict[task[w]] # "open"
        /\ \A v \in Threads : task[v] = task[w] /\ task[w] # NoTask => v = w
        /\ w \in Shortcut => task[w] \in {NoTask, LastOf(w)}

\* When a last part runs none of its siblings is in the queue any more.
LastAlone ==
    \A w \in Threads : task[w] # NoTask /\ IsLast(task[w]) =>
        \A t \in PartsOf(CallOf[task[w]]) :
            t = task[w] \/ (t \in Sent(CallOf[t]) /\ ~InQueue(t))

\* What the two loops over the futures have established.
JoinedFor(w) ==
    LET a == CallOf[task[w]]
        someFailed == \E t \in PartsOf(a) : verdict[t] = "failed"
    IN  /\ tpc[w] \in {"collect", "drain"} =>
             /\ idx[w] \in 1..NumSiblings(a) + 1
             /\ \A i \in 1..idx[w] - 1 : verdict[Parts[a][i]] # "open"
        /\ tpc[w] = "collect" =>
             verdict[task[w]] = "ok" /\ \A i \in 1..idx[w] - 1 : verdict[Parts[a][i]] = "ok"
        /\ tpc[w] = "drain" => someFailed
        /\ tpc[w] = "return" => \A t \in PartsOf(a) : verdict[t] = "ok"
        /\ tpc[w] = "throw" => someFailed /\ \A t \in PartsOf(a) : verdict[t] # "open"

Joined == \A w \in Threads : JoinedFor(w)

OutcomeLast ==
    \A a \in Calls : outcome[a] # "pending" =>
        verdict[LastOf(a)] # "open" /\ ~Running(LastOf(a))

PoolInv == /\ SentBound /\ QueueSent /\ QueueOrder /\ SentPlaced /\ UnsentUntouched
           /\ ThreadsRun /\ LastAlone /\ Joined /\ OutcomeLast /\ ObservedWhenOver

-------------------------------------------------------------------------------
(* Facts about the parts of a call.                                        *)

LEMMA PartFacts ==
    ASSUME NEW a \in Calls
    PROVE  /\ Len(Parts[a]) \in Nat /\ Len(Parts[a]) >= 1
           /\ \A i \in 1..Len(Parts[a]) : Parts[a][i] \in Tasks /\ CallOf[Parts[a][i]] = a
           /\ \A i, j \in 1..Len(Parts[a]) : Parts[a][i] = Parts[a][j] => i = j
           /\ \A t \in PartsOf(a) : \E i \in 1..Len(Parts[a]) : t = Parts[a][i]
  <1>1. Parts[a] \in Seq(Tasks) /\ Parts[a] # <<>>
    BY PartsAssumption
  <1>2. Len(Parts[a]) \in Nat /\ Len(Parts[a]) >= 1
    BY <1>1
  <1>3. {Parts[a][i] : i \in 1..Len(Parts[a])} = PartsOf(a)
    BY PartsAssumption
  <1>4. \A i \in 1..Len(Parts[a]) : Parts[a][i] \in PartsOf(a)
    BY <1>3
  <1> QED
    BY <1>2, <1>3, <1>4, PartsAssumption DEF PartsOf

LEMMA LastFacts ==
    ASSUME NEW a \in Calls
    PROVE  LastOf(a) \in Tasks /\ CallOf[LastOf(a)] = a /\ LastOf(a) \in PartsOf(a)
  <1>1. Len(Parts[a]) \in 1..Len(Parts[a])
    BY PartFacts
  <1> QED
    BY <1>1, PartFacts DEF LastOf, PartsOf

LEMMA CallOfType == ASSUME NEW t \in Tasks PROVE CallOf[t] \in Calls /\ t \in PartsOf(CallOf[t])
  BY PartsAssumption DEF PartsOf

LEMMA SiblingsFirst ==
    ASSUME NEW a \in Calls, NEW t \in PartsOf(a), t # LastOf(a)
    PROVE  Before(t, LastOf(a))
  <1>1. PICK i \in 1..Len(Parts[a]) : t = Parts[a][i]
    BY PartFacts
  <1>2. i < Len(Parts[a]) /\ Len(Parts[a]) \in 1..Len(Parts[a])
    BY <1>1, PartFacts DEF LastOf
  <1>3. CallOf[t] = a /\ CallOf[LastOf(a)] = a
    BY LastFacts DEF PartsOf
  <1> QED
    BY <1>1, <1>2, <1>3 DEF Before, LastOf

LEMMA BeforeIsAsymmetric ==
    ASSUME NEW t \in Tasks, NEW u \in Tasks, Before(t, u)
    PROVE  ~Before(u, t) /\ t # u
  <1> DEFINE a == CallOf[t]
  <1>1. a \in Calls /\ CallOf[u] = a
    BY CallOfType DEF Before
  <1>2. PICK i, j \in 1..Len(Parts[a]) : i < j /\ t = Parts[a][i] /\ u = Parts[a][j]
    BY DEF Before
  <1>3. ASSUME NEW k \in 1..Len(Parts[a]), NEW l \in 1..Len(Parts[a]), k < l,
               u = Parts[a][k], t = Parts[a][l]
        PROVE  FALSE
    <2>1. \A m, n \in 1..Len(Parts[a]) : Parts[a][m] = Parts[a][n] => m = n
      BY <1>1, PartFacts
    <2>2. k = j /\ l = i
      BY <1>2, <1>3, <2>1
    <2> QED
      BY <1>2, <1>3, <2>2
  <1>4. ~Before(u, t)
    BY <1>1, <1>3 DEF Before
  <1>5. t # u
    BY <1>1, <1>2, PartFacts
  <1> QED
    BY <1>4, <1>5

\* The parts sent so far come before the next one.
LEMMA NextPartIsNew ==
    ASSUME NEW a \in Calls, sent[a] \in Nat, sent[a] < Len(Parts[a])
    PROVE  /\ NextPart(a) \in Tasks /\ CallOf[NextPart(a)] = a
           /\ NextPart(a) \notin Sent(a)
           /\ \A t \in Sent(a) : Before(t, NextPart(a))
  <1>1. sent[a] + 1 \in 1..Len(Parts[a]) /\ \A i \in 1..sent[a] : i \in 1..Len(Parts[a])
    BY PartFacts
  <1>2. NextPart(a) \in Tasks /\ CallOf[NextPart(a)] = a
    BY <1>1, PartFacts DEF NextPart
  <1>3. ASSUME NEW i \in 1..sent[a]
        PROVE  Parts[a][i] # NextPart(a) /\ Before(Parts[a][i], NextPart(a))
    <2>1. i \in 1..Len(Parts[a]) /\ i < sent[a] + 1
      BY <1>1
    <2>2. CallOf[Parts[a][i]] = a
      BY <2>1, PartFacts
    <2>3. Parts[a][i] # NextPart(a)
      BY <1>1, <2>1, PartFacts DEF NextPart
    <2> QED
      BY <1>1, <1>2, <2>1, <2>2, <2>3 DEF Before, NextPart
  <1> QED
    BY <1>2, <1>3 DEF Sent

-------------------------------------------------------------------------------
(* The invariant holds initially and is preserved, action by action.       *)

LEMMA InitPoolInv == PioInit => PioTypeOK /\ PoolInv
  <1> SUFFICES ASSUME PioInit PROVE PioTypeOK /\ PoolInv
    OBVIOUS
  <1> USE DEF PioInit
  <1>1. PioTypeOK
    BY PoolAssumption DEF PioTypeOK, ThreadLabels
  <1>2. SentBound
    BY PartFacts DEF SentBound
  <1>3. \A t \in Tasks : t \notin Sent(CallOf[t]) /\ ~InQueue(t) /\ ~Running(t)
    BY PoolAssumption, CallOfType DEF Sent, InQueue, Running
  <1>4. QueueSent /\ QueueOrder /\ SentPlaced /\ UnsentUntouched
    BY <1>3 DEF QueueSent, QueueOrder, SentPlaced, UnsentUntouched
  <1>5. ThreadsRun /\ LastAlone /\ Joined
    BY DEF ThreadsRun, LastAlone, Joined, JoinedFor
  <1>6. OutcomeLast /\ ObservedWhenOver
    BY DEF OutcomeLast, ObservedWhenOver
  <1> QED
    BY <1>1, <1>2, <1>4, <1>5, <1>6 DEF PoolInv

\* The part a busy thread runs.
LEMMA BusyThread ==
    ASSUME PioTypeOK, ThreadsRun, NEW w \in Threads, tpc[w] # "idle"
    PROVE  /\ task[w] \in Tasks /\ task[w] # NoTask
           /\ CallOf[task[w]] \in Calls /\ task[w] \in PartsOf(CallOf[task[w]])
  <1>1. task[w] \in Tasks /\ task[w] # NoTask
    BY DEF PioTypeOK, ThreadsRun
  <1> QED
    BY <1>1, CallOfType

LEMMA SubmitPartInv ==
    ASSUME PioTypeOK, PoolInv, NEW a \in Calls, SubmitPart(a)
    PROVE  PioTypeOK' /\ PoolInv'
  <1> DEFINE p == NextPart(a)
  <1>1. a \notin Shortcut /\ sent[a] \in Nat /\ sent[a] < Len(Parts[a])
    BY DEF SubmitPart, PioTypeOK, PoolInv, SentBound
  <1>2. /\ p \in Tasks /\ CallOf[p] = a /\ p \notin Sent(a)
        /\ \A t \in Sent(a) : Before(t, p)
    BY <1>1, NextPartIsNew
  <1>3. verdict[p] = "open" /\ ~Running(p)
    BY <1>1, <1>2 DEF PoolInv, UnsentUntouched
  <1>4. /\ queue' = Append(queue, p) /\ sent' = [sent EXCEPT ![a] = @ + 1]
        /\ UNCHANGED <<threadVars, moved, verdict, callVars>>
        /\ cpc' = [cpc EXCEPT ![a] = IF sent[a] + 1 = Len(Parts[a]) THEN "get" ELSE "submit"]
    BY DEF SubmitPart
  <1> HIDE DEF p
  <1>5. PioTypeOK'
    BY <1>1, <1>2, <1>4 DEF PioTypeOK
  <1>6. \A b \in Calls : Sent(b)' = IF b = a THEN Sent(a) \cup {p} ELSE Sent(b)
    <2>1. \A b \in Calls : b # a => Sent(b)' = Sent(b)
      BY <1>4 DEF Sent, PioTypeOK
    <2>2. sent'[a] = sent[a] + 1 /\ Parts[a][sent[a] + 1] = p
      BY <1>4 DEF PioTypeOK, p, NextPart
    <2>3. 1..(sent[a] + 1) = (1..sent[a]) \cup {sent[a] + 1}
      BY <1>1
    <2>4. Sent(a)' = Sent(a) \cup {p}
      BY <2>2, <2>3 DEF Sent
    <2> QED
      BY <2>1, <2>4
  <1>7. \A t \in Tasks : t \in Sent(CallOf[t])' <=> t \in Sent(CallOf[t]) \/ t = p
    BY <1>2, <1>6, CallOfType
  <1>8. /\ Len(queue') = Len(queue) + 1 /\ Len(queue) \in Nat /\ queue'[Len(queue) + 1] = p
        /\ \A k \in 1..Len(queue) : queue'[k] = queue[k] /\ queue[k] \in Tasks
    BY <1>2, <1>4 DEF PioTypeOK
  <1>9. \A t \in Tasks : InQueue(t)' <=> InQueue(t) \/ t = p
    BY <1>8 DEF InQueue
  <1>10. \A t : Running(t)' <=> Running(t)
    BY <1>4 DEF Running
  <1>11. SentBound'
    BY <1>1, <1>4, PartFacts DEF PoolInv, SentBound, PioTypeOK
  <1>12. QueueSent'
    <2>1. ASSUME NEW k \in 1..Len(queue'), NEW t, t = queue'[k]
          PROVE  t \in Sent(CallOf[t])' /\ verdict'[t] = "open" /\ ~Running(t)'
      <3>1. CASE k = Len(queue) + 1
        BY <1>2, <1>3, <1>4, <1>7, <1>8, <1>10, <2>1, <3>1
      <3>2. CASE k # Len(queue) + 1
        <4>1. k \in 1..Len(queue) /\ t = queue[k] /\ t \in Tasks
          BY <1>8, <2>1, <3>2
        <4> QED
          BY <1>4, <1>7, <1>10, <4>1 DEF PoolInv, QueueSent
      <3> QED
        BY <3>1, <3>2
    <2> QED
      BY <2>1 DEF QueueSent, Sent, Running
  <1>13. QueueOrder'
    <2>1. ASSUME NEW k \in 1..Len(queue) PROVE queue[k] # p /\ ~Before(p, queue[k])
      <3>1. queue[k] \in Tasks /\ queue[k] \in Sent(CallOf[queue[k]])
        BY <1>8 DEF PoolInv, QueueSent
      <3>2. queue[k] # p
        BY <1>2, <3>1
      <3>3. ASSUME Before(p, queue[k]) PROVE FALSE
        <4>1. CallOf[queue[k]] = a
          BY <1>2, <3>3 DEF Before
        <4>2. Before(queue[k], p)
          BY <1>2, <3>1, <4>1
        <4> QED
          BY <1>2, <3>1, <3>3, <4>2, BeforeIsAsymmetric
      <3> QED
        BY <3>2, <3>3
    <2>2. ASSUME NEW k \in 1..Len(queue'), NEW l \in 1..Len(queue'), k < l
          PROVE  queue'[k] # queue'[l] /\ ~Before(queue'[l], queue'[k])
      <3>1. k \in 1..Len(queue) /\ queue'[k] = queue[k]
        BY <1>8, <2>2
      <3>2. CASE l = Len(queue) + 1
        BY <1>8, <2>1, <3>1, <3>2
      <3>3. CASE l # Len(queue) + 1
        <4>1. l \in 1..Len(queue) /\ queue'[l] = queue[l]
          BY <1>8, <3>3
        <4> QED
          BY <2>2, <3>1, <4>1 DEF PoolInv, QueueOrder
      <3> QED
        BY <3>2, <3>3
    <2>3. \A t, u : Before(t, u)' = Before(t, u)
      BY DEF Before
    <2> QED
      BY <2>2, <2>3 DEF QueueOrder
  <1>14. SentPlaced' /\ UnsentUntouched'
    BY <1>1, <1>2, <1>4, <1>7, <1>9, <1>10, CallOfType
    DEF PoolInv, SentPlaced, UnsentUntouched, PioTypeOK
  <1>15. LastAlone'
    <2>1. ASSUME NEW w \in Threads, task[w] # NoTask, IsLast(task[w]),
                 NEW t \in PartsOf(CallOf[task[w]]), t # task[w]
          PROVE  t \in Sent(CallOf[t])' /\ ~InQueue(t)'
      <3>1. t \in Tasks /\ t \in Sent(CallOf[t]) /\ ~InQueue(t)
        BY <2>1 DEF PoolInv, LastAlone, PartsOf
      <3> QED
        BY <1>2, <1>7, <1>9, <3>1
    <2> QED
      BY <1>4, <2>1 DEF LastAlone, IsLast, LastOf, PartsOf
  <1>16. ThreadsRun' /\ Joined' /\ OutcomeLast' /\ ObservedWhenOver'
    <2>1. ThreadsRun'
      BY <1>4 DEF PoolInv, ThreadsRun, IsLast, LastOf
    <2>2. Joined'
      BY <1>4 DEF PoolInv, Joined, JoinedFor, NumSiblings, PartsOf
    <2> QED
      BY <1>4, <1>10, <2>1, <2>2 DEF PoolInv, OutcomeLast, ObservedWhenOver, LastOf, PartsOf
  <1> QED
    BY <1>5, <1>11, <1>12, <1>13, <1>14, <1>15, <1>16 DEF PoolInv

\* Steps that move no part keep what is known of the places of parts.
LEMMA PlacesKept ==
    ASSUME PoolInv, UNCHANGED <<queue, sent, verdict, task>>
    PROVE  QueueSent' /\ QueueOrder' /\ SentPlaced' /\ LastAlone'
  <1>1. QueueSent'
    BY DEF PoolInv, QueueSent, Sent, Running
  <1>2. QueueOrder'
    BY DEF PoolInv, QueueOrder, Before
  <1>3. SentPlaced'
    BY DEF PoolInv, SentPlaced, Sent, Running, InQueue
  <1>4. LastAlone'
    BY DEF PoolInv, LastAlone, IsLast, LastOf, PartsOf, Sent, InQueue
  <1> QED
    BY <1>1, <1>2, <1>3, <1>4

LEMMA GetResultInv ==
    ASSUME PioTypeOK, PoolInv, NEW a \in Calls, GetResult(a)
    PROVE  PioTypeOK' /\ PoolInv'
  <1> USE DEF GetResult
  <1>1. PioTypeOK'
    BY DEF PioTypeOK
  <1>2. QueueSent' /\ QueueOrder' /\ SentPlaced' /\ LastAlone'
    BY PlacesKept
  <1>3. SentBound' /\ UnsentUntouched'
    BY CallOfType DEF PoolInv, SentBound, UnsentUntouched, Sent, Running, PioTypeOK
  <1>4. ThreadsRun' /\ Joined'
    BY DEF PoolInv, ThreadsRun, Joined, JoinedFor, IsLast, LastOf, NumSiblings, PartsOf
  <1>5. OutcomeLast' /\ ObservedWhenOver'
    BY DEF PoolInv, OutcomeLast, ObservedWhenOver, Running, LastOf, PartsOf
  <1> QED
    BY <1>1, <1>2, <1>3, <1>4, <1>5 DEF PoolInv

\* A chunk is moved, or the transfer of a part returns.
LEMMA TransferInv ==
    ASSUME PioTypeOK, PoolInv, NEW w \in Threads, MoveChunk(w) \/ TransferReturns(w)
    PROVE  PioTypeOK' /\ PoolInv'
  <1>1. /\ UNCHANGED <<queueVars, task, idx, verdict, callVars>>
        /\ tpc[w] = "io" /\ (tpc' = tpc \/ tpc' = [tpc EXCEPT ![w] = "op"])
    BY DEF MoveChunk, TransferReturns
  <1>2. task[w] \in Tasks
    BY <1>1, BusyThread DEF PoolInv
  <1>3. PioTypeOK'
    <2>1. moved' \in [Tasks -> 0..PartSize]
      <3>1. CASE MoveChunk(w)
        <4>1. moved[task[w]] + 1 \in 0..PartSize
          BY <1>2, <3>1, PoolAssumption DEF MoveChunk, PioTypeOK
        <4> QED
          BY <1>2, <3>1, <4>1 DEF MoveChunk, PioTypeOK
      <3>2. CASE TransferReturns(w)
        BY <3>2 DEF TransferReturns, PioTypeOK
      <3> QED
        BY <3>1, <3>2
    <2>2. tpc' \in [Threads -> ThreadLabels]
      <3>1. tpc \in [Threads -> ThreadLabels] /\ "op" \in ThreadLabels
        BY DEF PioTypeOK, ThreadLabels
      <3> QED
        BY <1>1, <3>1
    <2> QED
      BY <1>1, <2>1, <2>2 DEF PioTypeOK
  <1>4. QueueSent' /\ QueueOrder' /\ SentPlaced' /\ LastAlone'
    BY <1>1, PlacesKept
  <1>5. SentBound' /\ UnsentUntouched'
    BY <1>1 DEF PoolInv, SentBound, UnsentUntouched, Sent, Running
  <1>6. ThreadsRun' /\ Joined'
    BY <1>1 DEF PoolInv, ThreadsRun, Joined, JoinedFor, IsLast, LastOf, NumSiblings, PartsOf,
                PioTypeOK
  <1>7. OutcomeLast' /\ ObservedWhenOver'
    BY <1>1 DEF PoolInv, OutcomeLast, ObservedWhenOver, Running, LastOf, PartsOf
  <1> QED
    BY <1>3, <1>4, <1>5, <1>6, <1>7 DEF PoolInv

\* An idle thread starts an open part t that no thread runs.
LEMMA PartStarts ==
    ASSUME PioTypeOK, PoolInv, NEW w \in Threads, NEW t \in Tasks,
           task[w] = NoTask, ~Running(t), verdict[t] = "open",
           w \in Shortcut => t = LastOf(w),
           task' = [task EXCEPT ![w] = t], tpc' = [tpc EXCEPT ![w] = "io"],
           UNCHANGED <<idx, moved, verdict, callVars>>
    PROVE  /\ \A u \in Tasks : Running(u)' <=> Running(u) \/ u = t
           /\ ThreadsRun' /\ Joined' /\ OutcomeLast' /\ ObservedWhenOver'
  <1>1. task[w] # t /\ t # NoTask /\ w \in Threads
    BY PoolAssumption
  <1>2. \A u \in Tasks : Running(u)' <=> Running(u) \/ u = t
    BY <1>1, PoolAssumption DEF Running, PioTypeOK
  <1>3. ThreadsRun'
    <2>1. tpc[w] = "idle"
      BY DEF PoolInv, ThreadsRun
    <2> QED
      BY <1>1, <2>1 DEF PoolInv, ThreadsRun, PioTypeOK, IsLast, LastOf, Running
  <1>4. Joined'
    <2>1. ASSUME NEW v \in Threads PROVE JoinedFor(v)'
      <3>1. CASE v = w
        BY <3>1 DEF JoinedFor, PioTypeOK
      <3>2. CASE v # w
        <4>1. task'[v] = task[v] /\ tpc'[v] = tpc[v] /\ idx'[v] = idx[v]
          BY <3>2 DEF PioTypeOK
        <4> QED
          BY <4>1 DEF PoolInv, Joined, JoinedFor, NumSiblings, PartsOf
      <3> QED
        BY <3>1, <3>2
    <2> QED
      BY <2>1 DEF Joined
  <1>5. OutcomeLast'
    <2>1. ASSUME NEW a \in Calls, outcome[a] # "pending"
          PROVE  verdict[LastOf(a)] # "open" /\ ~Running(LastOf(a))'
      BY <1>2, <2>1, LastFacts DEF PoolInv, OutcomeLast
    <2> QED
      BY <2>1 DEF OutcomeLast, LastOf
  <1>6. ObservedWhenOver'
    BY DEF PoolInv, ObservedWhenOver, PartsOf
  <1> QED
    BY <1>2, <1>3, <1>4, <1>5, <1>6

LEMMA StartShortcutInv ==
    ASSUME PioTypeOK, PoolInv, NEW a \in Calls, StartShortcut(a)
    PROVE  PioTypeOK' /\ PoolInv'
  <1> DEFINE t == LastOf(a)
  <1>1. /\ a \in Shortcut /\ a \in Threads /\ cpc[a] = "start"
        /\ task' = [task EXCEPT ![a] = t] /\ tpc' = [tpc EXCEPT ![a] = "io"]
        /\ cpc' = [cpc EXCEPT ![a] = "get"]
        /\ UNCHANGED <<queue, sent, idx, moved, verdict, callVars>>
    BY DEF StartShortcut, Threads
  <1>2. t \in Tasks /\ CallOf[t] = a
    BY LastFacts
  <1>3. verdict[t] = "open" /\ ~Running(t)
    BY <1>1, <1>2 DEF PoolInv, UnsentUntouched
  <1>4. task[a] = NoTask
    BY <1>1, <1>3 DEF PoolInv, ThreadsRun, Running
  <1>5. /\ \A u \in Tasks : Running(u)' <=> Running(u) \/ u = t
        /\ ThreadsRun' /\ Joined' /\ OutcomeLast' /\ ObservedWhenOver'
    BY <1>1, <1>2, <1>3, <1>4, PartStarts
  <1>6. PartsOf(a) = {t}
    <2>1. Len(Parts[a]) = 1
      BY <1>1, PartsAssumption
    <2> QED
      BY <1>2, <2>1, PartFacts DEF LastOf, PartsOf
  <1>7. \A u : (InQueue(u)' <=> InQueue(u)) /\ Sent(u)' = Sent(u)
    BY <1>1 DEF InQueue, Sent
  <1> HIDE DEF t
  <1>8. PioTypeOK'
    BY <1>1, <1>2 DEF PioTypeOK, ThreadLabels
  <1>9. SentBound'
    BY <1>1 DEF PoolInv, SentBound, PioTypeOK
  <1>10. QueueSent' /\ QueueOrder'
    <2>1. \A k \in 1..Len(queue) : queue[k] \in Tasks /\ queue[k] # t
      <3>1. Sent(a) = {}
        BY <1>1 DEF PoolInv, SentBound, Sent
      <3> QED
        BY <1>2, <3>1 DEF PoolInv, QueueSent, PioTypeOK
    <2>2. \A k \in 1..Len(queue) : ~Running(queue[k])'
      BY <1>1, <1>5, <2>1 DEF PoolInv, QueueSent
    <2>3. QueueSent'
      BY <1>1, <1>7, <2>2 DEF PoolInv, QueueSent, Sent, Running
    <2>4. QueueOrder'
      BY <1>1 DEF PoolInv, QueueOrder, Before
    <2> QED
      BY <2>3, <2>4
  <1>11. SentPlaced' /\ UnsentUntouched'
    BY <1>1, <1>2, <1>5, <1>7, CallOfType DEF PoolInv, SentPlaced, UnsentUntouched, PioTypeOK
  <1>12. LastAlone'
    <2>1. ASSUME NEW w \in Threads, task'[w] # NoTask, IsLast(task'[w]),
                 NEW u \in PartsOf(CallOf[task'[w]]), u # task'[w]
          PROVE  u \in Sent(CallOf[u]) /\ ~InQueue(u)
      <3>1. CASE w = a
        BY <1>1, <1>2, <1>6, <2>1, <3>1 DEF PioTypeOK
      <3>2. CASE w # a
        <4>1. task'[w] = task[w]
          BY <1>1, <3>2 DEF PioTypeOK
        <4> QED
          BY <2>1, <4>1 DEF PoolInv, LastAlone
      <3> QED
        BY <3>1, <3>2
    <2> QED
      BY <1>7, <2>1 DEF LastAlone, IsLast, LastOf, PartsOf
  <1> QED
    BY <1>5, <1>8, <1>9, <1>10, <1>11, <1>12 DEF PoolInv

LEMMA TakeTaskInv ==
    ASSUME PioTypeOK, PoolInv, NEW w \in Threads, TakeTask(w)
    PROVE  PioTypeOK' /\ PoolInv'
  <1> DEFINE t == Head(queue)
             a == CallOf[t]
  <1>1. /\ w \in Workers /\ w \in Threads /\ task[w] = NoTask /\ queue # <<>>
        /\ task' = [task EXCEPT ![w] = t] /\ tpc' = [tpc EXCEPT ![w] = "io"]
        /\ queue' = Tail(queue) /\ UNCHANGED <<sent, cpc, idx, moved, verdict, callVars>>
    BY DEF TakeTask
  <1>2. /\ t = queue[1] /\ t \in Tasks /\ Len(queue) \in Nat /\ 1 \in 1..Len(queue)
        /\ queue' \in Seq(Tasks) /\ Len(queue') = Len(queue) - 1
        /\ \A k \in 1..Len(queue') : queue'[k] = queue[k + 1] /\ k + 1 \in 1..Len(queue)
        /\ \A k \in 1..Len(queue) : queue[k] \in Tasks
    BY <1>1 DEF PioTypeOK
  <1>3. t \in Sent(a) /\ verdict[t] = "open" /\ ~Running(t) /\ a \in Calls
    BY <1>2, CallOfType DEF PoolInv, QueueSent
  <1>4. \A l \in 1..Len(queue) : l # 1 => queue[l] # t /\ ~Before(queue[l], t)
    BY <1>2 DEF PoolInv, QueueOrder
  <1>5. w \notin Shortcut
    BY <1>1, PoolAssumption
  <1>6. /\ \A u \in Tasks : Running(u)' <=> Running(u) \/ u = t
        /\ ThreadsRun' /\ Joined' /\ OutcomeLast' /\ ObservedWhenOver'
    BY <1>1, <1>2, <1>3, <1>5, PartStarts
  <1> HIDE DEF t
  <1>7. \A u \in Tasks : InQueue(u)' <=> InQueue(u) /\ u # t
    <2>1. ASSUME NEW u \in Tasks, NEW k \in 1..Len(queue'), queue'[k] = u
          PROVE  InQueue(u) /\ u # t
      BY <1>2, <1>4, <2>1 DEF InQueue
    <2>2. ASSUME NEW u \in Tasks, NEW l \in 1..Len(queue), queue[l] = u, u # t
          PROVE  InQueue(u)'
      <3>1. l - 1 \in 1..Len(queue')
        BY <1>2, <2>2
      <3>2. queue'[l - 1] = queue[(l - 1) + 1] /\ (l - 1) + 1 = l
        BY <1>2, <3>1
      <3> QED
        BY <2>2, <3>1, <3>2 DEF InQueue
    <2> QED
      BY <2>1, <2>2 DEF InQueue
  <1>8. \A b : Sent(b)' = Sent(b)
    BY <1>1 DEF Sent
  <1>9. PioTypeOK'
    BY <1>1, <1>2 DEF PioTypeOK, ThreadLabels
  <1>10. SentBound'
    BY <1>1 DEF PoolInv, SentBound
  <1>11. QueueSent'
    <2>1. ASSUME NEW k \in 1..Len(queue'), NEW u, u = queue'[k]
          PROVE  u \in Sent(CallOf[u])' /\ verdict'[u] = "open" /\ ~Running(u)'
      <3>1. /\ k + 1 \in 1..Len(queue) /\ u = queue[k + 1] /\ u \in Tasks /\ u # t
        BY <1>2, <1>4, <2>1
      <3> QED
        BY <1>1, <1>6, <1>8, <3>1 DEF PoolInv, QueueSent
    <2> QED
      BY <2>1 DEF QueueSent, Sent, Running
  <1>12. QueueOrder'
    <2>1. ASSUME NEW k \in 1..Len(queue'), NEW l \in 1..Len(queue'), k < l
          PROVE  queue'[k] # queue'[l] /\ ~Before(queue'[l], queue'[k])
      <3>1. /\ k + 1 \in 1..Len(queue) /\ queue'[k] = queue[k + 1]
            /\ l + 1 \in 1..Len(queue) /\ queue'[l] = queue[l + 1] /\ k + 1 < l + 1
        BY <1>2, <2>1
      <3> QED
        BY <3>1 DEF PoolInv, QueueOrder
    <2> QED
      BY <2>1 DEF QueueOrder, Before
  <1>13. SentPlaced'
    BY <1>1, <1>6, <1>7, <1>8 DEF PoolInv, SentPlaced
  <1>14. UnsentUntouched'
    <2>1. a \notin Shortcut
      BY <1>3 DEF PoolInv, SentBound, Sent
    <2> QED
      BY <1>1, <1>3, <1>6, <1>8, <2>1 DEF PoolInv, UnsentUntouched
  <1>15. LastAlone'
    <2>1. ASSUME IsLast(t), NEW u \in PartsOf(a), u # t
          PROVE  u \in Sent(CallOf[u]) /\ ~InQueue(u)'
      <3>1. t = LastOf(a) /\ CallOf[u] = a /\ u \in Tasks
        BY <2>1 DEF IsLast, PartsOf
      <3>2. sent[a] = Len(Parts[a])
        <4>1. PICK i \in 1..sent[a] : t = Parts[a][i]
          BY <1>3 DEF Sent
        <4>2. sent[a] \in Nat /\ sent[a] <= Len(Parts[a])
          BY <1>3 DEF PoolInv, SentBound, PioTypeOK
        <4>3. Len(Parts[a]) \in 1..Len(Parts[a]) /\ i \in 1..Len(Parts[a])
          BY <1>3, <4>2, PartFacts
        <4>4. i = Len(Parts[a])
          BY <1>3, <3>1, <4>1, <4>3, PartFacts DEF LastOf
        <4> QED
          BY <4>2, <4>4
      <3>3. u \in Sent(a)
        BY <1>3, <2>1, <3>2, PartFacts DEF Sent
      <3>4. Before(u, t)
        BY <1>3, <2>1, <3>1, SiblingsFirst
      <3>5. \A k \in 1..Len(queue') : queue'[k] # u
        BY <1>2, <1>4, <3>4
      <3> QED
        BY <3>1, <3>3, <3>5 DEF InQueue
    <2>2. ASSUME NEW v \in Threads, task'[v] # NoTask, IsLast(task'[v]),
                 NEW u \in PartsOf(CallOf[task'[v]]), u # task'[v]
          PROVE  u \in Sent(CallOf[u]) /\ ~InQueue(u)'
      <3>1. CASE v = w
        <4>1. task'[v] = t
          BY <1>1, <3>1 DEF PioTypeOK
        <4> QED
          BY <2>1, <2>2, <4>1
      <3>2. CASE v # w
        <4>1. task'[v] = task[v] /\ u \in Tasks
          BY <1>1, <2>2, <3>2 DEF PioTypeOK, PartsOf
        <4> QED
          BY <1>7, <2>2, <4>1 DEF PoolInv, LastAlone
      <3> QED
        BY <3>1, <3>2
    <2> QED
      BY <1>8, <2>2 DEF LastAlone, IsLast, LastOf, PartsOf
  <1> QED
    BY <1>6, <1>9, <1>10, <1>11, <1>12, <1>13, <1>14, <1>15 DEF PoolInv

\* What a thread has joined stays joined, since no part settles twice.
LEMMA JoinedKept ==
    ASSUME PioTypeOK, PoolInv, NEW v \in Threads,
           task'[v] = task[v], tpc'[v] = tpc[v], idx'[v] = idx[v],
           \A t \in Tasks : verdict[t] # "open" => verdict'[t] = verdict[t]
    PROVE  JoinedFor(v)'
  <1> DEFINE a == CallOf[task[v]]
  <1>1. CASE tpc[v] \in {"idle", "io", "op"}
    BY <1>1 DEF JoinedFor
  <1>2. CASE tpc[v] \in {"collect", "drain", "return", "throw"}
    <2>1. a \in Calls /\ task[v] \in Tasks /\ PartsOf(a) \subseteq Tasks
      BY <1>2, BusyThread DEF PoolInv, PartsOf
    <2>2. ASSUME tpc[v] \in {"collect", "drain"}, NEW i \in 1..idx[v] - 1
          PROVE  Parts[a][i] \in Tasks
      <3>1. idx[v] \in 1..NumSiblings(a) + 1
        BY <2>2 DEF PoolInv, Joined, JoinedFor
      <3>2. i \in 1..Len(Parts[a])
        BY <2>1, <3>1, PartFacts DEF NumSiblings
      <3> QED
        BY <2>1, <3>2, PartFacts
    <2>3. JoinedFor(v)
      BY DEF PoolInv, Joined
    <2> QED
      BY <2>1, <2>2, <2>3 DEF JoinedFor, NumSiblings, PartsOf
  <1> QED
    BY <1>1, <1>2 DEF PioTypeOK, ThreadLabels

\* The I/O of a part ends: `op` returns or throws.
LEMMA OpEndsInv ==
    ASSUME PioTypeOK, PoolInv, NEW w \in Threads, OpReturns(w) \/ OpThrows(w)
    PROVE  PioTypeOK' /\ PoolInv'
  <1> DEFINE t == task[w]
             a == CallOf[t]
  <1>1. /\ tpc[w] \in {"io", "op"}
        /\ UNCHANGED <<queueVars, moved, observed, outcome>>
    BY DEF OpReturns, OpThrows
  <1>2. t \in Tasks /\ t # NoTask /\ a \in Calls /\ t \in PartsOf(a)
    BY <1>1, BusyThread DEF PoolInv
  <1>3. verdict[t] = "open" /\ idx[w] = 1
    BY <1>1 DEF PoolInv, ThreadsRun
  <1>4. PICK v \in {"ok", "failed"} :
          /\ verdict' = [verdict EXCEPT ![t] = v]
          /\ \/ /\ IsLast(t) /\ UNCHANGED <<task, idx>>
                /\ tpc' = [tpc EXCEPT ![w] = IF v = "ok" THEN "collect" ELSE "drain"]
             \/ ~IsLast(t) /\ Rest(w)
    BY DEF OpReturns, OpThrows
  <1>5. /\ task'[w] \in {t, NoTask} /\ \A u \in Threads : u # w => task'[u] = task[u]
        /\ \A u \in Threads : u # w => tpc'[u] = tpc[u] /\ idx'[u] = idx[u]
        /\ idx'[w] = 1
    BY <1>3, <1>4 DEF Rest, PioTypeOK
  <1>6. \A u \in Tasks : u # t => verdict'[u] = verdict[u]
    BY <1>4 DEF PioTypeOK
  <1>7. verdict'[t] = v /\ v # "open"
    BY <1>2, <1>4 DEF PioTypeOK
  <1>8. \A u \in Tasks : (Running(u)' => Running(u)) /\ (u # t /\ Running(u) => Running(u)')
    <2>1. \A u \in Tasks : Running(u)' => Running(u)
      BY <1>5, PoolAssumption DEF Running
    <2>2. \A u \in Tasks : u # t /\ Running(u) => Running(u)'
      BY <1>5 DEF Running
    <2> QED
      BY <2>1, <2>2
  <1>9. \A b : (InQueue(b)' <=> InQueue(b)) /\ Sent(b)' = Sent(b)
    BY <1>1 DEF InQueue, Sent
  <1>10. Running(t)
    BY DEF Running
  <1> HIDE DEF t
  <1>11. PioTypeOK'
    <2>1. task' \in [Threads -> Tasks \cup {NoTask}] /\ idx' \in [Threads -> Nat]
      <3>1. task \in [Threads -> Tasks \cup {NoTask}] /\ idx \in [Threads -> Nat]
        BY DEF PioTypeOK
      <3>2. CASE UNCHANGED <<task, idx>>
        BY <3>1, <3>2
      <3>3. CASE Rest(w)
        BY <3>1, <3>3 DEF Rest
      <3> QED
        BY <1>4, <3>2, <3>3
    <2>2. tpc' \in [Threads -> ThreadLabels]
      <3>1. tpc \in [Threads -> ThreadLabels] /\ {"idle", "collect", "drain"} \subseteq ThreadLabels
        BY DEF PioTypeOK, ThreadLabels
      <3> QED
        BY <1>4, <3>1 DEF Rest
    <2>3. verdict' \in [Tasks -> {"open", "ok", "failed"}]
      BY <1>2, <1>4 DEF PioTypeOK
    <2>4. total' \in [Calls -> Nat]
      <3>1. moved[t] \in Nat
        BY <1>2, PoolAssumption DEF PioTypeOK
      <3>2. total' = total \/ total' = [total EXCEPT ![a] = moved[t]]
        BY DEF OpReturns, OpThrows, t
      <3> QED
        BY <3>1, <3>2 DEF PioTypeOK
    <2> QED
      BY <1>1, <2>1, <2>2, <2>3, <2>4 DEF PioTypeOK
  <1>12. SentBound' /\ QueueOrder'
    BY <1>1 DEF PoolInv, SentBound, QueueOrder, Before
  <1>13. QueueSent'
    <2>1. \A k \in 1..Len(queue) : queue[k] \in Tasks
      BY DEF PioTypeOK
    <2>2. \A k \in 1..Len(queue) : queue[k] # t
      BY DEF PoolInv, QueueSent, Running, t
    <2>3. \A k \in 1..Len(queue) : verdict'[queue[k]] = "open" /\ ~Running(queue[k])'
      BY <1>1, <1>6, <1>8, <2>1, <2>2 DEF PoolInv, QueueSent, Running
    <2> QED
      BY <1>1, <2>3 DEF PoolInv, QueueSent, Sent, Running
  <1>14. SentPlaced' /\ UnsentUntouched'
    BY <1>1, <1>6, <1>7, <1>8, <1>9, <1>10 DEF PoolInv, SentPlaced, UnsentUntouched
  <1>15. ThreadsRun'
    <2>1. ASSUME NEW u \in Threads, u # w
          PROVE  /\ task[u] # t
                 /\ task[u] # NoTask => task[u] \in Tasks /\ verdict'[task[u]] = verdict[task[u]]
      BY <1>2, <1>6, <2>1 DEF PoolInv, ThreadsRun, PioTypeOK, t
    <2>2. /\ task'[w] = NoTask <=> tpc'[w] = "idle"
          /\ tpc'[w] \notin {"io", "op"}
          /\ tpc'[w] \in {"collect", "drain", "return", "throw"} =>
                task'[w] = t /\ IsLast(t)
      BY <1>2, <1>4 DEF Rest, PioTypeOK, t
    <2>3. \A u \in Shortcut : task'[u] \in {NoTask, LastOf(u)}
      BY <1>5 DEF PoolInv, ThreadsRun, Threads, t
    <2> QED
      BY <1>5, <1>7, <2>1, <2>2, <2>3 DEF PoolInv, ThreadsRun, IsLast, LastOf
  <1>16. LastAlone'
    <2>1. \A u \in Threads : task'[u] # NoTask => task'[u] = task[u]
      BY <1>5 DEF t
    <2> QED
      BY <1>9, <2>1 DEF PoolInv, LastAlone, IsLast, LastOf, PartsOf
  <1>17. Joined'
    <2>1. ASSUME NEW u \in Threads, u # w PROVE JoinedFor(u)'
      BY <1>3, <1>5, <1>6, <2>1, JoinedKept
    <2>2. JoinedFor(w)'
      <3>1. CASE IsLast(t)
        <4>1. task'[w] = t /\ tpc'[w] = IF v = "ok" THEN "collect" ELSE "drain"
          BY <1>4, <3>1 DEF PioTypeOK, t
        <4>2. 1 \in 1..NumSiblings(a) + 1
          BY <1>2, PartFacts DEF NumSiblings
        <4> QED
          BY <1>2, <1>5, <1>7, <4>1, <4>2 DEF JoinedFor, NumSiblings, PartsOf
      <3>2. CASE ~IsLast(t)
        BY <1>4, <3>2 DEF Rest, JoinedFor, PioTypeOK
      <3> QED
        BY <3>1, <3>2
    <2> QED
      BY <2>1, <2>2 DEF Joined
  <1>18. OutcomeLast'
    <2>1. ASSUME NEW b \in Calls, outcome[b] # "pending"
          PROVE  verdict'[LastOf(b)] # "open" /\ ~Running(LastOf(b))'
      BY <1>3, <1>6, <1>8, <2>1, LastFacts DEF PoolInv, OutcomeLast
    <2> QED
      BY <1>1, <2>1 DEF OutcomeLast, LastOf
  <1>19. ObservedWhenOver'
    <2>1. ASSUME NEW b \in Calls, observed[b] # "none", NEW u \in PartsOf(b)
          PROVE  verdict'[u] = verdict[u]
      BY <1>3, <1>6, <2>1 DEF PoolInv, ObservedWhenOver, PartsOf
    <2> QED
      BY <1>1, <2>1 DEF PoolInv, ObservedWhenOver, PartsOf
  <1> QED
    BY <1>11, <1>12, <1>13, <1>14, <1>15, <1>16, <1>17, <1>18, <1>19 DEF PoolInv

\* A last part looks at its siblings' futures, or finishes the observation.
LEMMA JoiningInv ==
    ASSUME PioTypeOK, PoolInv, NEW w \in Threads,
           Collect(w) \/ Drain(w) \/ FinishObservation(w)
    PROVE  PioTypeOK' /\ PoolInv'
  <1> DEFINE t == task[w]
             a == CallOf[t]
             s == Parts[a][idx[w]]
  <1>1. /\ tpc[w] \in {"collect", "drain"}
        /\ UNCHANGED <<queueVars, task, moved, verdict, outcome>>
    BY DEF Collect, Drain, FinishObservation
  <1>2. t \in Tasks /\ t # NoTask /\ a \in Calls /\ t \in PartsOf(a) /\ t = LastOf(a)
    BY <1>1, BusyThread DEF PoolInv, ThreadsRun, IsLast
  <1>3. /\ idx[w] \in 1..NumSiblings(a) + 1 /\ JoinedFor(w) /\ verdict[t] # "open"
        /\ NumSiblings(a) = Len(Parts[a]) - 1 /\ Len(Parts[a]) \in Nat
    BY <1>1, <1>2, PartFacts DEF PoolInv, Joined, JoinedFor, ThreadsRun, NumSiblings
  <1>4. /\ \A v \in Threads : v # w => tpc'[v] = tpc[v] /\ idx'[v] = idx[v]
        /\ tpc'[w] \in {"collect", "drain", "return", "throw"}
    BY <1>1 DEF Collect, Drain, FinishObservation, PioTypeOK
  <1> HIDE DEF t
  <1>5. PioTypeOK'
    <2>1. idx' \in [Threads -> Nat]
      BY DEF Collect, Drain, FinishObservation, PioTypeOK
    <2>2. tpc' \in [Threads -> ThreadLabels]
      <3>1. tpc \in [Threads -> ThreadLabels] /\ {"drain", "return", "throw"} \subseteq ThreadLabels
        BY DEF PioTypeOK, ThreadLabels
      <3> QED
        BY <3>1 DEF Collect, Drain, FinishObservation
    <2>3. total' \in [Calls -> Nat]
      <3>1. CASE Collect(w)
        <4>1. s \in Tasks /\ moved[s] \in Nat
          <5>1. idx[w] \in 1..Len(Parts[a])
            BY <1>3, <3>1 DEF Collect, SiblingReady, t
          <5>2. s \in Tasks
            BY <1>2, <5>1, PartFacts
          <5> QED
            BY <5>2, PoolAssumption DEF PioTypeOK
        <4>2. total[a] + moved[s] \in Nat
          BY <1>2, <4>1 DEF PioTypeOK
        <4>3. total' = total \/ total' = [total EXCEPT ![a] = total[a] + moved[s]]
          BY <3>1 DEF Collect, t
        <4> QED
          BY <4>2, <4>3 DEF PioTypeOK
      <3>2. CASE Drain(w) \/ FinishObservation(w)
        BY <3>2 DEF Drain, FinishObservation, PioTypeOK
      <3> QED
        BY <3>1, <3>2
    <2>4. observed' \in [Calls -> {"none", "ok", "failed"}]
      BY DEF Collect, Drain, FinishObservation, PioTypeOK
    <2> QED
      BY <1>1, <2>1, <2>2, <2>3, <2>4 DEF PioTypeOK
  <1>6. QueueSent' /\ QueueOrder' /\ SentPlaced' /\ LastAlone'
    BY <1>1, PlacesKept
  <1>7. SentBound' /\ UnsentUntouched'
    BY <1>1 DEF PoolInv, SentBound, UnsentUntouched, Sent, Running
  <1>8. ThreadsRun'
    BY <1>1, <1>2, <1>4 DEF PoolInv, ThreadsRun, IsLast, LastOf, t
  <1>9. \A u \in PartsOf(a) : u = t \/ \E i \in 1..NumSiblings(a) : u = Parts[a][i]
    BY <1>2, <1>3, PartFacts DEF LastOf
  <1>10. AllJoined(w) => idx[w] - 1 = NumSiblings(a)
    BY <1>3 DEF AllJoined, t
  <1>11. AllJoined(w) => /\ \A u \in PartsOf(a) : verdict[u] # "open"
                         /\ tpc[w] = "collect" => \A u \in PartsOf(a) : verdict[u] = "ok"
                         /\ tpc[w] = "drain" => \E u \in PartsOf(a) : verdict[u] = "failed"
    BY <1>1, <1>3, <1>9, <1>10 DEF JoinedFor, t
  <1>12. Joined'
    <2>1. ASSUME NEW v \in Threads, v # w PROVE JoinedFor(v)'
      BY <1>1, <1>4, <2>1, JoinedKept
    <2>2. JoinedFor(w)'
      <3>1. CASE Collect(w) \/ Drain(w)
        <4>1. /\ idx'[w] = idx[w] + 1 /\ idx[w] \in 1..NumSiblings(a) /\ verdict[s] # "open"
              /\ task'[w] = t
          BY <1>3, <3>1 DEF Collect, Drain, SiblingReady, PioTypeOK, t
        <4>2. \A i \in 1..idx'[w] - 1 : i \in 1..idx[w] - 1 \/ i = idx[w]
          BY <1>3, <4>1
        <4>3. \/ tpc[w] = "collect" /\ verdict[s] = "ok" /\ tpc'[w] = "collect"
              \/ tpc[w] = "collect" /\ verdict[s] = "failed" /\ tpc'[w] = "drain"
              \/ tpc[w] = "drain" /\ tpc'[w] = "drain"
          <5>1. s \in Tasks
            BY <1>2, <1>3, <4>1, PartFacts
          <5> QED
            BY <3>1, <4>1, <5>1 DEF Collect, Drain, PioTypeOK, t
        <4>4. s \in PartsOf(a)
          BY <1>2, <1>3, <4>1, PartFacts DEF PartsOf
        <4>5. /\ idx'[w] \in 1..NumSiblings(a) + 1
              /\ \A i \in 1..idx'[w] - 1 : verdict[Parts[a][i]] # "open"
          BY <1>1, <1>3, <4>1, <4>2 DEF JoinedFor, t
        <4>6. tpc'[w] = "collect" =>
                verdict[t] = "ok" /\ \A i \in 1..idx'[w] - 1 : verdict[Parts[a][i]] = "ok"
          BY <1>3, <4>2, <4>3 DEF JoinedFor, t
        <4>7. tpc'[w] = "drain" => \E u \in PartsOf(a) : verdict[u] = "failed"
          BY <1>3, <4>3, <4>4 DEF JoinedFor, t
        <4> QED
          BY <1>1, <4>1, <4>3, <4>5, <4>6, <4>7 DEF JoinedFor, NumSiblings, PartsOf
      <3>2. CASE FinishObservation(w)
        <4>1. /\ AllJoined(w) /\ task'[w] = t
              /\ tpc'[w] = IF tpc[w] = "collect" THEN "return" ELSE "throw"
          BY <3>2 DEF FinishObservation, PioTypeOK, t
        <4> QED
          BY <1>1, <1>11, <4>1 DEF JoinedFor, PartsOf
      <3> QED
        BY <3>1, <3>2
    <2> QED
      BY <2>1, <2>2 DEF Joined
  <1>13. OutcomeLast'
    BY <1>1 DEF PoolInv, OutcomeLast, Running, LastOf
  <1>14. ObservedWhenOver'
    <2>1. CASE FinishObservation(w)
      <3>1. /\ AllJoined(w)
            /\ observed' = [observed EXCEPT ![a] = IF tpc[w] = "collect" THEN "ok" ELSE "failed"]
        BY <2>1 DEF FinishObservation, t
      <3>2. ASSUME NEW b \in Calls, observed'[b] # "none"
            PROVE  /\ \A u \in PartsOf(b) : verdict[u] # "open"
                   /\ observed'[b] = "failed" <=> \E u \in PartsOf(b) : verdict[u] = "failed"
        <4>1. CASE b = a
          BY <1>1, <1>2, <1>11, <3>1, <4>1 DEF PioTypeOK
        <4>2. CASE b # a
          BY <3>1, <3>2, <4>2 DEF PoolInv, ObservedWhenOver, PioTypeOK
        <4> QED
          BY <4>1, <4>2
      <3> QED
        BY <1>1, <3>2 DEF ObservedWhenOver, PartsOf
    <2>2. CASE Collect(w) \/ Drain(w)
      BY <2>2 DEF Collect, Drain, PoolInv, ObservedWhenOver, PartsOf
    <2> QED
      BY <2>1, <2>2
  <1> QED
    BY <1>5, <1>6, <1>7, <1>8, <1>12, <1>13, <1>14 DEF PoolInv

LEMMA LastReturnsInv ==
    ASSUME PioTypeOK, PoolInv, NEW w \in Threads, LastReturns(w)
    PROVE  PioTypeOK' /\ PoolInv'
  <1> DEFINE t == task[w]
             a == CallOf[t]
  <1>1. /\ tpc[w] \in {"return", "throw"}
        /\ outcome' = [outcome EXCEPT ![a] = IF tpc[w] = "return" THEN "value" ELSE "exception"]
        /\ Rest(w) /\ UNCHANGED <<queueVars, moved, verdict, total, observed>>
    BY DEF LastReturns
  <1>2. /\ t \in Tasks /\ t # NoTask /\ a \in Calls /\ t = LastOf(a) /\ verdict[t] # "open"
    BY <1>1, BusyThread DEF PoolInv, ThreadsRun, IsLast
  <1>3. /\ task'[w] = NoTask /\ tpc'[w] = "idle" /\ idx'[w] = 1
        /\ \A v \in Threads : v # w =>
             task'[v] = task[v] /\ tpc'[v] = tpc[v] /\ idx'[v] = idx[v]
    BY <1>1 DEF Rest, PioTypeOK
  <1>4. \A u \in Tasks : Running(u)' <=> Running(u) /\ u # t
    <2>1. \A v \in Threads : v # w => task[v] # t
      BY <1>2 DEF PoolInv, ThreadsRun
    <2> QED
      BY <1>2, <1>3, <2>1, PoolAssumption DEF Running
  <1>5. \A b : (InQueue(b)' <=> InQueue(b)) /\ Sent(b)' = Sent(b)
    BY <1>1 DEF InQueue, Sent
  <1>6. PioTypeOK'
    <2>1. tpc' \in [Threads -> ThreadLabels]
      BY <1>1 DEF Rest, PioTypeOK, ThreadLabels
    <2>2. outcome' \in [Calls -> {"pending", "value", "exception"}]
      BY <1>1 DEF PioTypeOK
    <2> QED
      BY <1>1, <2>1, <2>2 DEF Rest, PioTypeOK
  <1> HIDE DEF t
  <1>7. SentBound' /\ QueueOrder'
    BY <1>1 DEF PoolInv, SentBound, QueueOrder, Before
  <1>8. QueueSent'
    <2>1. \A k \in 1..Len(queue) : queue[k] \in Tasks
      BY DEF PioTypeOK
    <2>2. \A k \in 1..Len(queue) : ~Running(queue[k])'
      BY <1>1, <1>4, <2>1 DEF PoolInv, QueueSent, Running
    <2> QED
      BY <1>1, <2>2 DEF PoolInv, QueueSent, Sent, Running
  <1>9. SentPlaced' /\ UnsentUntouched'
    BY <1>1, <1>2, <1>4, <1>5 DEF PoolInv, SentPlaced, UnsentUntouched
  <1>10. ThreadsRun'
    <2>1. \A u \in Shortcut : u \in Threads
      BY DEF Threads
    <2> QED
      BY <1>1, <1>3, <2>1 DEF PoolInv, ThreadsRun, IsLast, LastOf
  <1>11. LastAlone'
    BY <1>3, <1>5 DEF PoolInv, LastAlone, IsLast, LastOf, PartsOf
  <1>12. Joined'
    <2>1. ASSUME NEW v \in Threads, v # w PROVE JoinedFor(v)'
      BY <1>1, <1>3, <2>1, JoinedKept
    <2>2. JoinedFor(w)'
      BY <1>3 DEF JoinedFor
    <2> QED
      BY <2>1, <2>2 DEF Joined
  <1>13. OutcomeLast'
    <2>1. ASSUME NEW b \in Calls, outcome'[b] # "pending"
          PROVE  verdict[LastOf(b)] # "open" /\ ~Running(LastOf(b))'
      <3>1. CASE b = a
        BY <1>2, <1>4, <3>1
      <3>2. CASE b # a
        <4>1. outcome[b] # "pending"
          BY <1>1, <2>1, <3>2 DEF PioTypeOK
        <4> QED
          BY <1>4, <4>1, LastFacts DEF PoolInv, OutcomeLast
      <3> QED
        BY <3>1, <3>2
    <2> QED
      BY <1>1, <2>1 DEF OutcomeLast, LastOf
  <1>14. ObservedWhenOver'
    BY <1>1 DEF PoolInv, ObservedWhenOver, PartsOf
  <1> QED
    BY <1>6, <1>7, <1>8, <1>9, <1>10, <1>11, <1>12, <1>13, <1>14 DEF PoolInv

LEMMA NextPoolInv == PioTypeOK /\ PoolInv /\ [PioNext]_pioVars => PioTypeOK' /\ PoolInv'
  <1> SUFFICES ASSUME PioTypeOK, PoolInv, [PioNext]_pioVars PROVE PioTypeOK' /\ PoolInv'
    OBVIOUS
  <1>1. ASSUME NEW a \in Calls, CallerStep(a) PROVE PioTypeOK' /\ PoolInv'
    BY <1>1, SubmitPartInv, StartShortcutInv, GetResultInv DEF CallerStep
  <1>2. ASSUME NEW w \in Threads, ThreadStep(w) PROVE PioTypeOK' /\ PoolInv'
    BY <1>2, TakeTaskInv, TransferInv, OpEndsInv, JoiningInv, LastReturnsInv
    DEF ThreadStep, JoinStep
  <1>3. CASE UNCHANGED pioVars
    <2> USE <1>3 DEF pioVars
    <2>1. PioTypeOK'
      BY DEF PioTypeOK
    <2>2. QueueSent' /\ QueueOrder' /\ SentPlaced' /\ LastAlone'
      BY PlacesKept
    <2>3. SentBound' /\ UnsentUntouched'
      BY DEF PoolInv, SentBound, UnsentUntouched, Sent, Running
    <2>4. ThreadsRun' /\ Joined'
      BY DEF PoolInv, ThreadsRun, Joined, JoinedFor, IsLast, LastOf, NumSiblings, PartsOf
    <2>5. OutcomeLast' /\ ObservedWhenOver'
      BY DEF PoolInv, OutcomeLast, ObservedWhenOver, Running, LastOf, PartsOf
    <2> QED
      BY <2>1, <2>2, <2>3, <2>4, <2>5 DEF PoolInv
  <1> QED
    BY <1>1, <1>2, <1>3 DEF PioNext

LEMMA PoolInvariant == PioSpec => [](PioTypeOK /\ PoolInv)
  <1> QED
    BY InitPoolInv, NextPoolInv, PTL DEF PioSpec

\* FileHandle does with the pool what parallel_io() does: its steps are steps of
\* ParallelIo or leave it alone.
LEMMA FileHandleUsesPool == Spec => PioSpec
  <1>1. Init => PioInit
    BY DEF Init
  <1>2. [Next]_vars => [PioNext]_pioVars
    <2> SUFFICES ASSUME [Next]_vars PROVE PioNext \/ UNCHANGED pioVars
      OBVIOUS
    <2>1. ASSUME NEW a \in Calls, BeginCall(a) \/ ContinueCall(a) PROVE PioNext
      BY <2>1 DEF BeginCall, ContinueCall, PioNext, CallerStep
    <2>2. ASSUME NEW w \in Threads, RunStep(w) PROVE PioNext
      BY <2>2 DEF RunStep, Transfer, EndOp, OtherStep, PioNext, ThreadStep
    <2>3. ASSUME NEW q \in Clients, ClientStep(q) PROVE UNCHANGED pioVars
      BY <2>3 DEF ClientStep, LoadSize, GetFileSize, StoreSize
    <2>4. CASE UNCHANGED vars
      BY <2>4 DEF vars
    <2> QED
      BY <2>1, <2>2, <2>3, <2>4 DEF Next
  <1> QED
    BY <1>1, <1>2, PTL DEF Spec, PioSpec

-------------------------------------------------------------------------------
(* The theorems.                                                           *)

\* However few workers and however many calls share the pool, a last part that waits
\* in a worker waits for a part some other thread is transferring: parallel_io()
\* cannot bring all the workers to wait for each other.
THEOREM WorkersNeverDeadlock == Spec => []WaitsOnRunning
  <1>1. PioTypeOK /\ PoolInv => WaitsOnRunning
    <2> SUFFICES ASSUME PioTypeOK, PoolInv, NEW w \in Threads,
                        tpc[w] \in {"collect", "drain"}, ~AllJoined(w),
                        verdict[Parts[CallOf[task[w]]][idx[w]]] = "open"
                 PROVE  \E v \in Threads : /\ task[v] = Parts[CallOf[task[w]]][idx[w]]
                                            /\ tpc[v] \in {"io", "op"}
      BY DEF WaitsOnRunning
    <2> DEFINE a == CallOf[task[w]]
               s == Parts[a][idx[w]]
    <2>1. a \in Calls /\ task[w] # NoTask /\ task[w] = LastOf(a)
      BY BusyThread DEF PoolInv, ThreadsRun, IsLast
    <2>2. idx[w] \in 1..Len(Parts[a]) - 1 /\ Len(Parts[a]) \in Nat
      BY <2>1, PartFacts DEF AllJoined, PoolInv, Joined, JoinedFor, NumSiblings
    <2>3. s \in Tasks /\ s \in PartsOf(a)
      BY <2>1, <2>2, PartFacts DEF PartsOf
    <2>4. s # task[w]
      BY <2>3 DEF PoolInv, ThreadsRun
    <2>5. s \in Sent(CallOf[s]) /\ ~InQueue(s)
      BY <2>1, <2>3, <2>4 DEF PoolInv, LastAlone, IsLast
    <2>6. PICK v \in Threads : task[v] = s
      BY <2>3, <2>5 DEF PoolInv, SentPlaced, Running
    <2>7. tpc[v] \in {"io", "op"}
      BY <2>3, <2>6, PoolAssumption DEF PoolInv, ThreadsRun, PioTypeOK, ThreadLabels
    <2> QED
      BY <2>6, <2>7
  <1> QED
    BY <1>1, FileHandleUsesPool, PoolInvariant, PTL

\* An observation is emitted when no part of the operation can run any more, and it
\* reports what happened to them.
THEOREM ObservationsAreFinal == Spec => []ObservedWhenOver
  <1>1. PoolInv => ObservedWhenOver
    BY DEF PoolInv
  <1> QED
    BY <1>1, FileHandleUsesPool, PoolInvariant, PTL

\* Every step of the pool is a step of the contract or invisible to it.
LEMMA PoolStepRefines ==
    PioTypeOK /\ PoolInv /\ [PioNext]_pioVars => [Contract!ReadNext]_Contract!readVars
  <1> SUFFICES ASSUME PioTypeOK, PoolInv, [PioNext]_pioVars
               PROVE  Contract!ReadNext \/ UNCHANGED <<moved, verdict, outcome>>
    BY DEF Contract!readVars
  <1>1. ASSUME NEW a \in Calls, CallerStep(a) PROVE UNCHANGED <<moved, verdict, outcome>>
    BY <1>1 DEF CallerStep, SubmitPart, StartShortcut, GetResult
  <1>2. ASSUME NEW w \in Threads, MoveChunk(w) PROVE Contract!ReadNext
    <2>1. task[w] \in Tasks /\ verdict[task[w]] = "open"
      BY <1>2, BusyThread DEF MoveChunk, PoolInv, ThreadsRun
    <2>2. moved[task[w]] + 1 \in 0..PartSize
      BY <1>2, <2>1, PoolAssumption DEF MoveChunk, PioTypeOK
    <2>3. moved' = [moved EXCEPT ![task[w]] = moved[task[w]] + 1] /\ UNCHANGED <<verdict, outcome>>
      BY <1>2 DEF MoveChunk
    <2>4. Contract!Write(task[w])
      BY <2>1, <2>2, <2>3 DEF Contract!Write
    <2> QED
      BY <2>1, <2>4 DEF Contract!ReadNext
  <1>3. ASSUME NEW w \in Threads, OpReturns(w) \/ OpThrows(w) PROVE Contract!ReadNext
    <2>1. task[w] \in Tasks /\ verdict[task[w]] = "open"
      BY <1>3, BusyThread DEF OpReturns, OpThrows, PoolInv, ThreadsRun
    <2>2. /\ \/ verdict' = [verdict EXCEPT ![task[w]] = "ok"]
             \/ verdict' = [verdict EXCEPT ![task[w]] = "failed"]
          /\ UNCHANGED <<moved, outcome>>
      BY <1>3 DEF OpReturns, OpThrows
    <2> QED
      BY <2>1, <2>2 DEF Contract!ReadNext, Contract!Settle
  <1>4. ASSUME NEW w \in Threads, LastReturns(w) PROVE Contract!ReadNext
    <2> DEFINE a == CallOf[task[w]]
    <2>1. /\ tpc[w] \in {"return", "throw"} /\ UNCHANGED <<moved, verdict>>
          /\ outcome' = [outcome EXCEPT ![a] = IF tpc[w] = "return" THEN "value" ELSE "exception"]
      BY <1>4 DEF LastReturns
    <2>2. a \in Calls /\ task[w] = LastOf(a)
      BY <2>1, BusyThread DEF PoolInv, ThreadsRun, IsLast
    <2>3. outcome[a] = "pending"
      BY <2>2 DEF PoolInv, OutcomeLast, Running
    <2>4. /\ \A t \in PartsOf(a) : verdict[t] # "open"
          /\ tpc[w] = "return" <=> ~\E t \in PartsOf(a) : verdict[t] = "failed"
      BY <2>1 DEF PoolInv, Joined, JoinedFor
    <2>5. Contract!SubrangesOf(a) = PartsOf(a)
      BY DEF Contract!SubrangesOf, PartsOf
    <2>6. Contract!Resolve(a)
      BY <2>1, <2>3, <2>4, <2>5 DEF Contract!Resolve
    <2> QED
      BY <2>2, <2>6 DEF Contract!ReadNext
  <1>5. ASSUME NEW w \in Threads,
               TakeTask(w) \/ TransferReturns(w) \/ Collect(w) \/ Drain(w) \/ FinishObservation(w)
        PROVE  UNCHANGED <<moved, verdict, outcome>>
    BY <1>5 DEF TakeTask, TransferReturns, Collect, Drain, FinishObservation
  <1>6. CASE UNCHANGED pioVars
    BY <1>6 DEF pioVars
  <1> QED
    BY <1>1, <1>2, <1>3, <1>4, <1>5, <1>6 DEF PioNext, ThreadStep, JoinStep

\* pread() and pwrite() of FileHandle keep the contract of ParallelRead: the future is
\* ready once, after every part is over, with an exception exactly if one failed, and
\* no part touches the caller's memory from then on.
THEOREM PoolKeepsContract == Spec => PoolImplements
  <1>1. PioInit => Contract!ReadInit
    BY DEF PioInit, Contract!ReadInit
  <1> QED
    BY <1>1, PoolStepRefines, FileHandleUsesPool, PoolInvariant, PTL
    DEF PioSpec, PoolImplements, Contract!ReadSpec

\* Every variable has its type; a part never moves more than its size.
THEOREM FileHandleTypes == Spec => []TypeOK
  <1> DEFINE SizeTyped == /\ fileSize \in Nat /\ nbytes \in Nat
                          /\ qpc \in [Clients -> {"idle", "stat", "store"}]
                          /\ qval \in [Clients -> Nat]
  <1>1. Init => SizeTyped
    BY FileAssumption DEF Init
  <1>2. PioTypeOK /\ PoolInv /\ SizeTyped /\ [Next]_vars => SizeTyped'
    <2> SUFFICES ASSUME PioTypeOK, PoolInv, SizeTyped, [Next]_vars PROVE SizeTyped'
      OBVIOUS
    <2>1. ASSUME NEW a \in Calls, BeginCall(a) \/ ContinueCall(a) PROVE SizeTyped'
      BY <2>1 DEF BeginCall, ContinueCall, Invalidate, sizeVars, clientVars
    <2>2. ASSUME NEW w \in Threads, Transfer(w) PROVE SizeTyped'
      <3>1. task[w] \in Tasks
        BY <2>2, BusyThread DEF Transfer, MoveChunk, PoolInv
      <3>2. Start[task[w]] + moved[task[w]] + 1 \in Nat
        BY <3>1, FileAssumption, PoolAssumption DEF PioTypeOK
      <3> QED
        BY <2>2, <3>2 DEF Transfer, clientVars
    <2>3. ASSUME NEW w \in Threads, EndOp(w) \/ OtherStep(w) PROVE SizeTyped'
      BY <2>3 DEF EndOp, OtherStep, Invalidate, sizeVars, clientVars
    <2>4. ASSUME NEW q \in Clients, ClientStep(q) PROVE SizeTyped'
      BY <2>4 DEF ClientStep, LoadSize, GetFileSize, StoreSize
    <2>5. CASE UNCHANGED vars
      BY <2>5 DEF vars, sizeVars, clientVars
    <2> QED
      BY <2>1, <2>2, <2>3, <2>4, <2>5 DEF Next, RunStep
  <1>3. PioTypeOK /\ SizeTyped => TypeOK
    BY DEF TypeOK
  <1> HIDE DEF SizeTyped
  <1> QED
    BY <1>1, <1>2, <1>3, FileHandleUsesPool, PoolInvariant, PTL DEF Spec

-------------------------------------------------------------------------------
(* The value of the caller's future.                                       *)

\* The parts whose results the last part on thread w has added to `ret`.
Counted(w) == {task[w]} \cup {Parts[CallOf[task[w]]][i] : i \in 1..(idx[w] - 1)}

\* `ret` is what the counted parts transferred, and what all of them did from the end
\* of the loop on: a part that is over moves no byte any more.
SumFor(w) ==
    /\ tpc[w] = "collect" => total[CallOf[task[w]]] = Tally(moved, Counted(w))
    /\ tpc[w] = "return" => total[CallOf[task[w]]] = Tally(moved, PartsOf(CallOf[task[w]]))

SumDone(a) ==
    outcome[a] = "value" => /\ \A t \in PartsOf(a) : verdict[t] = "ok"
                            /\ total[a] = Tally(moved, PartsOf(a))

SumInv == (\A w \in Threads : SumFor(w)) /\ (\A a \in Calls : SumDone(a))

\* What a step leaves alone: the bytes of the parts that are over.
OverKept == \A t \in Tasks : verdict[t] = "ok" => verdict'[t] = "ok" /\ moved'[t] = moved[t]

LEMMA TallyKept ==
    ASSUME PioTypeOK, OverKept, NEW S \in SUBSET Tasks, \A t \in S : verdict[t] = "ok"
    PROVE  Tally(moved', S) = Tally(moved, S)
  <1>1. IsFiniteSet(S)
    BY PoolAssumption, FS_Subset
  <1>2. \A t \in S : moved[t] \in Int /\ moved[t] = moved'[t]
    BY DEF PioTypeOK, OverKept
  <1>3. Tally(moved, S) = Tally(moved', S)
    BY <1>1, <1>2, TallyAgrees
  <1> QED
    BY <1>3

\* The parts a thread has counted are over, and belong to its call.
LEMMA CountedFacts ==
    ASSUME PioTypeOK, PoolInv, NEW w \in Threads, tpc[w] = "collect"
    PROVE  /\ Counted(w) \in SUBSET Tasks /\ Counted(w) \subseteq PartsOf(CallOf[task[w]])
           /\ \A t \in Counted(w) : verdict[t] = "ok"
  <1> DEFINE a == CallOf[task[w]]
  <1>1. a \in Calls /\ task[w] \in PartsOf(a)
    BY BusyThread DEF PoolInv
  <1>2. /\ idx[w] \in 1..NumSiblings(a) + 1 /\ verdict[task[w]] = "ok"
        /\ \A i \in 1..idx[w] - 1 : verdict[Parts[a][i]] = "ok"
    BY DEF PoolInv, Joined, JoinedFor
  <1>3. \A i \in 1..(idx[w] - 1) : i \in 1..Len(Parts[a]) /\ verdict[Parts[a][i]] = "ok"
    BY <1>1, <1>2, PartFacts DEF NumSiblings
  <1>4. \A i \in 1..(idx[w] - 1) : Parts[a][i] \in PartsOf(a)
    BY <1>1, <1>3, PartFacts DEF PartsOf
  <1> QED
    BY <1>1, <1>2, <1>3, <1>4 DEF Counted, PartsOf

\* Two threads that collect do so for two calls, and a call that is over has none.
LEMMA OneCollector ==
    ASSUME PioTypeOK, PoolInv, NEW w \in Threads, tpc[w] # "idle", IsLast(task[w])
    PROVE  /\ \A v \in Threads : /\ v # w
                                 /\ tpc[v] \in {"collect", "return"}
                                 => CallOf[task[v]] # CallOf[task[w]]
           /\ outcome[CallOf[task[w]]] = "pending"
  <1>1. task[w] \in Tasks /\ task[w] # NoTask /\ CallOf[task[w]] \in Calls
    BY BusyThread DEF PoolInv
  <1>2. ASSUME NEW v \in Threads, v # w, tpc[v] \in {"collect", "return"}
        PROVE  CallOf[task[v]] # CallOf[task[w]]
    BY <1>1, <1>2 DEF PoolInv, ThreadsRun, IsLast
  <1>3. Running(LastOf(CallOf[task[w]]))
    BY DEF Running, IsLast
  <1> QED
    BY <1>1, <1>2, <1>3 DEF PoolInv, OutcomeLast

\* A thread that goes on as it was, and a call whose future is as it was.
LEMMA SumForKept ==
    ASSUME PioTypeOK, PoolInv, SumInv, OverKept, NEW v \in Threads,
           tpc'[v] \in {"collect", "return"} =>
              /\ tpc'[v] = tpc[v] /\ task'[v] = task[v] /\ idx'[v] = idx[v]
              /\ total'[CallOf[task[v]]] = total[CallOf[task[v]]]
    PROVE  SumFor(v)'
  <1>1. ASSUME tpc'[v] = "collect"
        PROVE  total'[CallOf[task'[v]]] = Tally(moved', Counted(v)')
    <2>1. Counted(v)' = Counted(v)
      BY <1>1 DEF Counted
    <2>2. Tally(moved', Counted(v)) = Tally(moved, Counted(v))
      BY <1>1, CountedFacts, TallyKept
    <2> QED
      BY <1>1, <2>1, <2>2 DEF SumInv, SumFor
  <1>2. ASSUME tpc'[v] = "return"
        PROVE  total'[CallOf[task'[v]]] = Tally(moved', PartsOf(CallOf[task'[v]]))
    <2>1. /\ PartsOf(CallOf[task[v]]) \in SUBSET Tasks
          /\ \A t \in PartsOf(CallOf[task[v]]) : verdict[t] = "ok"
      BY <1>2 DEF PoolInv, Joined, JoinedFor, PartsOf
    <2>2. Tally(moved', PartsOf(CallOf[task[v]])) = Tally(moved, PartsOf(CallOf[task[v]]))
      BY <2>1, TallyKept
    <2> QED
      BY <1>2, <2>2 DEF SumInv, SumFor
  <1> QED
    BY <1>1, <1>2 DEF SumFor

LEMMA SumDoneKept ==
    ASSUME PioTypeOK, SumInv, OverKept, NEW a \in Calls, 
           outcome'[a] = "value" => outcome[a] = "value" /\ total'[a] = total[a]
    PROVE  SumDone(a)'
  <1> SUFFICES ASSUME outcome'[a] = "value"
               PROVE  /\ \A t \in PartsOf(a) : verdict'[t] = "ok"
                      /\ total'[a] = Tally(moved', PartsOf(a))
    BY DEF SumDone
  <1>1. /\ \A t \in PartsOf(a) : verdict[t] = "ok" /\ t \in Tasks
        /\ total[a] = Tally(moved, PartsOf(a)) /\ total'[a] = total[a]
    BY DEF SumInv, SumDone, PartsOf
  <1>2. Tally(moved', PartsOf(a)) = Tally(moved, PartsOf(a))
    <2>1. PartsOf(a) \in SUBSET Tasks
      BY DEF PartsOf
    <2> QED
      BY <1>1, <2>1, TallyKept
  <1> QED
    BY <1>1, <1>2 DEF OverKept

\* Steps that neither add to `ret` nor make a future ready.
LEMMA SumKept ==
    ASSUME PioTypeOK, PoolInv, SumInv, OverKept, UNCHANGED <<total, outcome>>,
           \A v \in Threads : tpc'[v] \in {"collect", "return"} =>
              tpc'[v] = tpc[v] /\ task'[v] = task[v] /\ idx'[v] = idx[v]
    PROVE  SumInv'
  <1>1. \A v \in Threads : SumFor(v)'
    BY SumForKept
  <1>2. \A a \in Calls : SumDone(a)'
    BY SumDoneKept
  <1> QED
    BY <1>1, <1>2 DEF SumInv

\* The last part starts with its own bytes.
LEMMA OpReturnsSum ==
    ASSUME PioTypeOK, PoolInv, SumInv, NEW w \in Threads, OpReturns(w)
    PROVE  SumInv'
  <1> DEFINE t == task[w]
             a == CallOf[t]
  <1>1. /\ t \in Tasks /\ a \in Calls /\ tpc[w] = "op" /\ verdict[t] = "open" /\ idx[w] = 1
        /\ moved[t] \in Int
    BY BusyThread DEF OpReturns, PoolInv, ThreadsRun, PioTypeOK
  <1>2. /\ verdict' = [verdict EXCEPT ![t] = "ok"] /\ UNCHANGED <<moved, outcome>>
        /\ IF IsLast(t)
           THEN /\ tpc' = [tpc EXCEPT ![w] = "collect"]
                /\ total' = [total EXCEPT ![a] = moved[t]]
                /\ UNCHANGED <<task, idx>>
           ELSE Rest(w) /\ UNCHANGED total
    BY DEF OpReturns
  <1>3. OverKept
    BY <1>1, <1>2 DEF OverKept, PioTypeOK
  <1>4. CASE ~IsLast(t)
    <2>1. UNCHANGED <<total, outcome>>
      BY <1>2, <1>4
    <2>2. \A v \in Threads : tpc'[v] \in {"collect", "return"} =>
             tpc'[v] = tpc[v] /\ task'[v] = task[v] /\ idx'[v] = idx[v]
      BY <1>2, <1>4 DEF Rest, PioTypeOK
    <2> QED
      BY <1>3, <2>1, <2>2, SumKept
  <1>5. CASE IsLast(t)
    <2>1. /\ tpc' = [tpc EXCEPT ![w] = "collect"] /\ total' = [total EXCEPT ![a] = moved[t]]
          /\ UNCHANGED <<task, idx>>
      BY <1>2, <1>5
    <2>2. /\ \A v \in Threads : v # w /\ tpc[v] \in {"collect", "return"} => CallOf[task[v]] # a
          /\ outcome[a] = "pending"
      BY <1>1, <1>5, OneCollector
    <2>3. ASSUME NEW v \in Threads, v # w PROVE SumFor(v)'
      <3>1. tpc'[v] \in {"collect", "return"} =>
               /\ tpc'[v] = tpc[v] /\ task'[v] = task[v] /\ idx'[v] = idx[v]
               /\ total'[CallOf[task[v]]] = total[CallOf[task[v]]]
        <4>1. tpc'[v] = tpc[v] /\ task'[v] = task[v] /\ idx'[v] = idx[v]
          BY <2>1, <2>3 DEF PioTypeOK
        <4>2. ASSUME tpc[v] \in {"collect", "return"}
              PROVE  total'[CallOf[task[v]]] = total[CallOf[task[v]]]
          <5>1. CallOf[task[v]] \in Calls /\ CallOf[task[v]] # a
            BY <2>2, <2>3, <4>2, BusyThread DEF PoolInv
          <5> QED
            BY <2>1, <5>1 DEF PioTypeOK
        <4> QED
          BY <4>1, <4>2
      <3> QED
        BY <1>3, <3>1, SumForKept
    <2>4. SumFor(w)'
      <3>1. Counted(w)' = {t}
        BY <1>1, <2>1 DEF Counted
      <3>2. Tally(moved, {} \cup {t}) = Tally(moved, {}) + moved[t]
        <4>1. IsFiniteSet({}) /\ t \notin {} /\ \A x \in {} \cup {t} : moved[x] \in Int
          BY <1>1, FS_EmptySet
        <4> QED
          BY <4>1, TallyGrows
      <3>3. Tally(moved, {}) = 0
        BY TallyOfNone
      <3>4. {} \cup {t} = {t}
        OBVIOUS
      <3>5. Tally(moved, {t}) = moved[t]
        BY <1>1, <3>2, <3>3, <3>4
      <3>6. tpc'[w] = "collect" /\ total'[a] = moved[t] /\ task'[w] = t
        BY <1>1, <2>1 DEF PioTypeOK
      <3> QED
        BY <1>2, <3>1, <3>5, <3>6 DEF SumFor
    <2>5. ASSUME NEW b \in Calls PROVE SumDone(b)'
      <3>1. outcome'[b] = "value" => outcome[b] = "value" /\ total'[b] = total[b]
        BY <1>2, <2>1, <2>2 DEF PioTypeOK
      <3> QED
        BY <1>3, <3>1, SumDoneKept
    <2> QED
      BY <2>3, <2>4, <2>5 DEF SumInv
  <1> QED
    BY <1>4, <1>5

\* The loop adds the bytes of a sibling it has not counted.
LEMMA CollectSum ==
    ASSUME PioTypeOK, PoolInv, SumInv, NEW w \in Threads, Collect(w)
    PROVE  SumInv'
  <1> DEFINE a == CallOf[task[w]]
             s == Parts[a][idx[w]]
  <1>1. /\ tpc[w] = "collect" /\ idx' = [idx EXCEPT ![w] = @ + 1]
        /\ UNCHANGED <<task, moved, verdict, outcome>>
        /\ IF verdict[s] = "ok"
           THEN total' = [total EXCEPT ![a] = @ + moved[s]] /\ UNCHANGED tpc
           ELSE tpc' = [tpc EXCEPT ![w] = "drain"] /\ UNCHANGED total
    BY DEF Collect
  <1>2. a \in Calls /\ task[w] = LastOf(a) /\ task[w] \in Tasks
    BY <1>1, BusyThread DEF PoolInv, ThreadsRun, IsLast
  <1>3. idx[w] \in 1..Len(Parts[a]) /\ idx[w] # Len(Parts[a])
    <2>1. idx[w] <= NumSiblings(a) /\ idx[w] >= 1 /\ idx[w] \in Nat
      BY <1>1 DEF Collect, SiblingReady, PoolInv, Joined, JoinedFor, PioTypeOK
    <2> QED
      BY <1>2, <2>1, PartFacts DEF NumSiblings
  <1>4. OverKept
    BY <1>1 DEF OverKept
  <1>5. CASE verdict[s] # "ok"
    <2>1. UNCHANGED <<total, outcome>>
      BY <1>1, <1>5
    <2>2. \A v \in Threads : tpc'[v] \in {"collect", "return"} =>
             tpc'[v] = tpc[v] /\ task'[v] = task[v] /\ idx'[v] = idx[v]
      BY <1>1, <1>5 DEF PioTypeOK
    <2> QED
      BY <1>4, <2>1, <2>2, SumKept
  <1>6. CASE verdict[s] = "ok"
    <2>1. total' = [total EXCEPT ![a] = @ + moved[s]] /\ UNCHANGED tpc
      BY <1>1, <1>6
    <2>2. /\ \A v \in Threads : v # w /\ tpc[v] \in {"collect", "return"} => CallOf[task[v]] # a
          /\ outcome[a] = "pending"
      BY <1>1, <1>2, OneCollector DEF IsLast
    <2>3. ASSUME NEW v \in Threads, v # w PROVE SumFor(v)'
      <3>1. tpc'[v] \in {"collect", "return"} =>
               /\ tpc'[v] = tpc[v] /\ task'[v] = task[v] /\ idx'[v] = idx[v]
               /\ total'[CallOf[task[v]]] = total[CallOf[task[v]]]
        <4>1. tpc'[v] = tpc[v] /\ task'[v] = task[v] /\ idx'[v] = idx[v]
          BY <1>1, <2>1, <2>3 DEF PioTypeOK
        <4>2. ASSUME tpc[v] \in {"collect", "return"}
              PROVE  total'[CallOf[task[v]]] = total[CallOf[task[v]]]
          <5>1. CallOf[task[v]] \in Calls /\ CallOf[task[v]] # a
            BY <2>2, <2>3, <4>2, BusyThread DEF PoolInv
          <5> QED
            BY <2>1, <5>1 DEF PioTypeOK
        <4> QED
          BY <4>1, <4>2
      <3> QED
        BY <1>4, <3>1, SumForKept
    <2>4. SumFor(w)'
      <3>1. Counted(w)' = Counted(w) \cup {s}
        <4>1. idx'[w] = idx[w] + 1 /\ idx[w] \in Nat /\ task'[w] = task[w]
          BY <1>1 DEF PioTypeOK
        <4>2. 1..(idx'[w] - 1) = (1..(idx[w] - 1)) \cup {idx[w]}
          BY <1>3, <4>1
        <4> QED
          BY <4>1, <4>2 DEF Counted
      <3>2. s \notin Counted(w)
        <4>1. s # task[w]
          BY <1>2, <1>3, PartFacts DEF LastOf
        <4>2. ASSUME NEW i \in 1..(idx[w] - 1) PROVE Parts[a][i] # s
          BY <1>2, <1>3, <4>2, PartFacts
        <4> QED
          BY <4>1, <4>2 DEF Counted
      <3>3. s \in Tasks /\ Counted(w) \in SUBSET Tasks
        BY <1>1, <1>2, <1>3, PartFacts, CountedFacts
      <3>4. Tally(moved, Counted(w) \cup {s}) = Tally(moved, Counted(w)) + moved[s]
        <4>1. IsFiniteSet(Counted(w))
          BY <3>3, PoolAssumption, FS_Subset
        <4>2. \A x \in Counted(w) \cup {s} : moved[x] \in Int
          BY <3>3 DEF PioTypeOK
        <4> QED
          BY <3>2, <4>1, <4>2, TallyGrows
      <3>5. total[a] = Tally(moved, Counted(w)) /\ total'[a] = total[a] + moved[s]
        BY <1>1, <1>2, <2>1 DEF SumInv, SumFor, PioTypeOK
      <3>6. tpc'[w] = "collect" /\ task'[w] = task[w]
        BY <1>1, <2>1
      <3> QED
        BY <1>1, <3>1, <3>4, <3>5, <3>6 DEF SumFor
    <2>5. ASSUME NEW b \in Calls PROVE SumDone(b)'
      <3>1. outcome'[b] = "value" => outcome[b] = "value" /\ total'[b] = total[b]
        BY <1>1, <2>1, <2>2 DEF PioTypeOK
      <3> QED
        BY <1>4, <3>1, SumDoneKept
    <2> QED
      BY <2>3, <2>4, <2>5 DEF SumInv
  <1> QED
    BY <1>5, <1>6

\* After the loop the counted parts are the parts of the call.
LEMMA FinishSum ==
    ASSUME PioTypeOK, PoolInv, SumInv, NEW w \in Threads, FinishObservation(w)
    PROVE  SumInv'
  <1> DEFINE a == CallOf[task[w]]
  <1>1. /\ tpc[w] \in {"collect", "drain"} /\ AllJoined(w)
        /\ tpc' = [tpc EXCEPT ![w] = IF tpc[w] = "collect" THEN "return" ELSE "throw"]
        /\ UNCHANGED <<task, idx, moved, verdict, total, outcome>>
    BY DEF FinishObservation
  <1>2. a \in Calls /\ task[w] = LastOf(a)
    BY <1>1, BusyThread DEF PoolInv, ThreadsRun, IsLast
  <1>3. OverKept
    BY <1>1 DEF OverKept
  <1>4. ASSUME NEW v \in Threads, v # w PROVE SumFor(v)'
    <2>1. tpc'[v] = tpc[v]
      BY <1>1, <1>4 DEF PioTypeOK
    <2> QED
      BY <1>1, <1>3, <2>1, SumForKept
  <1>5. SumFor(w)'
    <2>1. CASE tpc[w] = "drain"
      <3>1. tpc'[w] = "throw"
        BY <1>1, <2>1 DEF PioTypeOK
      <3> QED
        BY <3>1 DEF SumFor
    <2>2. CASE tpc[w] = "collect"
      <3>1. idx[w] = Len(Parts[a]) /\ Len(Parts[a]) \in Nat
        <4>1. idx[w] \in 1..NumSiblings(a) + 1 /\ idx[w] > NumSiblings(a)
          BY <1>1 DEF PoolInv, Joined, JoinedFor, AllJoined
        <4> QED
          BY <1>2, <4>1, PartFacts DEF NumSiblings
      <3>2. PartsOf(a) \subseteq Counted(w)
        <4> SUFFICES ASSUME NEW t \in PartsOf(a), t # LastOf(a) PROVE t \in Counted(w)
          BY <1>2 DEF Counted
        <4>1. PICK i \in 1..Len(Parts[a]) : t = Parts[a][i]
          BY <1>2, PartFacts
        <4>2. i \in 1..(idx[w] - 1)
          BY <3>1, <4>1 DEF LastOf
        <4> QED
          BY <4>1, <4>2 DEF Counted
      <3>3. Counted(w) = PartsOf(a)
        BY <2>2, <3>2, CountedFacts
      <3>4. total[a] = Tally(moved, PartsOf(a))
        BY <2>2, <3>3 DEF SumInv, SumFor
      <3>5. tpc'[w] = "return" /\ task'[w] = task[w]
        BY <1>1, <2>2 DEF PioTypeOK
      <3> QED
        BY <1>1, <3>4, <3>5 DEF SumFor
    <2> QED
      BY <1>1, <2>1, <2>2
  <1>6. \A b \in Calls : SumDone(b)'
    BY <1>1, <1>3, SumDoneKept
  <1> QED
    BY <1>4, <1>5, <1>6 DEF SumInv

\* The value of the future is `ret`, and all parts were successful.
LEMMA LastReturnsSum ==
    ASSUME PioTypeOK, PoolInv, SumInv, NEW w \in Threads, LastReturns(w)
    PROVE  SumInv'
  <1> DEFINE a == CallOf[task[w]]
  <1>1. /\ tpc[w] \in {"return", "throw"} /\ Rest(w) /\ UNCHANGED <<moved, verdict, total>>
        /\ outcome' = [outcome EXCEPT ![a] = IF tpc[w] = "return" THEN "value" ELSE "exception"]
    BY DEF LastReturns
  <1>2. OverKept
    BY <1>1 DEF OverKept
  <1>3. ASSUME NEW v \in Threads PROVE SumFor(v)'
    <2>1. tpc'[v] \in {"collect", "return"} =>
             tpc'[v] = tpc[v] /\ task'[v] = task[v] /\ idx'[v] = idx[v]
      BY <1>1 DEF Rest, PioTypeOK
    <2> QED
      BY <1>1, <1>2, <2>1, SumForKept
  <1>4. ASSUME NEW b \in Calls PROVE SumDone(b)'
    <2>1. CASE b # a
      <3>1. outcome'[b] = outcome[b]
        BY <1>1, <2>1 DEF PioTypeOK
      <3> QED
        BY <1>1, <1>2, <3>1, SumDoneKept
    <2>2. CASE b = a
      <3>1. outcome'[a] = "value" => tpc[w] = "return"
        BY <1>1, <2>2 DEF PioTypeOK
      <3>2. tpc[w] = "return" => /\ \A t \in PartsOf(a) : verdict[t] = "ok"
                                 /\ total[a] = Tally(moved, PartsOf(a))
        BY DEF SumInv, SumFor, PoolInv, Joined, JoinedFor
      <3> QED
        BY <1>1, <2>2, <3>1, <3>2 DEF SumDone
    <2> QED
      BY <2>1, <2>2
  <1> QED
    BY <1>3, <1>4 DEF SumInv

LEMMA SumStep == PioTypeOK /\ PoolInv /\ SumInv /\ [PioNext]_pioVars => SumInv'
  <1> SUFFICES ASSUME PioTypeOK, PoolInv, SumInv, [PioNext]_pioVars PROVE SumInv'
    OBVIOUS
  <1> DEFINE Goes == \A v \in Threads : tpc'[v] \in {"collect", "return"} =>
                        tpc'[v] = tpc[v] /\ task'[v] = task[v] /\ idx'[v] = idx[v]
  <1>1. ASSUME NEW a \in Calls, CallerStep(a) PROVE SumInv'
    <2>1. UNCHANGED <<total, outcome, moved, verdict, idx>>
      BY <1>1 DEF CallerStep, SubmitPart, StartShortcut, GetResult
    <2>2. OverKept
      BY <2>1 DEF OverKept
    <2>3. Goes
      BY <1>1 DEF CallerStep, SubmitPart, StartShortcut, GetResult, PioTypeOK
    <2> QED
      BY <2>1, <2>2, <2>3, SumKept
  <1>2. ASSUME NEW w \in Threads, TakeTask(w) \/ TransferReturns(w) \/ Drain(w) PROVE SumInv'
    <2>1. UNCHANGED <<total, outcome, moved, verdict>>
      BY <1>2 DEF TakeTask, TransferReturns, Drain
    <2>2. OverKept
      BY <2>1 DEF OverKept
    <2>3. Goes
      BY <1>2 DEF TakeTask, TransferReturns, Drain, PioTypeOK
    <2> QED
      BY <2>1, <2>2, <2>3, SumKept
  <1>3. ASSUME NEW w \in Threads, OpThrows(w) \/ MoveChunk(w) PROVE SumInv'
    <2>1. UNCHANGED <<total, outcome>>
      BY <1>3 DEF OpThrows, MoveChunk
    <2>2. tpc[w] = "io" /\ verdict[task[w]] = "open"
      BY <1>3 DEF OpThrows, MoveChunk, PoolInv, ThreadsRun
    <2>3. OverKept
      BY <1>3, <2>2 DEF OpThrows, MoveChunk, OverKept, PioTypeOK
    <2>4. Goes
      BY <1>3 DEF OpThrows, MoveChunk, Rest, PioTypeOK
    <2> QED
      BY <2>1, <2>3, <2>4, SumKept
  <1>4. ASSUME NEW w \in Threads, ThreadStep(w) PROVE SumInv'
    BY <1>2, <1>3, <1>4, OpReturnsSum, CollectSum, FinishSum, LastReturnsSum
    DEF ThreadStep, JoinStep
  <1>5. CASE UNCHANGED pioVars
    <2>1. UNCHANGED <<total, outcome, moved, verdict, tpc, task, idx>>
      BY <1>5 DEF pioVars
    <2>2. OverKept
      BY <2>1 DEF OverKept
    <2> QED
      BY <2>1, <2>2, SumKept
  <1> QED
    BY <1>1, <1>4, <1>5 DEF PioNext

\* Whatever the workers interleave, the value a caller gets from the future of a
\* pread() or pwrite() is the sum of what all the parts of its call transferred:
\* no result is lost, added twice, or read before the part is over.
THEOREM ValuesAreTransferred == Spec => []ValueIsTransferred
  <1>1. PioInit => SumInv
    BY DEF PioInit, SumInv, SumFor, SumDone
  <1>2. SumInv => ValueIsTransferred
    BY DEF SumInv, SumDone, ValueIsTransferred, Tally
  <1> QED
    BY <1>1, <1>2, SumStep, FileHandleUsesPool, PoolInvariant, PTL DEF PioSpec

-------------------------------------------------------------------------------
(* The cached file size.                                                   *)

\* A call that has returned has no part left to run, and one that has not started has sent none.
Returned ==
    \A a \in Calls : /\ cpc[a] = "start" => sent[a] = 0
                     /\ cpc[a] = "done" => outcome[a] # "pending"
                     /\ outcome[a] # "pending" => \A t \in PartsOf(a) : verdict[t] # "open"

LEMMA ReturnedStep == PioTypeOK /\ PoolInv /\ Returned /\ [PioNext]_pioVars => Returned'
  <1> SUFFICES ASSUME PioTypeOK, PoolInv, Returned, [PioNext]_pioVars, NEW b \in Calls
               PROVE  /\ cpc'[b] = "start" => sent'[b] = 0
                      /\ cpc'[b] = "done" => outcome'[b] # "pending"
                      /\ outcome'[b] # "pending" => \A t \in PartsOf(b) : verdict'[t] # "open"
    BY DEF Returned, PartsOf
  <1>0. /\ cpc[b] = "start" => sent[b] = 0
        /\ cpc[b] = "done" => outcome[b] # "pending"
        /\ outcome[b] # "pending" => \A t \in PartsOf(b) : verdict[t] # "open"
    BY DEF Returned
  <1>1. ASSUME NEW a \in Calls, SubmitPart(a) \/ StartShortcut(a)
        PROVE  /\ cpc'[b] = "start" => cpc[b] = "start" /\ sent'[b] = sent[b]
               /\ cpc'[b] = "done" => cpc[b] = "done"
               /\ outcome' = outcome /\ verdict' = verdict
    BY <1>1 DEF SubmitPart, StartShortcut, PioTypeOK
  <1>2. ASSUME NEW a \in Calls, GetResult(a)
        PROVE  /\ cpc'[b] = "start" => cpc[b] = "start" /\ sent'[b] = sent[b]
               /\ cpc'[b] = "done" => outcome[b] # "pending"
               /\ outcome' = outcome /\ verdict' = verdict
    BY <1>0, <1>2 DEF GetResult, PioTypeOK
  <1>3. ASSUME NEW w \in Threads, OpReturns(w) \/ OpThrows(w)
        PROVE  /\ UNCHANGED <<cpc, sent, outcome>>
               /\ \A t \in Tasks : verdict[t] # "open" => verdict'[t] # "open"
    BY <1>3 DEF OpReturns, OpThrows, PioTypeOK
  <1>4. ASSUME NEW w \in Threads, LastReturns(w)
        PROVE  /\ UNCHANGED <<cpc, sent, verdict>>
               /\ outcome[b] # "pending" => outcome'[b] # "pending"
               /\ outcome'[b] # "pending" => \A t \in PartsOf(b) : verdict[t] # "open"
    <2>1. tpc[w] \in {"return", "throw"} /\ UNCHANGED <<cpc, sent, verdict>>
      BY <1>4 DEF LastReturns
    <2>2. outcome' = [outcome EXCEPT ![CallOf[task[w]]] = IF tpc[w] = "return" THEN "value" ELSE "exception"]
      BY <1>4 DEF LastReturns
    <2>3. \A t \in PartsOf(CallOf[task[w]]) : verdict[t] # "open"
      BY <2>1 DEF PoolInv, Joined, JoinedFor
    <2>4. b # CallOf[task[w]] => outcome'[b] = outcome[b]
      BY <2>2 DEF PioTypeOK
    <2>5. b = CallOf[task[w]] => outcome'[b] # "pending"
      BY <2>2 DEF PioTypeOK
    <2> QED
      BY <1>0, <2>1, <2>3, <2>4, <2>5
  <1>5. ASSUME NEW w \in Threads,
               \/ TakeTask(w) \/ TransferReturns(w) \/ MoveChunk(w)
               \/ Collect(w) \/ Drain(w) \/ FinishObservation(w)
        PROVE  UNCHANGED <<cpc, sent, outcome, verdict>>
    BY <1>5 DEF TakeTask, TransferReturns, MoveChunk, Collect, Drain, FinishObservation
  <1>6. CASE UNCHANGED pioVars
    BY <1>0, <1>6 DEF pioVars
  <1>7. ASSUME NEW a \in Calls, CallerStep(a)
        PROVE  /\ cpc'[b] = "start" => sent'[b] = 0
               /\ cpc'[b] = "done" => outcome'[b] # "pending"
               /\ outcome'[b] # "pending" => \A t \in PartsOf(b) : verdict'[t] # "open"
    BY <1>0, <1>1, <1>2, <1>7 DEF CallerStep
  <1>8. ASSUME NEW w \in Threads, ThreadStep(w)
        PROVE  /\ cpc'[b] = "start" => sent'[b] = 0
               /\ cpc'[b] = "done" => outcome'[b] # "pending"
               /\ outcome'[b] # "pending" => \A t \in PartsOf(b) : verdict'[t] # "open"
    <2>1. CASE OpReturns(w) \/ OpThrows(w)
      BY <1>0, <1>3, <2>1 DEF PartsOf
    <2>2. CASE LastReturns(w)
      BY <1>0, <1>4, <2>2
    <2>3. CASE \/ TakeTask(w) \/ TransferReturns(w) \/ MoveChunk(w)
               \/ Collect(w) \/ Drain(w) \/ FinishObservation(w)
      BY <1>0, <1>5, <2>3
    <2> QED
      BY <1>8, <2>1, <2>2, <2>3 DEF ThreadStep, JoinStep
  <1> QED
    BY <1>6, <1>7, <1>8 DEF PioNext

\* While a thread transfers for a part, the call of that part is outstanding.
LEMMA TransferIsOutstanding ==
    ASSUME PioTypeOK, PoolInv, Returned, NEW w \in Threads, tpc[w] \in {"io", "op"}
    PROVE  task[w] \in Tasks /\ CallOf[task[w]] \in Calls /\ Outstanding(CallOf[task[w]])
  <1>1. task[w] \in Tasks /\ verdict[task[w]] = "open"
    BY BusyThread DEF PoolInv, ThreadsRun
  <1> DEFINE t == task[w]
             a == CallOf[t]
  <1>2. a \in Calls /\ t \in PartsOf(a)
    BY <1>1, CallOfType
  <1>3. cpc[a] # "done"
    BY <1>1, <1>2 DEF Returned
  <1>4. Running(t)
    BY DEF Running
  <1>5. cpc[a] # "start"
    <2> SUFFICES ASSUME cpc[a] = "start" PROVE FALSE
      OBVIOUS
    <2>1. sent[a] = 0
      BY <1>2 DEF Returned
    <2>2. t \notin Sent(a)
      BY <2>1 DEF Sent
    <2> QED
      BY <1>1, <1>2, <1>4, <2>2 DEF PoolInv, UnsentUntouched
  <1> QED
    BY <1>1, <1>2, <1>3, <1>5 DEF Outstanding, PioTypeOK

\* While a write is outstanding the size is unknown and nobody is inside nbytes(); otherwise
\* what is cached, or about to be, is the size of the file.
WritesApart == (\E a \in Writes : Outstanding(a)) => nbytes = 0 /\ \A q \in Clients : qpc[q] = "idle"
SizeKnown == nbytes \in {0, fileSize} /\ \A q \in Clients : qpc[q] = "store" => qval[q] = fileSize
CacheInv == WritesApart /\ SizeKnown /\ qpc \in [Clients -> {"idle", "stat", "store"}] /\ DOMAIN qval = Clients

LEMMA CacheStep ==
    ASSUME ~Overlapping, PioTypeOK, PoolInv, Returned, CacheInv, [Next]_vars
    PROVE  CacheInv'
  <1>1. ASSUME NEW a \in Calls, BeginCall(a) PROVE CacheInv'
    <2>1. /\ a \notin Writes \/ \A q \in Clients : qpc[q] = "idle"
          /\ SubmitPart(a) \/ StartShortcut(a)
          /\ nbytes' = (IF a \in Writes THEN 0 ELSE nbytes)
          /\ UNCHANGED <<fileSize, qpc, qval>>
      BY <1>1 DEF BeginCall, Invalidate, clientVars
    <2>2. \A b \in Calls : b # a => cpc'[b] = cpc[b]
      BY <2>1 DEF SubmitPart, StartShortcut, PioTypeOK
    <2>3. \A b \in Writes : b # a => (Outstanding(b)' <=> Outstanding(b))
      BY <2>2, FileAssumption DEF Outstanding
    <2>4. CASE a \in Writes
      BY <2>1, <2>4 DEF CacheInv, WritesApart, SizeKnown
    <2>5. CASE a \notin Writes
      BY <2>1, <2>3, <2>5 DEF CacheInv, WritesApart, SizeKnown
    <2> QED
      BY <2>4, <2>5
  <1>2. ASSUME NEW a \in Calls, ContinueCall(a) PROVE CacheInv'
    <2>1. UNCHANGED <<fileSize, nbytes, qpc, qval>>
      BY <1>2 DEF ContinueCall, sizeVars, clientVars
    <2>2. ASSUME NEW b \in Calls, Outstanding(b)' PROVE Outstanding(b)
      <3>1. CASE SubmitPart(a) /\ sent[a] > 0
        <4>1. cpc[a] # "start"
          BY <3>1 DEF Returned, PioTypeOK
        <4>2. cpc[a] \in {"start", "submit"} /\ (b # a => cpc'[b] = cpc[b])
          BY <3>1 DEF SubmitPart, PioTypeOK
        <4> QED
          BY <2>2, <4>1, <4>2 DEF Outstanding
      <3>2. CASE GetResult(a)
        BY <2>2, <3>2 DEF GetResult, Outstanding, PioTypeOK
      <3> QED
        BY <1>2, <3>1, <3>2 DEF ContinueCall
    <2> QED
      BY <2>1, <2>2, FileAssumption DEF CacheInv, WritesApart, SizeKnown
  <1>3. ASSUME NEW w \in Threads, Transfer(w) PROVE CacheInv'
    <2>1. /\ UNCHANGED <<cpc, nbytes, qpc, qval>> /\ tpc[w] = "io"
          /\ fileSize' # fileSize => CallOf[task[w]] \in Writes
      BY <1>3 DEF Transfer, MoveChunk, clientVars
    <2>2. Outstanding(CallOf[task[w]])
      BY <2>1, TransferIsOutstanding
    <2>3. CASE CallOf[task[w]] \in Writes
      <3>1. nbytes = 0 /\ \A q \in Clients : qpc[q] = "idle"
        BY <2>2, <2>3 DEF CacheInv, WritesApart
      <3> QED
        BY <2>1, <3>1 DEF CacheInv, WritesApart, SizeKnown
    <2>4. CASE CallOf[task[w]] \notin Writes
      BY <2>1, <2>4 DEF CacheInv, WritesApart, SizeKnown, Outstanding
    <2> QED
      BY <2>3, <2>4
  <1>4. ASSUME NEW w \in Threads, EndOp(w) \/ OtherStep(w) PROVE CacheInv'
    <2>1. nbytes' \in {0, nbytes} /\ UNCHANGED <<fileSize, qpc, qval>>
      BY <1>4 DEF EndOp, OtherStep, Invalidate, sizeVars, clientVars
    <2>2. cpc' = cpc
      BY <1>4 DEF EndOp, OtherStep, OpReturns, OpThrows, TakeTask, TransferReturns, JoinStep,
                  Collect, Drain, FinishObservation, LastReturns
    <2> QED
      BY <2>1, <2>2 DEF CacheInv, WritesApart, SizeKnown, Outstanding
  <1>5. ASSUME NEW q \in Clients, LoadSize(q) PROVE CacheInv'
    <2>1. UNCHANGED <<cpc, fileSize, nbytes, qval>> /\ \A a \in Writes : ~Outstanding(a)
      BY <1>5 DEF LoadSize, pioVars
    <2>2. qpc' \in [Clients -> {"idle", "stat", "store"}] /\ \A r \in Clients : qpc'[r] = "store" => qpc[r] = "store"
      BY <1>5 DEF LoadSize, CacheInv
    <2> QED
      BY <2>1, <2>2 DEF CacheInv, WritesApart, SizeKnown, Outstanding
  <1>6. ASSUME NEW q \in Clients, GetFileSize(q) PROVE CacheInv'
    <2>1. UNCHANGED <<cpc, fileSize, nbytes>> /\ qpc[q] # "idle"
      BY <1>6 DEF GetFileSize, pioVars
    <2>2. \A a \in Writes : ~Outstanding(a)
      BY <2>1 DEF CacheInv, WritesApart
    <2>3. /\ qpc' \in [Clients -> {"idle", "stat", "store"}] /\ DOMAIN qval' = Clients
          /\ qval'[q] = fileSize /\ \A r \in Clients : r # q => qpc'[r] = qpc[r] /\ qval'[r] = qval[r]
      BY <1>6 DEF GetFileSize, CacheInv
    <2> QED
      BY <2>1, <2>2, <2>3 DEF CacheInv, WritesApart, SizeKnown, Outstanding
  <1>7. ASSUME NEW q \in Clients, StoreSize(q) PROVE CacheInv'
    <2>1. UNCHANGED <<cpc, fileSize>> /\ qpc[q] = "store" /\ nbytes' = qval[q]
      BY <1>7 DEF StoreSize, pioVars
    <2>2. \A a \in Writes : ~Outstanding(a)
      BY <2>1 DEF CacheInv, WritesApart
    <2>3. /\ qpc' \in [Clients -> {"idle", "stat", "store"}] /\ DOMAIN qval' = Clients
          /\ qpc'[q] = "idle" /\ \A r \in Clients : r # q => qpc'[r] = qpc[r] /\ qval'[r] = qval[r]
      BY <1>7 DEF StoreSize, CacheInv
    <2>4. nbytes' = fileSize
      BY <2>1 DEF CacheInv, SizeKnown
    <2> QED
      BY <2>1, <2>2, <2>3, <2>4 DEF CacheInv, WritesApart, SizeKnown, Outstanding
  <1>8. CASE UNCHANGED vars
    BY <1>8 DEF vars, pioVars, sizeVars, clientVars, CacheInv, WritesApart, SizeKnown, Outstanding
  <1> QED
    BY <1>1, <1>2, <1>3, <1>4, <1>5, <1>6, <1>7, <1>8 DEF Next, RunStep, ClientStep

\* FileHandle::nbytes(): as long as no thread asks for the size while a write is outstanding,
\* the cached size is unknown or the size of the file, however many calls, parts and clients
\* there are.
THEOREM CachedSizeIsCurrent ==
    ASSUME ~Overlapping
    PROVE  Spec => []CacheIsCurrent
  <1>1. PioInit => Returned
    BY DEF PioInit, Returned
  <1>2. PioSpec => []Returned
    BY <1>1, ReturnedStep, PoolInvariant, PTL DEF PioSpec
  <1>3. Init => CacheInv
    BY FileAssumption DEF Init, PioInit, CacheInv, WritesApart, SizeKnown, Outstanding
  <1>4. PioTypeOK /\ PoolInv /\ Returned /\ CacheInv /\ [Next]_vars => CacheInv'
    BY CacheStep
  <1>5. CacheInv => CacheIsCurrent
    BY DEF CacheInv, SizeKnown, CacheIsCurrent
  <1> QED
    BY <1>2, <1>3, <1>4, <1>5, FileHandleUsesPool, PoolInvariant, PTL DEF Spec

===============================================================================
