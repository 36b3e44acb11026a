------------------------------ MODULE ParallelIo ------------------------------
(***************************************************************************)
(* parallel_io() of KvikIO: a pread() or pwrite() is split into parts that *)
(* go to a FIFO thread pool, one after the other.  The last part does its  *)
(* own I/O and then waits, on a worker of the same pool, for the futures   *)
(* of the others; its own future is the caller's.  Small device transfers  *)
(* skip the pool and run on the caller's thread.                           *)
(*                                                                         *)
(* One step is one operation on the pool's queue, one chunk of I/O, or one *)
(* get() on the future of a sibling.                                       *)
(***************************************************************************)
EXTENDS Integers, Sequences, FiniteSets, FiniteSetsExt

CONSTANTS Calls,     \* calls of pread() and pwrite(), each on a caller thread of its own
          Tasks,     \* the parts of all the calls
          CallOf,    \* the call of each part
          Parts,     \* the parts of each call, in the order they are submitted
          PartSize,  \* chunks in one part
          Workers,   \* the threads of the pool
          Shortcut,  \* calls below gds_threshold, served on the caller's thread
          Faults,    \* what may befall each part: "error", its I/O throws; "short", it returns early
          NoTask

Threads == Workers \cup Shortcut
PartsOf(a) == {t \in Tasks : CallOf[t] = a}
LastOf(a) == Parts[a][Len(Parts[a])]
IsLast(t) == t = LastOf(CallOf[t])
\* The futures the last part waits for: `tasks` of parallel_io().
NumSiblings(a) == Len(Parts[a]) - 1

ASSUME PoolAssumption ==
    /\ PartSize \in Nat \ {0}
    /\ IsFiniteSet(Tasks)
    /\ Shortcut \subseteq Calls
    /\ Workers \cap Calls = {}
    /\ NoTask \notin Tasks
    /\ Faults \in [Tasks -> SUBSET {"error", "short"}]

ASSUME PartsAssumption ==
    /\ CallOf \in [Tasks -> Calls]
    /\ Parts \in [Calls -> Seq(Tasks)]
    /\ \A a \in Calls : /\ {Parts[a][i] : i \in 1..Len(Parts[a])} = PartsOf(a)
                        /\ Parts[a] # <<>>
                        /\ \A i, j \in 1..Len(Parts[a]) : Parts[a][i] = Parts[a][j] => i = j
    /\ \A a \in Shortcut : Len(Parts[a]) = 1

VARIABLES
    queue,     \* the thread pool's queue of tasks
    sent,      \* how many parts each call has submitted
    cpc,       \* where each caller is: "start", "submit", "get", "done"
    task,      \* the part each thread runs, or NoTask
    tpc,       \* where the thread is in it: "idle", "io", "op", "collect", "drain", "return", "throw"
    idx,       \* the next future in `tasks` the thread's last part looks at
    moved,     \* chunks of each part transferred between file and caller's memory
    verdict,   \* how the I/O of each part ended: "open", "ok", "failed"
    total,     \* `ret` of each call's last part
    observed,  \* what the call's LogicalObservationRecorder, if it has one, emitted
    outcome    \* the caller's future: "pending", "value", "exception"

queueVars == <<queue, sent, cpc>>
threadVars == <<task, tpc, idx>>
callVars == <<total, observed, outcome>>
pioVars == <<queueVars, threadVars, moved, verdict, callVars>>

PioInit ==
    /\ queue = <<>>
    /\ sent = [a \in Calls |-> 0]
    /\ cpc = [a \in Calls |-> "start"]
    /\ task = [w \in Threads |-> NoTask]
    /\ tpc = [w \in Threads |-> "idle"]
    /\ idx = [w \in Threads |-> 1]
    /\ moved = [t \in Tasks |-> 0]
    /\ verdict = [t \in Tasks |-> "open"]
    /\ total = [a \in Calls |-> 0]
    /\ observed = [a \in Calls |-> "none"]
    /\ outcome = [a \in Calls |-> "pending"]

-------------------------------------------------------------------------------
(* The caller.                                                             *)

\* Bug: the task that waits for the others is submitted before them.
NextPartLastFirst(a) ==
    IF sent[a] = 0 THEN LastOf(a) ELSE Parts[a][sent[a]]

\* parallel_io() submits the first part, the middle ones and then the last one.
NextPart(a) == Parts[a][sent[a] + 1]

\* submit_task() / submit_move_only_task(): one more part enters the pool's queue.
SubmitPart(a) ==
    /\ a \notin Shortcut
    /\ cpc[a] \in {"start", "submit"}
    /\ queue' = Append(queue, NextPart(a))
    /\ sent' = [sent EXCEPT ![a] = @ + 1]
    /\ cpc' = [cpc EXCEPT ![a] = IF sent[a] + 1 = Len(Parts[a]) THEN "get" ELSE "submit"]
    /\ UNCHANGED <<threadVars, moved, verdict, callVars>>

\* pread() / pwrite() below gds_threshold: the caller's thread runs the one part.
StartShortcut(a) ==
    /\ a \in Shortcut
    /\ cpc[a] = "start"
    /\ cpc' = [cpc EXCEPT ![a] = "get"]
    /\ task' = [task EXCEPT ![a] = LastOf(a)]
    /\ tpc' = [tpc EXCEPT ![a] = "io"]
    /\ UNCHANGED <<queue, sent, idx, moved, verdict, callVars>>

\* future.get() returns or throws; for a shortcut, the call itself does.
GetResult(a) ==
    /\ cpc[a] = "get"
    /\ outcome[a] # "pending"
    /\ cpc' = [cpc EXCEPT ![a] = "done"]
    /\ UNCHANGED <<queue, sent, threadVars, moved, verdict, callVars>>

-------------------------------------------------------------------------------
(* A thread running a part.                                                *)

\* A worker of the pool takes the oldest task.
TakeTask(w) ==
    /\ w \in Workers
    /\ task[w] = NoTask
    /\ queue # <<>>
    /\ task' = [task EXCEPT ![w] = Head(queue)]
    /\ tpc' = [tpc EXCEPT ![w] = "io"]
    /\ queue' = Tail(queue)
    /\ UNCHANGED <<sent, cpc, idx, moved, verdict, callVars>>

\* The system call or cuFile call of the part moves one more chunk.
MoveChunk(w) ==
    LET t == task[w]
    IN  /\ tpc[w] = "io"
        /\ moved[t] < PartSize
        /\ moved' = [moved EXCEPT ![t] = @ + 1]
        /\ UNCHANGED <<queueVars, threadVars, verdict, callVars>>

\* ... and returns; `op` goes on with what it does after the transfer.
TransferReturns(w) ==
    /\ tpc[w] = "io"
    /\ moved[task[w]] = PartSize \/ "short" \in Faults[task[w]]
    /\ tpc' = [tpc EXCEPT ![w] = "op"]
    /\ UNCHANGED <<queueVars, task, idx, moved, verdict, callVars>>

\* The thread has nothing left to do.
Rest(w) ==
    /\ task' = [task EXCEPT ![w] = NoTask]
    /\ tpc' = [tpc EXCEPT ![w] = "idle"]
    /\ idx' = [idx EXCEPT ![w] = 1]

\* `op` returns: the future of a sibling is ready, the last part starts collecting.
OpReturns(w) ==
    LET t == task[w]
        a == CallOf[t]
    IN  /\ tpc[w] = "op"
        /\ verdict' = [verdict EXCEPT ![t] = "ok"]
        /\ IF IsLast(t)
           THEN /\ tpc' = [tpc EXCEPT ![w] = "collect"]
                /\ total' = [total EXCEPT ![a] = moved[t]]
                /\ UNCHANGED <<task, idx>>
           ELSE Rest(w) /\ UNCHANGED total
        /\ UNCHANGED <<queueVars, moved, observed, outcome>>

\* `op` throws: the future of a sibling holds the exception, the last part goes to
\* its handler with every future still valid.
OpThrows(w) ==
    LET t == task[w]
    IN  /\ tpc[w] = "io"
        /\ "error" \in Faults[t]
        /\ verdict' = [verdict EXCEPT ![t] = "failed"]
        /\ IF IsLast(t)
           THEN tpc' = [tpc EXCEPT ![w] = "drain"] /\ UNCHANGED <<task, idx>>
           ELSE Rest(w)
        /\ UNCHANGED <<queueVars, moved, callVars>>

\* Bug: a sibling's exception does not make its future ready.
SiblingSucceeded(w) ==
    LET a == CallOf[task[w]]
    IN  idx[w] <= NumSiblings(a) /\ verdict[Parts[a][idx[w]]] = "ok"

\* The future the last part on thread w waits for is ready.
SiblingReady(w) ==
    LET a == CallOf[task[w]]
    IN  idx[w] <= NumSiblings(a) /\ verdict[Parts[a][idx[w]]] # "open"

\* Bug: the last result replaces the sum.
CollectOverwrites(w) ==
    LET a == CallOf[task[w]]
        s == Parts[a][idx[w]]
    IN  /\ tpc[w] = "collect"
        /\ SiblingReady(w)
        /\ idx' = [idx EXCEPT ![w] = @ + 1]
        /\ IF verdict[s] = "ok"
           THEN total' = [total EXCEPT ![a] = moved[s]] /\ UNCHANGED tpc
           ELSE tpc' = [tpc EXCEPT ![w] = "drain"] /\ UNCHANGED total
        /\ UNCHANGED <<queueVars, task, moved, verdict, observed, outcome>>

\* The loop `ret += task.get()`: a failed sibling throws into the handler.
Collect(w) ==
    LET a == CallOf[task[w]]
        s == Parts[a][idx[w]]
    IN  /\ tpc[w] = "collect"
        /\ SiblingReady(w)
        /\ idx' = [idx EXCEPT ![w] = @ + 1]
        /\ IF verdict[s] = "ok"
           THEN total' = [total EXCEPT ![a] = @ + moved[s]] /\ UNCHANGED tpc
           ELSE tpc' = [tpc EXCEPT ![w] = "drain"] /\ UNCHANGED total
        /\ UNCHANGED <<queueVars, task, moved, verdict, observed, outcome>>

\* The handler's loop: wait for the rest, whatever their result.
Drain(w) ==
    /\ tpc[w] = "drain"
    /\ SiblingReady(w)
    /\ idx' = [idx EXCEPT ![w] = @ + 1]
    /\ UNCHANGED <<queueVars, task, tpc, moved, verdict, callVars>>

\* Bug: the handler reports the failure without waiting for the other tasks.
AllJoinedUnlessFailed(w) ==
    tpc[w] = "drain" \/ idx[w] > NumSiblings(CallOf[task[w]])

\* Every future in `tasks` has been waited for.
AllJoined(w) == idx[w] > NumSiblings(CallOf[task[w]])

\* rec->finish(ret) or rec->finish_with_failure().
FinishObservation(w) ==
    LET a == CallOf[task[w]]
        ok == tpc[w] = "collect"
    IN  /\ tpc[w] \in {"collect", "drain"}
        /\ AllJoined(w)
        /\ observed' = [observed EXCEPT ![a] = IF ok THEN "ok" ELSE "failed"]
        /\ tpc' = [tpc EXCEPT ![w] = IF ok THEN "return" ELSE "throw"]
        /\ UNCHANGED <<queueVars, task, idx, moved, verdict, total, outcome>>

\* The last part returns or rethrows: the caller's future is ready.
LastReturns(w) ==
    /\ tpc[w] \in {"return", "throw"}
    /\ outcome' = [outcome EXCEPT ![CallOf[task[w]]] =
                     IF tpc[w] = "return" THEN "value" ELSE "exception"]
    /\ Rest(w)
    /\ UNCHANGED <<queueVars, moved, verdict, total, observed>>

-------------------------------------------------------------------------------
CallerStep(a) == SubmitPart(a) \/ StartShortcut(a) \/ GetResult(a)

\* What a thread does besides returning from `op`, which may do more (FileHandle).
JoinStep(w) == Collect(w) \/ Drain(w) \/ FinishObservation(w) \/ LastReturns(w)

ThreadStep(w) == \/ TakeTask(w) \/ TransferReturns(w) \/ OpReturns(w) \/ OpThrows(w)
                 \/ MoveChunk(w) \/ JoinStep(w)

PioNext == \/ \E a \in Calls : CallerStep(a)
           \/ \E w \in Threads : ThreadStep(w)

PioSpec == PioInit /\ [][PioNext]_pioVars

-------------------------------------------------------------------------------
(* Properties.                                                             *)

ThreadLabels == {"idle", "io", "op", "collect", "drain", "return", "throw"}

PioTypeOK ==
    /\ queue \in Seq(Tasks)
    /\ sent \in [Calls -> Nat]
    /\ cpc \in [Calls -> {"start", "submit", "get", "done"}]
    /\ task \in [Threads -> Tasks \cup {NoTask}]
    /\ tpc \in [Threads -> ThreadLabels]
    /\ idx \in [Threads -> Nat]
    /\ moved \in [Tasks -> 0..PartSize]
    /\ verdict \in [Tasks -> {"open", "ok", "failed"}]
    /\ total \in [Calls -> Nat]
    /\ observed \in [Calls -> {"none", "ok", "failed"}]
    /\ outcome \in [Calls -> {"pending", "value", "exception"}]

Contract == INSTANCE ParallelRead WITH
                Reads <- Calls, Transfers <- Tasks, ReadOf <- CallOf, SubrangeSize <- PartSize,
                filled <- moved

\* parallel_io() keeps the contract of a parallel read: the caller's future is ready
\* once, after every part is over, with an exception exactly if one of them failed,
\* and no part touches the caller's memory from then on.
PoolImplements == Contract!ReadSpec

\* A worker that waits for a future never waits for a part that is still in the queue
\* or not yet submitted, nor for one that itself waits: no workers can wait for each
\* other, however few there are.
WaitsOnRunning ==
    \A w \in Threads : tpc[w] \in {"collect", "drain"} /\ ~AllJoined(w) =>
        LET s == Parts[CallOf[task[w]]][idx[w]]
        IN  verdict[s] = "open" => \E v \in Threads : task[v] = s /\ tpc[v] \in {"io", "op"}

\* The observation of a call is emitted when the operation really is over: no part can
\* still run, and it reports a failure exactly if one of them failed.
ObservedWhenOver ==
    \A a \in Calls : observed[a] # "none" =>
        /\ \A t \in PartsOf(a) : verdict[t] # "open"
        /\ observed[a] = "failed" <=> \E t \in PartsOf(a) : verdict[t] = "failed"

\* The value of the future is the number of bytes the parts transferred, all of them.
ValueIsTransferred ==
    \A a \in Calls : outcome[a] = "value" =>
        total[a] = MapThenSumSet(LAMBDA t : moved[t], PartsOf(a))

===============================================================================
