------------------------------ MODULE FileHandle ------------------------------
(***************************************************************************)
(* FileHandle of KvikIO: pread(), pwrite(), read() and write() on top of   *)
(* ParallelIo, with the cached file size that nbytes() fills and that the  *)
(* writes invalidate.  Client threads call nbytes() over and over, either  *)
(* at any time (Overlapping) or only while no write is outstanding.  A     *)
(* store to the cache is one step with the queue operation next to it.     *)
(***************************************************************************)
EXTENDS ParallelIo

CONSTANTS Writes,       \* the calls that write
          SyncWrites,   \* those of them that are write(), on the caller's thread
          Start,        \* the file offset of each part, in chunks
          InitialSize,  \* the size of the file at first, in chunks
          Clients,      \* threads that call nbytes()
          Overlapping   \* whether they do so during writes

ASSUME FileAssumption ==
    /\ Writes \subseteq Calls
    /\ SyncWrites \subseteq Writes \cap Shortcut
    /\ Start \in [Tasks -> Nat]
    /\ InitialSize \in Nat
    /\ Overlapping \in BOOLEAN

VARIABLES fileSize,  \* what fstat() would say
          nbytes,    \* _nbytes, 0 if unknown
          qpc,       \* where each client is in nbytes()
          qval       \* `cached`, its local variable, while it holds the size of the file

clientVars == <<qpc, qval>>
sizeVars == <<fileSize, nbytes, clientVars>>
vars == <<pioVars, sizeVars>>

Init ==
    /\ PioInit
    /\ fileSize = InitialSize
    /\ nbytes = 0
    /\ qpc = [q \in Clients |-> "idle"]
    /\ qval = [q \in Clients |-> 0]

-------------------------------------------------------------------------------
(* Calls.                                                                  *)

Outstanding(a) == cpc[a] \in {"submit", "get"}

\* Bug: the cached size survives a write.
InvalidateNothing(a) == UNCHANGED nbytes

\* _nbytes.store(0), in the calls that write.
Invalidate(a) == nbytes' = IF a \in Writes THEN 0 ELSE nbytes

\* pwrite() and write() invalidate before the transfer starts.
BeginCall(a) ==
    /\ Overlapping \/ a \notin Writes \/ \A q \in Clients : qpc[q] = "idle"
    /\ (SubmitPart(a) /\ sent[a] = 0) \/ StartShortcut(a)
    /\ Invalidate(a)
    /\ UNCHANGED <<fileSize, clientVars>>

ContinueCall(a) ==
    /\ (SubmitPart(a) /\ sent[a] > 0) \/ GetResult(a)
    /\ UNCHANGED sizeVars

\* A write beyond the end extends the file.
Transfer(w) ==
    LET end == Start[task[w]] + moved[task[w]] + 1
    IN  /\ MoveChunk(w)
        /\ fileSize' = IF CallOf[task[w]] \in Writes /\ end > fileSize THEN end ELSE fileSize
        /\ UNCHANGED <<nbytes, clientVars>>

\* After a part has been written pwrite() invalidates again; write() does not.
EndOp(w) ==
    /\ OpReturns(w)
    /\ IF CallOf[task[w]] \in SyncWrites THEN UNCHANGED nbytes ELSE Invalidate(CallOf[task[w]])
    /\ UNCHANGED <<fileSize, clientVars>>

OtherStep(w) ==
    /\ TakeTask(w) \/ TransferReturns(w) \/ OpThrows(w) \/ JoinStep(w)
    /\ UNCHANGED sizeVars

-------------------------------------------------------------------------------
(* nbytes(): three accesses, without a lock.                               *)

LoadSize(q) ==
    /\ qpc[q] = "idle"
    /\ Overlapping \/ \A a \in Writes : ~Outstanding(a)
    /\ qpc' = [qpc EXCEPT ![q] = IF nbytes = 0 THEN "stat" ELSE "idle"]
    /\ UNCHANGED <<pioVars, fileSize, nbytes, qval>>

GetFileSize(q) ==
    /\ qpc[q] = "stat"
    /\ qval' = [qval EXCEPT ![q] = fileSize]
    /\ qpc' = [qpc EXCEPT ![q] = "store"]
    /\ UNCHANGED <<pioVars, fileSize, nbytes>>

StoreSize(q) ==
    /\ qpc[q] = "store"
    /\ nbytes' = qval[q]
    /\ qpc' = [qpc EXCEPT ![q] = "idle"]
    /\ qval' = [qval EXCEPT ![q] = 0]
    /\ UNCHANGED <<pioVars, fileSize>>

-------------------------------------------------------------------------------
RunStep(w) == Transfer(w) \/ EndOp(w) \/ OtherStep(w)

ClientStep(q) == LoadSize(q) \/ GetFileSize(q) \/ StoreSize(q)

Next == \/ \E a \in Calls : BeginCall(a) \/ ContinueCall(a)
        \/ \E w \in Threads : RunStep(w)
        \/ \E q \in Clients : ClientStep(q)

Spec == Init /\ [][Next]_vars

\* Threads are scheduled and system calls come back; nobody has to start a call.
Fairness ==
    /\ \A a \in Calls : WF_vars(ContinueCall(a))
    /\ \A w \in Threads : WF_vars(RunStep(w))

FairSpec == Spec /\ Fairness

-------------------------------------------------------------------------------
(* Properties.                                                             *)

TypeOK ==
    /\ PioTypeOK
    /\ fileSize \in Nat
    /\ nbytes \in Nat
    /\ qpc \in [Clients -> {"idle", "stat", "store"}]
    /\ qval \in [Clients -> Nat]

\* file_handle.hpp says _nbytes is the size of the underlying file, zero meaning
\* unknown: it is, whenever no write is outstanding and nobody is inside nbytes().
CacheIsCurrent ==
    (\A a \in Writes : ~Outstanding(a)) /\ (\A q \in Clients : qpc[q] = "idle") =>
        nbytes \in {0, fileSize}

\* Every call that was made returns, even if all the workers are waiting in last parts.
CallsReturn == \A a \in Calls : Outstanding(a) ~> cpc[a] = "done"

===============================================================================
