----------------------------- MODULE ParallelRead -----------------------------
(***************************************************************************)
(* What one parallel read promises its caller, whatever backend runs it.   *)
(* A read is split into sub-ranges; every sub-range is written to the      *)
(* caller's memory, possibly several times (retries), and settles exactly  *)
(* once; the future becomes ready exactly once, after the last sub-range   *)
(* has settled, with a value only if all of them succeeded; and nothing    *)
(* touches the caller's memory from then on.                               *)
(*                                                                         *)
(* MultiPollReactor implements this specification (its property            *)
(* Implements), and so does the thread pool of parallel_operation.hpp      *)
(* (PoolImplements of ParallelIo).                                         *)
(***************************************************************************)
EXTENDS Naturals

CONSTANTS Reads,        \* the calls of pread()
          Transfers,    \* their sub-ranges
          ReadOf,       \* the read a sub-range belongs to
          SubrangeSize  \* the size of a sub-range, in received chunks

VARIABLES filled,   \* chunks of each sub-range now in the caller's memory
          verdict,  \* "open", "ok" or "failed": how each sub-range settled
          outcome   \* "pending", "value" or "exception": each read's future

readVars == <<filled, verdict, outcome>>

SubrangesOf(a) == {t \in Transfers : ReadOf[t] = a}

ReadInit == /\ filled = [t \in Transfers |-> 0]
            /\ verdict = [t \in Transfers |-> "open"]
            /\ outcome = [a \in Reads |-> "pending"]

\* Bytes arrive for an unsettled sub-range, or a new attempt starts over.
Write(t) == /\ verdict[t] = "open"
            /\ \E n \in 0..SubrangeSize : filled' = [filled EXCEPT ![t] = n]
            /\ UNCHANGED <<verdict, outcome>>

Settle(t, v) == /\ verdict[t] = "open"
                /\ verdict' = [verdict EXCEPT ![t] = v]
                /\ UNCHANGED <<filled, outcome>>

Resolve(a) ==
    /\ outcome[a] = "pending"
    /\ \A t \in SubrangesOf(a) : verdict[t] # "open"
    /\ outcome' = [outcome EXCEPT ![a] =
                     IF \E t \in SubrangesOf(a) : verdict[t] = "failed"
                     THEN "exception" ELSE "value"]
    /\ UNCHANGED <<filled, verdict>>

ReadNext == \/ \E t \in Transfers : Write(t) \/ Settle(t, "ok") \/ Settle(t, "failed")
            \/ \E a \in Reads : Resolve(a)

ReadSpec == ReadInit /\ [][ReadNext]_readVars
===============================================================================
