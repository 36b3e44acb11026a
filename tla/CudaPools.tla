------------------------------ MODULE CudaPools ------------------------------
(***************************************************************************)
(* CudaEventPool and StreamCachePerThreadAndContext: CUDA objects kept for *)
(* reuse.  An event belongs to the CUDA context that was current when it   *)
(* was created, a stream to one thread in one context.  Threads change     *)
(* their current context between any two calls, and an event may be        *)
(* destroyed under another context than it was made in.                    *)
(***************************************************************************)
EXTENDS Integers, Sequences, FiniteSets, SequencesExt

CONSTANTS CudaThreads, Contexts, Events, Streams, NoContext

ASSUME CudaAssumption == NoContext \notin Contexts

VARIABLES
    current,      \* each thread's current context
    home,         \* the context each event was created in, NoContext if it does not exist
    pools,        \* CudaEventPool::_pools: the free events filed under each context
    events,       \* the CudaEvents each thread holds: event and _cuda_context
    streams,      \* StreamCachePerThreadAndContext::_streams: a set of <<ctx, thread, stream>>
    creating,     \* a stream get() has under way: its key and, once created, its stream
    refused       \* an insertion into _streams found its key taken

cudaVars == <<current, home, pools, events, streams, creating, refused>>

CudaInit ==
    /\ current \in [CudaThreads -> {NoContext}]
    /\ home = [e \in Events |-> NoContext]
    /\ pools = [c \in Contexts |-> <<>>]
    /\ events = [t \in CudaThreads |-> {}]
    /\ streams = {}
    /\ creating = [t \in CudaThreads |-> {}]
    /\ refused = FALSE

\* PushAndPopContext, or the application: another context becomes current.
Switch(t, c) ==
    /\ current[t] # c /\ creating[t] = {}
    /\ current' = [current EXCEPT ![t] = c]
    /\ UNCHANGED <<home, pools, events, streams, creating, refused>>

\* CudaEventPool::get(): the last free event of the current context, or a new
\* one.  It throws without a context, and when the driver creates no event.
GetEvent(t) ==
    LET ctx == current[t]
    IN  /\ ctx # NoContext /\ events[t] = {}
        /\ \/ /\ pools[ctx] # <<>>
              /\ events' = [events EXCEPT ![t] = {<<Last(pools[ctx]), ctx>>}]
              /\ pools' = [pools EXCEPT ![ctx] = Front(@)]
              /\ UNCHANGED home
           \/ /\ pools[ctx] = <<>>
              /\ \E e \in Events : /\ home[e] = NoContext
                                   /\ home' = [home EXCEPT ![e] = ctx]
                                   /\ events' = [events EXCEPT ![t] = {<<e, ctx>>}]
              /\ UNCHANGED pools
    /\ UNCHANGED <<current, streams, creating, refused>>

\* CudaEvent::~CudaEvent() and put(): the event is filed under the context it was
\* taken in, whatever is current now; without memory for the list it is destroyed.
FiledUnderCurrent(t, ev) == IF current[t] = NoContext THEN ev[2] ELSE current[t]
FiledUnder(t, ev) == ev[2]
PutEvent(t) ==
    /\ \E ev \in events[t] :
          /\ events' = [events EXCEPT ![t] = @ \ {ev}]
          /\ \/ /\ pools' = [pools EXCEPT ![FiledUnder(t, ev)] = Append(@, ev[1])]
                /\ UNCHANGED home
             \/ /\ home' = [home EXCEPT ![ev[1]] = NoContext]
                /\ UNCHANGED pools
    /\ UNCHANGED <<current, streams, creating, refused>>

\* CudaEvent's move operations: the event changes hands, the source is left empty.
MoveEvent(t, u) ==
    /\ t # u /\ events[t] # {} /\ events[u] = {}
    /\ events' = [events EXCEPT ![t] = {}, ![u] = events[t]]
    /\ UNCHANGED <<current, home, pools, streams, creating, refused>>

StreamKey(t) == <<current[t], t>>
Cached(key) == {s \in streams : s.key = key}

\* StreamCachePerThreadAndContext::get(), first lock: nothing is cached for the key.
\* (A hit, or no current context, changes nothing.)
MissStream(t) ==
    /\ creating[t] = {} /\ current[t] # NoContext
    /\ Cached(StreamKey(t)) = {}
    /\ creating' = [creating EXCEPT ![t] = {StreamKey(t)}]
    /\ UNCHANGED <<current, home, pools, events, streams, refused>>

\* StreamCreate() outside the lock, which may fail, then the second lock.
InsertStream(t) ==
    /\ \E key \in creating[t] :
          \/ \E s \in Streams :
                /\ \A old \in streams : old.stream # s
                /\ refused' = (refused \/ Cached(key) # {})
                /\ streams' = streams \cup IF Cached(key) = {} THEN {[key |-> key, stream |-> s]} ELSE {}
          \/ UNCHANGED <<streams, refused>>
    /\ creating' = [creating EXCEPT ![t] = {}]
    /\ UNCHANGED <<current, home, pools, events>>

CudaNext == \E t \in CudaThreads :
               \/ \E c \in Contexts \cup {NoContext} : Switch(t, c)
               \/ GetEvent(t) \/ PutEvent(t)
               \/ \E u \in CudaThreads : MoveEvent(t, u)
               \/ MissStream(t) \/ InsertStream(t)

CudaSpec == CudaInit /\ [][CudaNext]_cudaVars

-------------------------------------------------------------------------------
(* Properties.                                                             *)

\* CudaEventPool: "Each context maintains its own separate pool of events since
\* CUDA events are context-specific": an event is free under, or held for, the
\* context it was created in, and in one place only.  StreamCachePerThreadAndContext:
\* two threads that find nothing cached and create a stream outside the lock never
\* meet: "New stream insertion failed unexpectedly" is not thrown.
CudaObjectsStayHome ==
    /\ \A t \in CudaThreads : \A ev \in events[t] : home[ev[1]] = ev[2]
    /\ \A c \in Contexts : \A i \in DOMAIN pools[c] :
          /\ home[pools[c][i]] = c
          /\ \A t \in CudaThreads : <<pools[c][i], c>> \notin events[t]
          /\ \A j \in DOMAIN pools[c] : pools[c][j] = pools[c][i] => i = j
    /\ ~refused

===============================================================================
