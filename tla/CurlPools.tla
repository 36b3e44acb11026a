------------------------------ MODULE CurlPools ------------------------------
(***************************************************************************)
(* The libcurl objects KvikIO keeps for reuse: LibCurl's easy handles,     *)
(* and the share handles through which threads share a DNS cache           *)
(* (CurlShareRegistry).  A thread takes a place in a share on its first    *)
(* CurlHandle and gives it back when it exits; a CurlHandle may outlive    *)
(* the thread that made it.                                                *)
(***************************************************************************)
EXTENDS Integers, Sequences, FiniteSets, SequencesExt

CONSTANTS CurlThreads, Handles, Owners, MaxPerCache, NoShare

ASSUME CurlAssumption ==
    MaxPerCache \in Nat \ {0} /\ IsFiniteSet(CurlThreads) /\ NoShare \notin Nat

VARIABLES
    created,    \* easy handles that exist
    freeEasy,   \* LibCurl::_free_curl_handles
    attached,   \* CURLOPT_SHARE of each easy handle
    owner,      \* the CurlHandle objects: the easy handle of each, or none
    numThreads, \* CurlShareRegistry::_caches: num_threads by the number of the share
    assigned,   \* each thread's Assignment
    alive       \* threads that have not exited

curlVars == <<created, freeEasy, attached, owner, numThreads, assigned, alive>>

CurlInit ==
    /\ created = {} /\ freeEasy = <<>>
    /\ attached = [h \in Handles |-> NoShare]
    /\ owner = [o \in Owners |-> {}]
    /\ numThreads = <<>>
    /\ assigned = [t \in CurlThreads |-> NoShare]
    /\ alive = CurlThreads

\* CurlShareRegistry::acquire(): the first share with room, else a new one.
RoomBelowOrAt(n) == n <= MaxPerCache
RoomBelow(n) == n < MaxPerCache
WithRoom == {i \in DOMAIN numThreads : RoomBelow(numThreads[i])}
Acquired == IF WithRoom = {} THEN Len(numThreads) + 1 ELSE Min(WithRoom)
AfterAcquire == IF WithRoom = {} THEN Append(numThreads, 1)
                ELSE [numThreads EXCEPT ![Acquired] = @ + 1]

\* CurlHandle's constructor on thread t.  LibCurl::get_handle() takes a free easy
\* handle and resets it, which does not touch CURLOPT_SHARE, or creates one; then
\* the share of the thread, taken on its first use, is attached unless sharing is
\* off, and if a later option is refused the easy handle is destroyed.
MakeHandle(t, o, h, share, refused) ==
    LET mine == IF assigned[t] = NoShare THEN Acquired ELSE assigned[t]
    IN  /\ t \in alive /\ owner[o] = {}
        /\ IF freeEasy = <<>> THEN h \notin created ELSE h = Last(freeEasy)
        /\ freeEasy' = IF freeEasy = <<>> THEN <<>> ELSE Front(freeEasy)
        /\ created' = IF refused THEN created \ {h} ELSE created \cup {h}
        /\ owner' = [owner EXCEPT ![o] = IF refused THEN {} ELSE {h}]
        /\ attached' = [attached EXCEPT ![h] = IF share /\ ~refused THEN mine ELSE NoShare]
        /\ IF share /\ assigned[t] = NoShare
           THEN /\ assigned' = [assigned EXCEPT ![t] = mine]
                /\ numThreads' = AfterAcquire
           ELSE UNCHANGED <<assigned, numThreads>>
        /\ UNCHANGED alive

\* CurlHandle::~CurlHandle(), on any thread: detach the share, then retain.
DetachNothing(h) == attached
Detach(h) == [attached EXCEPT ![h] = NoShare]
DropHandle(o) ==
    /\ \E h \in owner[o] : /\ attached' = Detach(h)
                           /\ freeEasy' = Append(freeEasy, h)
    /\ owner' = [owner EXCEPT ![o] = {}]
    /\ UNCHANGED <<created, numThreads, assigned, alive>>

\* Assignment::~Assignment() and CurlShareRegistry::release(), at thread exit.
Exit(t) ==
    /\ t \in alive
    /\ alive' = alive \ {t}
    /\ assigned' = [assigned EXCEPT ![t] = NoShare]
    /\ numThreads' = [i \in DOMAIN numThreads |->
                        IF i = assigned[t] THEN numThreads[i] - 1 ELSE numThreads[i]]
    /\ UNCHANGED <<created, freeEasy, attached, owner>>

\* A thread starts in place of one that has exited.
Start(t) ==
    /\ t \notin alive
    /\ alive' = alive \cup {t}
    /\ UNCHANGED <<created, freeEasy, attached, owner, numThreads, assigned>>

CurlNext == \/ \E t \in CurlThreads, o \in Owners, h \in Handles, share, refused \in BOOLEAN :
                  MakeHandle(t, o, h, share, refused)
            \/ \E o \in Owners : DropHandle(o)
            \/ \E t \in CurlThreads : Exit(t) \/ Start(t)

CurlSpec == CurlInit /\ [][CurlNext]_curlVars

-------------------------------------------------------------------------------
(* Properties.                                                             *)

\* ~CurlHandle(), LibCurl::get_handle(): a retained easy handle references no share
\* and belongs to no CurlHandle; every easy handle is in exactly one place.
FreeHandlesAreDetached ==
    LET free == ToSet(freeEasy)
    IN  /\ Len(freeEasy) = Cardinality(free)
        /\ \A h \in free : attached[h] = NoShare
        /\ \A h \in created :
              Cardinality({o \in Owners : h \in owner[o]}) = IF h \in free THEN 0 ELSE 1

\* CurlShareRegistry: num_threads counts the live threads assigned to a share, "at
\* most max_threads_per_cache threads per handle", and "a share handle is created
\* only when every existing one is full", so as threads come and go there are never
\* more shares than the threads that were ever alive at once need.
SharesAreCounted ==
    /\ \A i \in DOMAIN numThreads :
          /\ numThreads[i] = Cardinality({t \in alive : assigned[t] = i})
          /\ numThreads[i] <= MaxPerCache
    /\ (Len(numThreads) - 1) * MaxPerCache < Cardinality(CurlThreads)

===============================================================================
