---------------------------- MODULE RemoteProofs ----------------------------
(***************************************************************************)
(* Proofs about the parts of a remote read besides the reactors: the       *)
(* libcurl pools, the opening of a handle, and one range request with its  *)
(* retries.                                                                *)
(***************************************************************************)
EXTENDS CurlPools, RemoteRead, RemoteOpen, FiniteSetTheorems, TLAPS

-------------------------------------------------------------------------------
(* The easy handles.                                                       *)

EasyTyped ==
    /\ created \subseteq Handles /\ freeEasy \in Seq(Handles)
    /\ DOMAIN attached = Handles /\ owner \in [Owners -> SUBSET created]

\* The retained handles: no two entries are one handle, none has a share or an owner.
FreeOnce ==
    /\ \A i, j \in DOMAIN freeEasy : freeEasy[i] = freeEasy[j] => i = j
    /\ \A i \in DOMAIN freeEasy : /\ freeEasy[i] \in created
                                  /\ attached[freeEasy[i]] = NoShare
                                  /\ \A o \in Owners : freeEasy[i] \notin owner[o]

\* The handles in use: one for each CurlHandle, and none for two of them.
OwnedOnce ==
    /\ \A o \in Owners : \A g, h \in owner[o] : g = h
    /\ \A o, p \in Owners : \A h \in owner[o] : h \in owner[p] => o = p

\* None is lost.
NoneLost ==
    \A h \in created : \/ \E i \in DOMAIN freeEasy : freeEasy[i] = h
                       \/ \E o \in Owners : h \in owner[o]

EasyInv == EasyTyped /\ FreeOnce /\ OwnedOnce /\ NoneLost

\* The last of a sequence taken off, and one put at its end.
LEMMA TakenOff ==
    ASSUME NEW S, NEW s \in Seq(S), s # <<>>
    PROVE  /\ Front(s) \in Seq(S) /\ Last(s) \in S
           /\ Len(s) \in DOMAIN s /\ Last(s) = s[Len(s)]
           /\ DOMAIN Front(s) = DOMAIN s \ {Len(s)}
           /\ \A i \in DOMAIN Front(s) : Front(s)[i] = s[i]
  BY DEF Front, Last

LEMMA PutAtTheEnd ==
    ASSUME NEW S, NEW s \in Seq(S), NEW e \in S
    PROVE  /\ Append(s, e) \in Seq(S)
           /\ DOMAIN Append(s, e) = DOMAIN s \cup {Len(s) + 1} /\ Len(s) + 1 \notin DOMAIN s
           /\ Append(s, e)[Len(s) + 1] = e
           /\ \A i \in DOMAIN s : Append(s, e)[i] = s[i]
  OBVIOUS

LEMMA EasyInitInv == CurlInit => EasyInv
  BY DEF CurlInit, EasyInv, EasyTyped, FreeOnce, OwnedOnce, NoneLost

\* LibCurl::get_handle(): the handle it returns is in nobody's hands and no longer retained.
LEMMA HandleTaken ==
    ASSUME EasyInv, NEW t, NEW o \in Owners, NEW h \in Handles, NEW share, NEW refused,
           MakeHandle(t, o, h, share, refused)
    PROVE  /\ freeEasy' \in Seq(Handles) /\ DOMAIN freeEasy' \subseteq DOMAIN freeEasy
           /\ \A i \in DOMAIN freeEasy' : freeEasy'[i] = freeEasy[i] /\ freeEasy'[i] # h
           /\ \A i \in DOMAIN freeEasy : i \in DOMAIN freeEasy' \/ freeEasy[i] = h
           /\ \A p \in Owners : h \notin owner[p]
<1>1. CASE freeEasy = <<>>
  <2>1. freeEasy' = <<>> /\ h \notin created
    BY <1>1 DEF MakeHandle
  <2> QED BY <1>1, <2>1 DEF EasyInv, EasyTyped
<1>2. CASE freeEasy # <<>>
  <2>1. freeEasy' = Front(freeEasy) /\ h = Last(freeEasy)
    BY <1>2 DEF MakeHandle
  <2>2. freeEasy \in Seq(Handles)
    BY DEF EasyInv, EasyTyped
  <2>3. /\ Front(freeEasy) \in Seq(Handles)
        /\ Len(freeEasy) \in DOMAIN freeEasy /\ h = freeEasy[Len(freeEasy)]
        /\ DOMAIN Front(freeEasy) = DOMAIN freeEasy \ {Len(freeEasy)}
        /\ \A i \in DOMAIN Front(freeEasy) : Front(freeEasy)[i] = freeEasy[i]
    BY <1>2, <2>1, <2>2, TakenOff
  <2> QED BY <2>1, <2>3 DEF EasyInv, FreeOnce
<1> QED BY <1>1, <1>2

LEMMA MakeHandleEasyInv ==
    ASSUME EasyInv, NEW t, NEW o \in Owners, NEW h \in Handles,
           NEW share \in BOOLEAN, NEW refused \in BOOLEAN,
           MakeHandle(t, o, h, share, refused)
    PROVE  EasyInv'
<1>1. /\ freeEasy' \in Seq(Handles) /\ DOMAIN freeEasy' \subseteq DOMAIN freeEasy
      /\ \A i \in DOMAIN freeEasy' : freeEasy'[i] = freeEasy[i] /\ freeEasy'[i] # h
      /\ \A i \in DOMAIN freeEasy : i \in DOMAIN freeEasy' \/ freeEasy[i] = h
      /\ \A p \in Owners : h \notin owner[p]
  BY HandleTaken
<1>2. /\ owner[o] = {} /\ owner'[o] = (IF refused THEN {} ELSE {h})
      /\ \A p \in Owners : p # o => owner'[p] = owner[p]
      /\ DOMAIN owner' = Owners
  BY DEF MakeHandle, EasyInv, EasyTyped
<1>3. created' = IF refused THEN created \ {h} ELSE created \cup {h}
  BY DEF MakeHandle
<1>4. DOMAIN attached' = Handles /\ \A g \in Handles : g # h => attached'[g] = attached[g]
  BY DEF MakeHandle, EasyInv, EasyTyped
<1>5. EasyTyped'
  <2>1. created' \subseteq Handles
    BY <1>3 DEF EasyInv, EasyTyped
  <2>2. \A p \in Owners : owner'[p] \subseteq created'
    BY <1>1, <1>2, <1>3 DEF EasyInv, EasyTyped
  <2>3. owner' \in [Owners -> SUBSET created']
    <3>1. owner' = [p \in Owners |-> owner'[p]]
      BY DEF MakeHandle, EasyInv, EasyTyped
    <3> QED BY <2>2, <3>1
  <2> QED BY <1>1, <1>4, <2>1, <2>3 DEF EasyTyped
<1>6. FreeOnce'
  <2>1. \A i, j \in DOMAIN freeEasy' : freeEasy'[i] = freeEasy'[j] => i = j
    BY <1>1 DEF EasyInv, FreeOnce
  <2>2. ASSUME NEW i \in DOMAIN freeEasy'
        PROVE  /\ freeEasy'[i] \in created' /\ attached'[freeEasy'[i]] = NoShare
               /\ \A p \in Owners : freeEasy'[i] \notin owner'[p]
    <3>1. /\ freeEasy'[i] # h /\ freeEasy'[i] \in created /\ freeEasy'[i] \in Handles
          /\ attached[freeEasy'[i]] = NoShare
          /\ \A p \in Owners : freeEasy'[i] \notin owner[p]
      BY <1>1 DEF EasyInv, FreeOnce, EasyTyped
    <3> QED BY <1>2, <1>3, <1>4, <3>1
  <2> QED BY <2>1, <2>2 DEF FreeOnce
<1>7. OwnedOnce'
  <2>1. \A p \in Owners : \A f, g \in owner'[p] : f = g
    BY <1>2 DEF EasyInv, OwnedOnce
  <2>2. \A p, q \in Owners : \A g \in owner'[p] : g \in owner'[q] => p = q
    BY <1>1, <1>2 DEF EasyInv, OwnedOnce
  <2> QED BY <2>1, <2>2 DEF OwnedOnce
<1>8. NoneLost'
  <2> SUFFICES ASSUME NEW g \in created'
               PROVE  \/ \E i \in DOMAIN freeEasy' : freeEasy'[i] = g
                      \/ \E p \in Owners : g \in owner'[p]
    BY DEF NoneLost
  <2>1. CASE g = h
    BY <1>2, <1>3, <2>1
  <2>2. CASE g # h
    <3>1. \/ \E i \in DOMAIN freeEasy : freeEasy[i] = g
          \/ \E p \in Owners : g \in owner[p]
      BY <1>3, <2>2 DEF EasyInv, NoneLost
    <3> QED BY <1>1, <1>2, <2>2, <3>1
  <2> QED BY <2>1, <2>2
<1> QED BY <1>5, <1>6, <1>7, <1>8 DEF EasyInv

LEMMA DropHandleEasyInv ==
    ASSUME EasyInv, NEW o \in Owners, DropHandle(o)
    PROVE  EasyInv'
<1> PICK h \in owner[o] : attached' = Detach(h) /\ freeEasy' = Append(freeEasy, h)
  BY DEF DropHandle
<1>1. h \in Handles /\ h \in created /\ created' = created
  BY DEF DropHandle, EasyInv, EasyTyped
<1> DEFINE n == Len(freeEasy) + 1
<1>2. /\ freeEasy' \in Seq(Handles) /\ DOMAIN freeEasy' = DOMAIN freeEasy \cup {n} /\ n \notin DOMAIN freeEasy
      /\ freeEasy'[n] = h /\ \A i \in DOMAIN freeEasy : freeEasy'[i] = freeEasy[i]
  BY <1>1, PutAtTheEnd DEF EasyInv, EasyTyped
<1> HIDE DEF n
<1>3. /\ owner'[o] = {} /\ \A p \in Owners : p # o => owner'[p] = owner[p]
      /\ owner' \in [Owners -> SUBSET created']
  BY <1>1 DEF DropHandle, EasyInv, EasyTyped
<1>4. DOMAIN attached' = Handles /\ attached'[h] = NoShare /\ \A g \in Handles : g # h => attached'[g] = attached[g]
  BY <1>1 DEF Detach, EasyInv, EasyTyped
<1>5. EasyTyped'
  BY <1>1, <1>2, <1>3, <1>4 DEF EasyInv, EasyTyped
<1>6. /\ \A p \in Owners : p # o => h \notin owner[p]
      /\ \A i \in DOMAIN freeEasy : freeEasy[i] # h
      /\ \A g \in owner[o] : g = h
  BY DEF EasyInv, OwnedOnce, FreeOnce
<1>7. FreeOnce'
  <2>1. \A i, j \in DOMAIN freeEasy' : freeEasy'[i] = freeEasy'[j] => i = j
    BY <1>2, <1>6 DEF EasyInv, FreeOnce
  <2>2. ASSUME NEW i \in DOMAIN freeEasy'
        PROVE  /\ freeEasy'[i] \in created' /\ attached'[freeEasy'[i]] = NoShare
               /\ \A p \in Owners : freeEasy'[i] \notin owner'[p]
    <3>1. CASE i = n
      BY <1>1, <1>2, <1>3, <1>4, <1>6, <3>1
    <3>2. CASE i # n
      <4>1. /\ freeEasy'[i] \in created /\ freeEasy'[i] \in Handles /\ freeEasy'[i] # h
            /\ attached[freeEasy'[i]] = NoShare
            /\ \A p \in Owners : freeEasy'[i] \notin owner[p]
        BY <1>2, <1>6, <3>2 DEF EasyInv, EasyTyped, FreeOnce
      <4> QED BY <1>1, <1>3, <1>4, <4>1
    <3> QED BY <3>1, <3>2
  <2> QED BY <2>1, <2>2 DEF FreeOnce
<1>8. OwnedOnce'
  <2>1. \A p \in Owners : \A f, g \in owner'[p] : f = g
    BY <1>3 DEF EasyInv, OwnedOnce
  <2>2. \A p, q \in Owners : \A g \in owner'[p] : g \in owner'[q] => p = q
    BY <1>3 DEF EasyInv, OwnedOnce
  <2> QED BY <2>1, <2>2 DEF OwnedOnce
<1>9. NoneLost'
  <2> SUFFICES ASSUME NEW g \in created
               PROVE  \/ \E i \in DOMAIN freeEasy' : freeEasy'[i] = g
                      \/ \E p \in Owners : g \in owner'[p]
    BY <1>1 DEF NoneLost
  <2>1. \/ \E i \in DOMAIN freeEasy : freeEasy[i] = g
        \/ \E p \in Owners : g \in owner[p]
    BY DEF EasyInv, NoneLost
  <2> QED BY <1>2, <1>3, <1>6, <2>1
<1> QED BY <1>5, <1>7, <1>8, <1>9 DEF EasyInv

LEMMA EasyUntouched ==
    ASSUME EasyInv, UNCHANGED <<created, freeEasy, attached, owner>>
    PROVE  EasyInv'
  BY DEF EasyInv, EasyTyped, FreeOnce, OwnedOnce, NoneLost

LEMMA EasyStepInv == EasyInv /\ [CurlNext]_curlVars => EasyInv'
<1> SUFFICES ASSUME EasyInv, [CurlNext]_curlVars PROVE EasyInv'
  OBVIOUS
<1>1. CASE UNCHANGED curlVars
  BY <1>1, EasyUntouched DEF curlVars
<1>2. CASE \E t \in CurlThreads, o \in Owners, h \in Handles, share, refused \in BOOLEAN :
              MakeHandle(t, o, h, share, refused)
  BY <1>2, MakeHandleEasyInv
<1>3. CASE \E o \in Owners : DropHandle(o)
  BY <1>3, DropHandleEasyInv
<1>4. CASE \E t \in CurlThreads : Exit(t) \/ Start(t)
  BY <1>4, EasyUntouched DEF Exit, Start
<1> QED BY <1>1, <1>2, <1>3, <1>4 DEF CurlNext

LEMMA EasyInvImplies == EasyInv => FreeHandlesAreDetached
<1> SUFFICES ASSUME EasyInv PROVE FreeHandlesAreDetached
  OBVIOUS
<1> DEFINE free == ToSet(freeEasy)
<1>1. free = {freeEasy[i] : i \in DOMAIN freeEasy}
  BY DEF ToSet
<1>2. Len(freeEasy) = Cardinality(free)
  <2>1. Len(freeEasy) \in Nat /\ DOMAIN freeEasy = 1..Len(freeEasy)
    BY DEF EasyInv, EasyTyped
  <2>2. freeEasy \in [1..Len(freeEasy) -> free]
    BY <1>1, <2>1 DEF EasyInv, EasyTyped
  <2>3. freeEasy \in Bijection(1..Len(freeEasy), free)
    BY <1>1, <2>1, <2>2 DEF EasyInv, FreeOnce, Bijection, Injection, Surjection, IsInjective
  <2>4. ExistsBijection(1..Len(freeEasy), free)
    BY <2>3 DEF ExistsBijection
  <2> QED BY <2>1, <2>4, FS_CountingElements
<1>3. \A h \in free : attached[h] = NoShare
  BY <1>1 DEF EasyInv, FreeOnce
<1>4. ASSUME NEW h \in created
      PROVE  Cardinality({o \in Owners : h \in owner[o]}) = IF h \in free THEN 0 ELSE 1
  <2>1. CASE h \in free
    <3>1. {o \in Owners : h \in owner[o]} = {}
      BY <1>1, <2>1 DEF EasyInv, FreeOnce
    <3> QED BY <2>1, <3>1, FS_EmptySet
  <2>2. CASE h \notin free
    <3>1. PICK o \in Owners : h \in owner[o]
      BY <1>1, <2>2 DEF EasyInv, NoneLost
    <3>2. {p \in Owners : h \in owner[p]} = {o}
      BY <3>1 DEF EasyInv, OwnedOnce
    <3> QED BY <2>2, <3>2, FS_Singleton
  <2> QED BY <2>1, <2>2
<1> QED BY <1>2, <1>3, <1>4 DEF FreeHandlesAreDetached

\* LibCurl and CurlHandle: whatever the threads, constructors that throw included, a retained
\* easy handle references no share, and every easy handle is in exactly one place: retained
\* once, or held by one CurlHandle.
THEOREM FreeHandlesDetached == CurlSpec => []FreeHandlesAreDetached
<1>1. CurlSpec => []EasyInv
  BY EasyInitInv, EasyStepInv, PTL DEF CurlSpec
<1> QED BY <1>1, EasyInvImplies, PTL

-------------------------------------------------------------------------------
(* The share handles.                                                      *)

\* The live threads assigned to share i.
Members(i) == {t \in alive : assigned[t] = i}

ShareTyped ==
    /\ numThreads \in Seq(Nat) /\ alive \subseteq CurlThreads
    /\ assigned \in [CurlThreads -> Nat \cup {NoShare}]

\* Only live threads are assigned, to shares that exist.
AssignedAlive ==
    \A t \in CurlThreads : assigned[t] # NoShare => t \in alive /\ assigned[t] \in DOMAIN numThreads

MembersCounted ==
    \A i \in DOMAIN numThreads :
        numThreads[i] = Cardinality(Members(i)) /\ numThreads[i] <= MaxPerCache

FewShares == (Len(numThreads) - 1) * MaxPerCache < Cardinality(CurlThreads)

ShareInv == ShareTyped /\ AssignedAlive /\ MembersCounted /\ FewShares

\* Min() of a nonempty set of naturals.
LEMMA LeastOne ==
    ASSUME NEW S \in SUBSET Nat, S # {}
    PROVE  Min(S) \in S /\ \A y \in S : Min(S) <= y
<1>1. \E x \in S : \A y \in S : ~(<<y, x>> \in OpToRel(<, Nat))
  BY WFMin, NatLessThanWellFounded
<1>2. \A x, y \in Nat : y < x => <<y, x>> \in OpToRel(<, Nat)
  BY DEF OpToRel
<1>3. \E x \in S : \A y \in S : ~(y < x)
  BY <1>1, <1>2, Zenon
<1>4. \E x \in S : \A y \in S : x <= y
  BY <1>3
<1> QED BY <1>4 DEF Min

LEMMA MembersFinite ==
    ASSUME ShareInv, NEW i
    PROVE  IsFiniteSet(Members(i))
  BY CurlAssumption, FS_Subset DEF ShareInv, ShareTyped, Members

\* n disjoint sets of m elements each leave no room for more than n * m.
LEMMA DisjointSetsCounted ==
    ASSUME NEW T, IsFiniteSet(T), NEW n \in Nat, NEW m \in Nat, NEW part \in [1..n -> SUBSET T],
           \A i \in 1..n : Cardinality(part[i]) = m,
           \A i, j \in 1..n : i # j => part[i] \cap part[j] = {}
    PROVE  n * m <= Cardinality(T)
<1> DEFINE pick == [i \in 1..n |-> CHOOSE g : g \in Bijection(1..m, part[i])]
           f == [x \in (1..n) \X (1..m) |-> pick[x[1]][x[2]]]
<1>1. ASSUME NEW i \in 1..n PROVE pick[i] \in Bijection(1..m, part[i])
  <2>1. IsFiniteSet(part[i])
    BY FS_Subset
  <2>2. ExistsBijection(1..m, part[i])
    BY <2>1, FS_CardinalityType
  <2> QED BY <2>2 DEF ExistsBijection
<1> HIDE DEF pick
<1>2. ASSUME NEW i \in 1..n, NEW k \in 1..m
      PROVE  pick[i][k] \in part[i] /\ \A l \in 1..m : pick[i][k] = pick[i][l] => k = l
  BY <1>1 DEF Bijection, Injection, IsInjective
<1>3. f \in [(1..n) \X (1..m) -> T]
  BY <1>2
<1>4. ASSUME NEW x \in (1..n) \X (1..m), NEW y \in (1..n) \X (1..m), f[x] = f[y]
      PROVE  x = y
  <2>1. x[1] \in 1..n /\ x[2] \in 1..m /\ y[1] \in 1..n /\ y[2] \in 1..m
    OBVIOUS
  <2>2. pick[x[1]][x[2]] = pick[y[1]][y[2]]
    BY <1>4
  <2>3. x[1] = y[1]
    BY <1>2, <2>1, <2>2
  <2>4. x[2] = y[2]
    BY <1>2, <2>1, <2>2, <2>3
  <2> QED BY <2>3, <2>4
<1>5. f \in Injection((1..n) \X (1..m), T)
  BY <1>3, <1>4 DEF Injection, IsInjective
<1>6. Cardinality((1..n) \X (1..m)) <= Cardinality(T)
  BY <1>5, FS_Injection
<1>7. Cardinality((1..n) \X (1..m)) = Cardinality(1..n) * Cardinality(1..m)
  <2>1. IsFiniteSet(1..n) /\ IsFiniteSet(1..m)
    BY FS_Interval
  <2> HIDE DEF f
  <2> QED BY <2>1, FS_Product, Zenon
<1>8. Cardinality(1..n) = n /\ Cardinality(1..m) = m
  BY FS_Interval
<1> QED BY <1>6, <1>7, <1>8

LEMMA ShareInitInv == CurlInit => ShareInv
<1> SUFFICES ASSUME CurlInit PROVE ShareInv
  OBVIOUS
<1> USE CurlAssumption
<1>1. ShareTyped /\ AssignedAlive /\ MembersCounted
  BY DEF CurlInit, ShareTyped, AssignedAlive, MembersCounted
<1>2. Cardinality(CurlThreads) \in Nat
  BY FS_CardinalityType
<1>3. FewShares
  <2>1. Len(numThreads) = 0
    BY DEF CurlInit
  <2> QED BY <1>2, <2>1 DEF FewShares
<1> QED BY <1>1, <1>3 DEF ShareInv

\* CurlShareRegistry::acquire() with room in a share.
LEMMA AcquireOld ==
    ASSUME ShareInv, NEW t \in alive, assigned[t] = NoShare, WithRoom # {}, UNCHANGED alive,
           assigned' = [assigned EXCEPT ![t] = Acquired], numThreads' = AfterAcquire
    PROVE  ShareInv'
<1> USE CurlAssumption
<1>0. PICK k : k = Acquired
  OBVIOUS
<1>1. k \in WithRoom
  <2>1. WithRoom \in SUBSET Nat
    BY DEF WithRoom, ShareInv, ShareTyped
  <2> QED BY <1>0, <2>1, LeastOne DEF Acquired
<1>2. k \in DOMAIN numThreads /\ numThreads[k] < MaxPerCache /\ k \in Nat /\ numThreads[k] \in Nat
  BY <1>1 DEF WithRoom, RoomBelow, ShareInv, ShareTyped
<1>3. numThreads' = [numThreads EXCEPT ![k] = @ + 1]
  BY <1>0 DEF AfterAcquire
<1>4. /\ numThreads' \in Seq(Nat) /\ Len(numThreads') = Len(numThreads)
      /\ DOMAIN numThreads' = DOMAIN numThreads
      /\ numThreads'[k] = numThreads[k] + 1
      /\ \A i \in DOMAIN numThreads : i # k => numThreads'[i] = numThreads[i]
  BY <1>2, <1>3 DEF ShareInv, ShareTyped
<1>5. /\ t \in CurlThreads /\ assigned'[t] = k /\ DOMAIN assigned' = CurlThreads
      /\ \A u \in CurlThreads : u # t => assigned'[u] = assigned[u]
  BY <1>0 DEF ShareInv, ShareTyped
<1>6. ShareTyped'
  BY <1>0, <1>2, <1>4 DEF ShareInv, ShareTyped
<1>7. AssignedAlive'
  BY <1>2, <1>4, <1>5 DEF ShareInv, AssignedAlive
<1>8. MembersCounted'
  <2>1. k # NoShare
    BY <1>2
  <2>2. Members(k)' = Members(k) \cup {t} /\ t \notin Members(k)
    BY <1>5, <2>1 DEF Members, ShareInv, ShareTyped
  <2>3. Cardinality(Members(k)') = Cardinality(Members(k)) + 1
    BY <2>2, MembersFinite, FS_AddElement
  <2>4. numThreads'[k] = Cardinality(Members(k)') /\ numThreads'[k] <= MaxPerCache
    BY <1>2, <1>4, <2>3 DEF ShareInv, MembersCounted
  <2>5. ASSUME NEW i \in DOMAIN numThreads, i # k
        PROVE  numThreads'[i] = Cardinality(Members(i)') /\ numThreads'[i] <= MaxPerCache
    <3>1. i # NoShare
      BY DEF ShareInv, ShareTyped
    <3>2. Members(i)' = Members(i)
      BY <1>5, <2>5, <3>1 DEF Members, ShareInv, ShareTyped
    <3> QED BY <1>4, <2>5, <3>2 DEF ShareInv, MembersCounted
  <2> QED BY <1>4, <2>4, <2>5 DEF MembersCounted
<1>9. FewShares'
  BY <1>4 DEF ShareInv, FewShares
<1> QED BY <1>6, <1>7, <1>8, <1>9 DEF ShareInv

\* CurlShareRegistry::acquire() when every share is full: they then hold so many threads
\* besides this one that one share more is needed.
LEMMA AcquireNew ==
    ASSUME ShareInv, NEW t \in alive, assigned[t] = NoShare, WithRoom = {}, UNCHANGED alive,
           assigned' = [assigned EXCEPT ![t] = Acquired], numThreads' = AfterAcquire
    PROVE  ShareInv'
<1> USE CurlAssumption
<1>0. PICK n : n = Len(numThreads)
  OBVIOUS
<1>1. /\ n \in Nat /\ DOMAIN numThreads = 1..n
      /\ \A i \in 1..n : numThreads[i] \in Nat
  BY <1>0 DEF ShareInv, ShareTyped
<1>2. /\ numThreads' \in Seq(Nat) /\ Len(numThreads') = n + 1 /\ DOMAIN numThreads' = 1..(n + 1)
      /\ numThreads'[n + 1] = 1 /\ \A i \in 1..n : numThreads'[i] = numThreads[i]
  BY <1>0, <1>1 DEF AfterAcquire, ShareInv, ShareTyped
<1>3. Acquired = n + 1
  BY <1>0 DEF Acquired
<1>4. /\ t \in CurlThreads /\ assigned'[t] = n + 1 /\ DOMAIN assigned' = CurlThreads
      /\ \A u \in CurlThreads : u # t => assigned'[u] = assigned[u]
  BY <1>3 DEF ShareInv, ShareTyped
<1>5. ShareTyped'
  BY <1>1, <1>2, <1>3 DEF ShareInv, ShareTyped
<1>6. AssignedAlive'
  BY <1>1, <1>2, <1>4 DEF ShareInv, AssignedAlive
<1>7. ASSUME NEW i \in 1..n PROVE Members(i)' = Members(i)
  <2>1. i # NoShare /\ i # n + 1
    BY <1>1
  <2> QED BY <1>4, <2>1 DEF Members, ShareInv, ShareTyped
<1>8. MembersCounted'
  <2> PICK k : k = n + 1
    OBVIOUS
  <2>1. Members(k)' = {t}
    <3>1. \A u \in CurlThreads : assigned[u] # k
      BY <1>1 DEF ShareInv, AssignedAlive
    <3> QED BY <1>4, <3>1 DEF Members, ShareInv, ShareTyped
  <2>2. numThreads'[k] = Cardinality(Members(k)') /\ numThreads'[k] <= MaxPerCache
    <3>1. Cardinality({t}) = 1
      BY FS_Singleton
    <3>2. numThreads'[k] = 1
      BY <1>2
    <3>3. Cardinality(Members(k)') = 1
      BY <2>1, <3>1, Zenon
    <3> QED BY <3>2, <3>3
  <2>3. \A i \in 1..n : numThreads'[i] = Cardinality(Members(i)') /\ numThreads'[i] <= MaxPerCache
    BY <1>1, <1>2, <1>7 DEF ShareInv, MembersCounted
  <2> QED BY <1>1, <1>2, <2>2, <2>3 DEF MembersCounted
<1>9. FewShares'
  <2> DEFINE rest == CurlThreads \ {t}
             part == [i \in 1..n |-> Members(i)]
  <2>1. IsFiniteSet(rest) /\ Cardinality(rest) = Cardinality(CurlThreads) - 1
    BY <1>4, FS_RemoveElement
  <2>2. part \in [1..n -> SUBSET rest]
    BY <1>1 DEF Members, ShareInv, ShareTyped
  <2>3. ASSUME NEW i \in 1..n PROVE Cardinality(part[i]) = MaxPerCache
    <3>1. numThreads[i] <= MaxPerCache /\ numThreads[i] = Cardinality(Members(i))
      BY <1>1 DEF ShareInv, MembersCounted
    <3>2. ~(numThreads[i] < MaxPerCache)
      BY <1>1 DEF WithRoom, RoomBelow
    <3> QED BY <1>1, <3>1, <3>2
  <2>4. \A i, j \in 1..n : i # j => part[i] \cap part[j] = {}
    BY DEF Members
  <2> HIDE DEF rest, part
  <2>5. n * MaxPerCache <= Cardinality(rest)
    BY <1>1, <2>1, <2>2, <2>3, <2>4, DisjointSetsCounted
  <2>6. Cardinality(CurlThreads) \in Nat /\ Cardinality(CurlThreads)' = Cardinality(CurlThreads)
    BY FS_CardinalityType
  <2>7. n * MaxPerCache \in Nat /\ (n + 1) - 1 = n
    BY <1>1
  <2>8. (Len(numThreads') - 1) * MaxPerCache = n * MaxPerCache
    BY <1>2, <2>7
  <2> QED BY <2>1, <2>5, <2>6, <2>7, <2>8 DEF FewShares
<1> QED BY <1>5, <1>6, <1>8, <1>9 DEF ShareInv

\* CurlShareRegistry::release().
LEMMA ExitShareInv ==
    ASSUME ShareInv, NEW t \in CurlThreads, Exit(t)
    PROVE  ShareInv'
<1> USE CurlAssumption
<1> DEFINE n == Len(numThreads)
<1>1. /\ n \in Nat /\ DOMAIN numThreads = 1..n
      /\ \A i \in 1..n : numThreads[i] \in Nat
  BY DEF ShareInv, ShareTyped
<1> HIDE DEF n
<1>2. /\ DOMAIN numThreads' = 1..n /\ numThreads' = [i \in 1..n |-> numThreads'[i]]
      /\ \A i \in 1..n : numThreads'[i] = IF i = assigned[t] THEN numThreads[i] - 1 ELSE numThreads[i]
  BY <1>1 DEF Exit
<1>3. /\ assigned'[t] = NoShare /\ DOMAIN assigned' = CurlThreads
      /\ \A u \in CurlThreads : u # t => assigned'[u] = assigned[u]
      /\ alive' = alive \ {t} /\ t \in alive
  BY DEF Exit, ShareInv, ShareTyped
<1>4. ASSUME NEW i \in 1..n
      PROVE  /\ numThreads'[i] = Cardinality(Members(i)') /\ numThreads'[i] <= MaxPerCache
             /\ numThreads'[i] \in Nat
  <2>1. i # NoShare
    BY <1>1
  <2>2. numThreads[i] = Cardinality(Members(i)) /\ numThreads[i] <= MaxPerCache
    BY <1>1 DEF ShareInv, MembersCounted
  <2>3. Members(i)' = Members(i) \ {t}
    BY <1>3, <2>1 DEF Members, ShareInv, ShareTyped
  <2>4. IsFiniteSet(Members(i)) /\ IsFiniteSet(Members(i)')
    BY <2>3, MembersFinite, FS_RemoveElement
  <2>5. Cardinality(Members(i)') = IF t \in Members(i) THEN Cardinality(Members(i)) - 1 ELSE Cardinality(Members(i))
    BY <2>3, <2>4, FS_RemoveElement
  <2>6. Cardinality(Members(i)') \in Nat
    BY <2>4, FS_CardinalityType
  <2>7. t \in Members(i) <=> i = assigned[t]
    BY <1>3 DEF Members
  <2> QED BY <1>1, <1>2, <2>2, <2>5, <2>6, <2>7
<1>5. numThreads' \in Seq(Nat) /\ Len(numThreads') = n
  <2>1. numThreads' \in [1..n -> Nat]
    BY <1>2, <1>4
  <2> QED BY <1>1, <2>1
<1>6. ShareTyped'
  BY <1>3, <1>5 DEF Exit, ShareInv, ShareTyped
<1>7. AssignedAlive'
  BY <1>1, <1>2, <1>3 DEF ShareInv, AssignedAlive
<1>8. MembersCounted'
  BY <1>2, <1>4 DEF MembersCounted
<1>9. FewShares'
  BY <1>5 DEF ShareInv, FewShares, n
<1> QED BY <1>6, <1>7, <1>8, <1>9 DEF ShareInv

LEMMA StartShareInv ==
    ASSUME ShareInv, NEW t \in CurlThreads, Start(t)
    PROVE  ShareInv'
<1> USE CurlAssumption
<1>1. assigned[t] = NoShare /\ alive' = alive \cup {t} /\ UNCHANGED <<numThreads, assigned>>
  BY DEF Start, ShareInv, AssignedAlive
<1>2. ShareTyped' /\ AssignedAlive' /\ FewShares'
  BY <1>1 DEF ShareInv, ShareTyped, AssignedAlive, FewShares
<1>3. \A i \in DOMAIN numThreads : Members(i)' = Members(i)
  <2> SUFFICES ASSUME NEW i \in DOMAIN numThreads PROVE Members(i)' = Members(i)
    OBVIOUS
  <2>1. i # NoShare
    BY DEF ShareInv, ShareTyped
  <2> QED BY <1>1, <2>1 DEF Members
<1>4. MembersCounted'
  BY <1>1, <1>3 DEF ShareInv, MembersCounted
<1> QED BY <1>2, <1>4 DEF ShareInv

LEMMA ShareUntouched ==
    ASSUME ShareInv, UNCHANGED <<numThreads, assigned, alive>>
    PROVE  ShareInv'
  BY DEF ShareInv, ShareTyped, AssignedAlive, MembersCounted, Members, FewShares

LEMMA ShareStepInv == ShareInv /\ [CurlNext]_curlVars => ShareInv'
<1> SUFFICES ASSUME ShareInv, [CurlNext]_curlVars PROVE ShareInv'
  OBVIOUS
<1>1. CASE UNCHANGED curlVars
  BY <1>1, ShareUntouched DEF curlVars
<1>2. ASSUME NEW t \in CurlThreads, NEW o \in Owners, NEW h \in Handles,
             NEW share \in BOOLEAN, NEW refused \in BOOLEAN, MakeHandle(t, o, h, share, refused)
      PROVE  ShareInv'
  <2>1. CASE share /\ assigned[t] = NoShare
    <3>1. /\ t \in alive /\ UNCHANGED alive
          /\ assigned' = [assigned EXCEPT ![t] = Acquired] /\ numThreads' = AfterAcquire
      BY <1>2, <2>1 DEF MakeHandle
    <3> QED BY <2>1, <3>1, AcquireOld, AcquireNew
  <2>2. CASE ~(share /\ assigned[t] = NoShare)
    BY <1>2, <2>2, ShareUntouched DEF MakeHandle
  <2> QED BY <2>1, <2>2
<1>3. CASE \E o \in Owners : DropHandle(o)
  BY <1>3, ShareUntouched DEF DropHandle
<1>4. CASE \E t \in CurlThreads : Exit(t) \/ Start(t)
  BY <1>4, ExitShareInv, StartShareInv
<1> QED BY <1>1, <1>2, <1>3, <1>4 DEF CurlNext

\* CurlShareRegistry: for every number of threads that come and go, num_threads counts the
\* live threads assigned to a share and stays within max_threads_per_cache, and there are
\* never more shares than that many threads need.
THEOREM SharesCounted == CurlSpec => []SharesAreCounted
<1>1. CurlSpec => []ShareInv
  BY ShareInitInv, ShareStepInv, PTL DEF CurlSpec
<1>2. ShareInv => SharesAreCounted
  BY DEF ShareInv, MembersCounted, Members, FewShares, SharesAreCounted
<1> QED BY <1>1, <1>2, PTL

-------------------------------------------------------------------------------
(* Opening a handle.                                                       *)

Chosen == FirstSuited(request.url, request.allow)

\* The endpoint that open() settles on.
Allowed ==
    /\ endpoint \in ToSet(request.allow) /\ IsUrlValid(endpoint, request.url)
    /\ request.type = "AUTO" => Chosen = endpoint \/ (endpoint = "S3_PUBLIC" /\ Chosen = "S3")

\* What the S3 probe, if there was one, has left.
Probed ==
    \/ probes = <<>> /\ nbytes = None
    \/ probes = <<"S3">> /\ (nbytes = None => endpoint = "S3_PUBLIC")

OpenInv ==
    /\ request.allow \in Seq(EndpointTypes)
    /\ openPc \in {"choose", "probe", "size", "opened", "thrown"}
    /\ openPc = "choose" => probes = <<>> /\ nbytes = None
    /\ openPc = "probe" => /\ probes = <<>> /\ nbytes = None
                           /\ request.type = "AUTO" /\ endpoint = "S3"
                           /\ Chosen = "S3" /\ Constructs("S3")
    /\ openPc = "size" => Allowed /\ Probed
    /\ openPc = "opened" => /\ Allowed /\ IsInjective(probes)
                            /\ request.nbytes # None => nbytes = request.nbytes

LEMMA DefaultListTyped == DefaultAllowList \in Seq(EndpointTypes)
  BY DEF DefaultAllowList, EndpointTypes

\* Both credentialed and anonymous S3 take the same URLs.
LEMMA PublicSuits ==
    ASSUME NEW u, IsUrlValid("S3", u)
    PROVE  IsUrlValid("S3_PUBLIC", u)
  BY DEF IsUrlValid

\* The type that inference finds is of the list and suits the URL.
LEMMA FirstIsSuited ==
    ASSUME NEW u, NEW allow \in Seq(EndpointTypes), FirstSuited(u, allow) # None
    PROVE  FirstSuited(u, allow) \in ToSet(allow) /\ IsUrlValid(FirstSuited(u, allow), u)
<1>1. Suited(u, allow) # {}
  BY DEF FirstSuited
<1>2. Suited(u, allow) \in SUBSET Nat
  BY DEF Suited
<1>3. Min(Suited(u, allow)) \in Suited(u, allow)
  BY <1>1, <1>2, LeastOne
<1>4. PICK i \in Suited(u, allow) : FirstSuited(u, allow) = allow[i]
  BY <1>1, <1>3 DEF FirstSuited
<1> QED BY <1>4 DEF Suited, ToSet

LEMMA OpenInitInv == OpenInit => OpenInv
  BY OpenAssumption, DefaultListTyped DEF OpenInit, OpenInv

LEMMA InferInv == OpenInv /\ Infer => OpenInv'
<1> SUFFICES ASSUME OpenInv, Infer PROVE OpenInv'
  OBVIOUS
<1> USE OpenAssumption
<1> DEFINE type == FirstSuited(request.url, request.allow)
<1>1. /\ request.allow \in Seq(EndpointTypes) /\ request.type = "AUTO" /\ probes = <<>> /\ nbytes = None
      /\ UNCHANGED <<request, env, nbytes, probes>>
  BY DEF OpenInv, Infer, Step
<1>2. type # None => type \in ToSet(request.allow) /\ IsUrlValid(type, request.url)
  BY <1>1, FirstIsSuited
<1>3. Chosen' = type /\ Constructs("S3")' = Constructs("S3")
  BY <1>1 DEF Chosen, FirstSuited, Suited, IsUrlValid, HttpUrl, S3Url, HasS3Format, PresignedUrl, WebHdfsUrl, Constructs
<1>7. /\ \/ type = None /\ Step(None, "thrown")
         \/ type \notin {None, "S3"} /\ Step(type, "size")
         \/ type = "S3" /\ Constructs("S3") /\ Step("S3", "probe")
         \/ /\ type = "S3" /\ ~Constructs("S3")
            /\ IF FallsBack(request.allow) THEN Step("S3_PUBLIC", "size") ELSE Step(None, "thrown")
  BY DEF Infer
<1>8. ASSUME NEW e \in ToSet(request.allow), IsUrlValid(e, request.url), Step(e, "size"),
             \/ type = e
             \/ e = "S3_PUBLIC" /\ type = "S3"
      PROVE  OpenInv'
  <2>1. endpoint' = e /\ openPc' = "size"
    BY <1>8 DEF Step
  <2>2. IsUrlValid(endpoint, request.url)' = IsUrlValid(e, request.url)
    BY <1>1, <2>1 DEF IsUrlValid, HttpUrl, S3Url, HasS3Format, PresignedUrl, WebHdfsUrl
  <2>3. Allowed'
    BY <1>1, <1>3, <1>8, <2>1, <2>2 DEF Allowed, ToSet
  <2> QED BY <1>1, <2>1, <2>3 DEF OpenInv, Probed
<1>9. CASE type = None /\ Step(None, "thrown")
  BY <1>1, <1>9 DEF OpenInv, Step
<1>10. CASE type \notin {None, "S3"} /\ Step(type, "size")
  BY <1>2, <1>8, <1>10
<1>11. CASE type = "S3" /\ Constructs("S3") /\ Step("S3", "probe")
  BY <1>1, <1>3, <1>11 DEF OpenInv, Step
<1>12. CASE type = "S3" /\ ~Constructs("S3") /\ FallsBack(request.allow) /\ Step("S3_PUBLIC", "size")
  <2>1. "S3_PUBLIC" \in ToSet(request.allow) /\ IsUrlValid("S3_PUBLIC", request.url)
    BY <1>2, <1>12, PublicSuits DEF FallsBack, EndpointTypes
  <2> QED BY <1>8, <1>12, <2>1 DEF EndpointTypes
<1>13. CASE Step(None, "thrown")
  BY <1>1, <1>13 DEF OpenInv, Step
<1> QED BY <1>7, <1>9, <1>10, <1>11, <1>12, <1>13

LEMMA ExplicitInv == OpenInv /\ Explicit => OpenInv'
<1> SUFFICES ASSUME OpenInv, Explicit PROVE OpenInv'
  OBVIOUS
<1>1. /\ request.allow \in Seq(EndpointTypes) /\ request.type # "AUTO" /\ probes = <<>> /\ nbytes = None
      /\ UNCHANGED <<request, env, nbytes, probes>>
  BY DEF OpenInv, Explicit, Step
<1>2. CASE Step(None, "thrown")
  BY <1>1, <1>2 DEF OpenInv, Step
<1>3. CASE /\ request.type \in ToSet(request.allow) /\ IsUrlValid(request.type, request.url)
           /\ Step(request.type, "size")
  <2>1. endpoint' = request.type /\ openPc' = "size"
    BY <1>3 DEF Step
  <2>2. IsUrlValid(endpoint, request.url)' = IsUrlValid(request.type, request.url)
    BY <1>1, <2>1 DEF IsUrlValid, HttpUrl, S3Url, HasS3Format, PresignedUrl, WebHdfsUrl
  <2>3. Allowed'
    BY <1>1, <1>3, <2>1, <2>2 DEF Allowed, ToSet
  <2> QED BY <1>1, <2>1, <2>3 DEF OpenInv, Probed
<1> QED BY <1>2, <1>3 DEF Explicit

\* A step that keeps the arguments and the environment keeps what depends only on them.
LEMMA ArgumentsFixed ==
    ASSUME UNCHANGED <<request, env>>
    PROVE  /\ Chosen' = Chosen
           /\ \A type : IsUrlValid(type, request.url)' = IsUrlValid(type, request.url)
  BY DEF Chosen, FirstSuited, Suited, IsUrlValid, HttpUrl, S3Url, HasS3Format, PresignedUrl, WebHdfsUrl

LEMMA ProbeInv ==
    ASSUME OpenInv, NEW size, ProbeS3(size)
    PROVE  OpenInv'
<1> USE OpenAssumption
<1>1. /\ request.allow \in Seq(EndpointTypes) /\ request.type = "AUTO" /\ endpoint = "S3"
      /\ probes = <<>> /\ nbytes = None /\ Chosen = "S3" /\ Constructs("S3")
      /\ UNCHANGED <<request, env>> /\ probes' = <<"S3">>
  BY DEF OpenInv, ProbeS3
<1>2. "S3" \in ToSet(request.allow) /\ IsUrlValid("S3", request.url)
  BY <1>1, FirstIsSuited DEF Chosen, EndpointTypes
<1>3. IsUrlValid("S3_PUBLIC", request.url)
  BY <1>2, PublicSuits
<1>5. ASSUME openPc' = "size", NEW e \in {"S3", "S3_PUBLIC"}, endpoint' = e, e \in ToSet(request.allow),
             nbytes' = None => e = "S3_PUBLIC"
      PROVE  OpenInv'
  <2>1. IsUrlValid(endpoint, request.url)'
    BY <1>1, <1>2, <1>3, <1>5 DEF IsUrlValid, HttpUrl, S3Url, HasS3Format, PresignedUrl, WebHdfsUrl
  <2>2. Chosen' = "S3"
    BY <1>1, ArgumentsFixed
  <2>4. Allowed'
    BY <1>1, <1>5, <2>1, <2>2 DEF Allowed, ToSet
  <2> QED BY <1>1, <1>5, <2>4 DEF OpenInv, Probed
<1>6. CASE size # None /\ nbytes' = size /\ openPc' = "size" /\ UNCHANGED endpoint
  BY <1>1, <1>2, <1>5, <1>6
<1>7. CASE FallsBack(request.allow) /\ endpoint' = "S3_PUBLIC" /\ openPc' = "size" /\ UNCHANGED nbytes
  BY <1>5, <1>7 DEF FallsBack
<1>8. CASE openPc' = "thrown"
  BY <1>1, <1>8 DEF OpenInv
<1> QED BY <1>6, <1>7, <1>8 DEF ProbeS3

\* The requests of a fallback: S3's probe, then the other endpoint's.
LEMMA AfterTheProbe ==
    ASSUME NEW e
    PROVE  /\ DOMAIN Append(<<"S3">>, e) = 1..2 /\ Append(<<"S3">>, e) # <<>>
           /\ Append(<<"S3">>, e)[1] = "S3" /\ Append(<<"S3">>, e)[2] = e
<1> PICK T : T = {"S3", e}
  OBVIOUS
<1> PICK s : s = <<"S3">>
  OBVIOUS
<1>1. s \in Seq(T) /\ e \in T /\ Len(s) = 1 /\ s[1] = "S3"
  OBVIOUS
<1>2. /\ Append(s, e) \in Seq(T) /\ DOMAIN Append(s, e) = 1..2
      /\ Append(s, e)[1] = s[1] /\ Append(s, e)[2] = e
  BY <1>1
<1>3. Append(s, e) # <<>>
  BY <1>1, <1>2
<1> QED BY <1>1, <1>2, <1>3

LEMMA TakeSizeInv ==
    ASSUME OpenInv, NEW size, TakeSize(size)
    PROVE  OpenInv'
<1>1. /\ request.allow \in Seq(EndpointTypes) /\ openPc = "size" /\ Allowed /\ Probed
      /\ UNCHANGED <<request, env, endpoint>>
  BY DEF OpenInv, TakeSize
<1>2. /\ Chosen' = Chosen /\ IsUrlValid(endpoint, request.url)' = IsUrlValid(endpoint, request.url)
  BY <1>1, ArgumentsFixed DEF IsUrlValid, HttpUrl, S3Url, HasS3Format, PresignedUrl, WebHdfsUrl
<1>3. /\ request.nbytes # None => nbytes' = request.nbytes
      /\ probes' = probes \/ (probes' = Append(probes, endpoint) /\ nbytes = None)
      /\ openPc' \in {"opened", "thrown"}
  BY DEF TakeSize
<1>4. probes = <<>> \/ probes = <<"S3">>
  BY <1>1 DEF Probed
<1>5. IsInjective(probes')
  <2>1. CASE probes' = probes
    BY <1>4, <2>1 DEF IsInjective
  <2>2. CASE probes = <<>> /\ probes' = Append(probes, endpoint)
    <3>1. probes' = <<endpoint>>
      BY <2>2
    <3> QED BY <3>1 DEF IsInjective
  <2>3. CASE probes = <<"S3">> /\ probes' = Append(probes, endpoint) /\ nbytes = None
    <3>1. endpoint = "S3_PUBLIC"
      BY <1>1, <2>3 DEF Probed
    <3> QED BY <2>3, <3>1, AfterTheProbe DEF IsInjective
  <2> QED BY <1>3, <1>4, <2>1, <2>2, <2>3
<1>7. Allowed'
  BY <1>1, <1>2 DEF Allowed, ToSet
<1> QED BY <1>1, <1>3, <1>5, <1>7 DEF OpenInv

LEMMA OpenStepInv == OpenInv /\ [OpenNext]_openVars => OpenInv'
<1> SUFFICES ASSUME OpenInv, [OpenNext]_openVars PROVE OpenInv'
  OBVIOUS
<1>1. CASE UNCHANGED openVars
  <2>1. /\ Chosen' = Chosen /\ IsUrlValid(endpoint, request.url)' = IsUrlValid(endpoint, request.url)
        /\ Constructs("S3")' = Constructs("S3")
    BY <1>1, ArgumentsFixed DEF openVars, Constructs, IsUrlValid, HttpUrl, S3Url, HasS3Format, PresignedUrl, WebHdfsUrl
  <2> QED BY <1>1, <2>1 DEF openVars, OpenInv, Allowed, Probed, ToSet, EndpointTypes, IsInjective
<1>2. CASE OpenNext
  BY <1>2, InferInv, ExplicitInv, ProbeInv, TakeSizeInv DEF OpenNext
<1> QED BY <1>1, <1>2

\* RemoteHandle::open(): for every allow list, URL and environment, and whichever requests
\* fail, the endpoint of an opened handle is of an allowed type that suits the URL, the first
\* such or S3's fallback; the caller's size stands, and no endpoint is asked twice.
THEOREM OpensAreAllowed == OpenSpec => []OpenIsAllowed
<1>1. OpenSpec => []OpenInv
  BY OpenInitInv, OpenStepInv, PTL DEF OpenSpec
<1>2. OpenInv => OpenIsAllowed
  BY DEF OpenInv, Allowed, Chosen, OpenIsAllowed
<1> QED BY <1>1, <1>2, PTL

-------------------------------------------------------------------------------
(* One range request.                                                      *)

\* A buffer of m bytes, and one whose positions below n hold the bytes of the object from f on.
Sized(b, m) == DOMAIN b = 0..(m - 1)
Filled(b, f, n) == \A p \in DOMAIN b : p < n => b[p] = f + p

\* The bytes that follow the first n of a body that starts at byte f.
Continues(bytes, f, n) ==
    bytes \in Seq(Nat) /\ \A i \in 1..Len(bytes) : bytes[i] = f + n + i - 1

\* The buffers between the callback and the caller hold the first n bytes of such a body:
\* those below dev are in the caller's buffer, the others in the bounce buffer.
Holds(state, f, n) ==
    /\ state.dev \in Nat /\ Filled(state.buf, f, state.dev)
    /\ Continues(state.host, f, state.dev) /\ state.dev + Len(state.host) = n

LEMMA NothingContinues == \A f, n : Continues(<<>>, f, n) /\ Len(<<>>) = 0
  BY DEF Continues

LEMMA WritePlaces ==
    ASSUME NEW m \in Nat, NEW b, Sized(b, m), NEW f \in Nat, NEW at \in Nat, Filled(b, f, at),
           NEW bytes, Continues(bytes, f, at)
    PROVE  Sized(Write(b, at, bytes), m) /\ Filled(Write(b, at, bytes), f, at + Len(bytes))
<1>1. DOMAIN Write(b, at, bytes) = DOMAIN b
  BY DEF Write
<1>2. ASSUME NEW p \in DOMAIN b, p < at + Len(bytes)
      PROVE  Write(b, at, bytes)[p] = f + p
  <2>1. p \in Nat /\ Len(bytes) \in Nat
    BY DEF Continues, Sized
  <2>2. CASE p < at
    <3>1. ~(p - at \in 0..(Len(bytes) - 1))
      BY <2>1, <2>2
    <3> QED BY <2>2, <3>1 DEF Write, Filled
  <2>3. CASE p >= at
    <3>1. p - at \in 0..(Len(bytes) - 1) /\ p - at + 1 \in 1..Len(bytes)
      BY <1>2, <2>1, <2>3
    <3>2. Write(b, at, bytes)[p] = bytes[p - at + 1]
      BY <3>1 DEF Write
    <3>3. bytes[p - at + 1] = f + at + (p - at + 1) - 1
      BY <3>1 DEF Continues
    <3> QED BY <2>1, <3>2, <3>3
  <2> QED BY <2>1, <2>2, <2>3
<1> QED BY <1>1, <1>2 DEF Sized, Filled

\* write_to_device() of the bytes that follow what is on the device.
LEMMA ToDevicePlaces ==
    ASSUME NEW m \in Nat, NEW state, Sized(state.buf, m), NEW f \in Nat, NEW d \in Nat,
           state.dev = d, Filled(state.buf, f, d), NEW bytes, Continues(bytes, f, d)
    PROVE  LET after == ToDevice(state, bytes)
           IN  /\ after.dev = d + Len(bytes) /\ after.host = state.host
               /\ Sized(after.buf, m) /\ Filled(after.buf, f, d + Len(bytes))
<1> PICK b : b = state.buf
  OBVIOUS
<1>1. Sized(b, m) /\ Filled(b, f, d)
  OBVIOUS
<1> PICK w : w = Write(b, d, bytes)
  OBVIOUS
<1>2. Sized(w, m) /\ Filled(w, f, d + Len(bytes))
  BY <1>1, WritePlaces
<1>3. ToDevice(state, bytes) = [dev |-> d + Len(bytes), host |-> state.host, buf |-> w]
  BY DEF ToDevice
<1> QED BY <1>2, <1>3

LEMMA FlushPlaces ==
    ASSUME NEW m \in Nat, NEW state, Sized(state.buf, m), NEW f \in Nat, NEW n \in Nat,
           Holds(state, f, n)
    PROVE  LET after == Flush(state)
           IN  after.dev = n /\ after.host = <<>> /\ Sized(after.buf, m) /\ Filled(after.buf, f, n)
<1> PICK d : d = state.dev
  OBVIOUS
<1>1. d \in Nat /\ Filled(state.buf, f, d) /\ Continues(state.host, f, d) /\ d + Len(state.host) = n
  BY DEF Holds
<1> PICK w : w = ToDevice(state, state.host)
  OBVIOUS
<1>2. w.dev = n /\ w.host = state.host /\ Sized(w.buf, m) /\ Filled(w.buf, f, n)
  BY <1>1, ToDevicePlaces
<1>3. DOMAIN w = {"dev", "host", "buf"}
  BY DEF ToDevice
<1>4. Flush(state) = [w EXCEPT !.host = <<>>]
  BY DEF Flush
<1>5. Flush(state).dev = w.dev /\ Flush(state).buf = w.buf /\ Flush(state).host = <<>>
  BY <1>3, <1>4
<1> QED BY <1>2, <1>5

\* A bounce buffer that was just flushed.
LEMMA FlushedHolds ==
    ASSUME NEW state, NEW f, NEW n \in Nat,
           state.dev = n, state.host = <<>>, Filled(state.buf, f, n)
    PROVE  Holds(state, f, n)
<1> PICK h : h = state.host
  OBVIOUS
<1>1. Continues(h, f, n) /\ Len(h) = 0
  BY NothingContinues
<1> QED BY <1>1 DEF Holds

\* BounceBufferH2D::write() of bytes that the bounce buffer has room for.
LEMMA BufferedHolds ==
    ASSUME NEW room, DOMAIN room = {"dev", "host", "buf"}, NEW f \in Nat, NEW n \in Nat,
           Holds(room, f, n), NEW bytes, Continues(bytes, f, n)
    PROVE  LET after == [room EXCEPT !.host = @ \o bytes]
           IN  after.buf = room.buf /\ Holds(after, f, n + Len(bytes))
<1> PICK d, h : d = room.dev /\ h = room.host
  OBVIOUS
<1> PICK g : g = h \o bytes
  OBVIOUS
<1> PICK after : after = [room EXCEPT !.host = @ \o bytes]
  OBVIOUS
<1>1. after.dev = d /\ after.buf = room.buf /\ after.host = g
  OBVIOUS
<1>2. /\ d \in Nat /\ h \in Seq(Nat) /\ d + Len(h) = n /\ Len(h) \in Nat /\ bytes \in Seq(Nat) /\ Len(bytes) \in Nat
      /\ Filled(room.buf, f, d)
  BY DEF Holds, Continues
<1>3. g \in Seq(Nat) /\ Len(g) = Len(h) + Len(bytes)
  BY <1>2
<1>4. ASSUME NEW i \in 1..Len(g) PROVE g[i] = f + d + i - 1
  <2>1. i \in Int /\ i >= 1 /\ i <= Len(h) + Len(bytes)
    BY <1>2, <1>3
  <2>2. CASE i <= Len(h)
    <3>1. g[i] = h[i]
      BY <1>2, <2>1, <2>2
    <3>2. h[i] = f + d + i - 1
      BY <1>2, <2>1, <2>2 DEF Holds, Continues
    <3> QED BY <3>1, <3>2
  <2>3. CASE i > Len(h)
    <3>1. i - Len(h) \in 1..Len(bytes)
      BY <1>2, <2>1, <2>3
    <3>2. g[i] = bytes[i - Len(h)]
      BY <1>2, <2>1, <2>3
    <3>3. bytes[i - Len(h)] = f + n + (i - Len(h)) - 1
      BY <3>1 DEF Continues
    <3> QED BY <1>2, <2>1, <3>2, <3>3
  <2> QED BY <1>2, <2>1, <2>2, <2>3
<1>5. Continues(g, f, d) /\ d + Len(g) = n + Len(bytes)
  BY SMTT(30), <1>2, <1>3, <1>4 DEF Continues
<1>6. Holds(after, f, n + Len(bytes))
  BY <1>1, <1>2, <1>5 DEF Holds
<1> QED BY <1>1, <1>6

\* BounceBufferH2D::write(): whatever fits and whatever does not.
LEMMA BounceWritePlaces ==
    ASSUME NEW m \in Nat, NEW state, DOMAIN state = {"dev", "host", "buf"},
           Sized(state.buf, m), NEW f \in Nat, NEW n \in Nat,
           Holds(state, f, n), req.capacity \in Nat, NEW bytes, Continues(bytes, f, n)
    PROVE  LET after == BounceWrite(state, bytes)
           IN  Sized(after.buf, m) /\ Holds(after, f, n + Len(bytes))
<1>1. Len(bytes) \in Nat
  BY DEF Continues
<1> PICK room : room = IF req.capacity - Len(state.host) < Len(bytes) THEN Flush(state) ELSE state
  OBVIOUS
<1>2. BounceWrite(state, bytes) = IF req.capacity < Len(bytes) THEN ToDevice(room, bytes)
                                  ELSE [room EXCEPT !.host = @ \o bytes]
  BY DEF BounceWrite
<1>3. /\ Sized(room.buf, m) /\ Holds(room, f, n) /\ DOMAIN room = {"dev", "host", "buf"}
      /\ req.capacity < Len(bytes) => room.host = <<>>
  <2>1. CASE req.capacity - Len(state.host) < Len(bytes)
    <3>1. room = Flush(state)
      BY <2>1
    <3>2. room.dev = n /\ room.host = <<>> /\ Sized(room.buf, m) /\ Filled(room.buf, f, n)
      BY <3>1, FlushPlaces
    <3>3. DOMAIN room = {"dev", "host", "buf"}
      BY <3>1 DEF Flush, ToDevice
    <3> QED BY <3>2, <3>3, FlushedHolds
  <2>2. CASE ~(req.capacity - Len(state.host) < Len(bytes))
    <3>1. Len(state.host) \in Nat
      BY DEF Holds, Continues
    <3> QED BY <1>1, <2>2, <3>1
  <2> QED BY <2>1, <2>2
<1>4. CASE req.capacity < Len(bytes)
  <2>1. room.host = <<>>
    BY <1>3, <1>4
  <2>2. room.dev = n /\ Filled(room.buf, f, n)
    <3> PICK h : h = room.host
      OBVIOUS
    <3>1. Len(h) = 0
      BY <2>1
    <3> QED BY <1>3, <3>1 DEF Holds
  <2> PICK after : after = ToDevice(room, bytes)
    OBVIOUS
  <2> PICK k : k = n + Len(bytes)
    OBVIOUS
  <2>3. k \in Nat /\ after.dev = k /\ after.host = <<>> /\ Sized(after.buf, m) /\ Filled(after.buf, f, k)
    BY <1>1, <1>3, <2>1, <2>2, ToDevicePlaces
  <2>4. Holds(after, f, k)
    BY <2>3, FlushedHolds
  <2> QED BY <1>2, <1>4, <2>3, <2>4
<1>5. CASE ~(req.capacity < Len(bytes))
  <2> PICK after : after = [room EXCEPT !.host = @ \o bytes]
    OBVIOUS
  <2>1. after.buf = room.buf /\ Holds(after, f, n + Len(bytes))
    BY <1>3, BufferedHolds
  <2> QED BY <1>2, <1>3, <1>5, <2>1
<1> QED BY <1>4, <1>5

Buffers == [dev |-> bounce.dev, host |-> bounce.host, buf |-> buf]

ReadTyped ==
    /\ req.off \in Nat /\ req.size \in Nat \ {0} /\ req.capacity \in Nat
    /\ req.server \in {"ranged", "ignores range"} /\ InBounds(req.off, req.size)
    /\ sent \in Nat /\ DOMAIN ctx = {"offset", "overflow"} /\ ctx.offset \in Nat
    /\ Sized(buf, req.size)

\* While the attempt has not failed, what was handed over is where it belongs.
AttemptInPlace ==
    readPc = "receiving" \/ (readPc = "decide" /\ code \in Codes) =>
        /\ ctx.offset = sent /\ sent <= req.size
        /\ IF req.device THEN Holds(Buffers, First, sent)
           ELSE bounce = EmptyBounce /\ Filled(buf, First, sent)

ReadInv ==
    /\ ReadTyped /\ AttemptInPlace /\ BytesLandInPlace
    /\ readPc \in {"receiving", "decide", "returned", "thrown"}

\* A body that has been taken whole is the range that was asked for.
LEMMA WholeBodyIsRange ==
    ASSUME ReadTyped, sent = BodyLength, sent <= req.size
    PROVE  First = req.off /\ sent = req.size
<1> USE RemoteReadAssumption
<1>1. CASE req.server = "ranged"
  BY <1>1 DEF BodyLength, First
<1>2. CASE req.server # "ranged"
  <2>1. sent = ObjectSize /\ First = 0
    BY <1>2 DEF BodyLength, First
  <2>2. req.off \in Nat /\ req.size \in Nat /\ req.size <= ObjectSize - req.off
    BY DEF ReadTyped, InBounds
  <2> QED BY <2>1, <2>2
<1> QED BY <1>1, <1>2

\* The start of an attempt.
LEMMA NothingHeld ==
    ASSUME Sized(buf, req.size), req.size \in Nat, sent = 0, ctx = NoCtx, bounce = EmptyBounce
    PROVE  AttemptInPlace
<1>1. bounce.dev = 0 /\ bounce.host = <<>> /\ ctx.offset = 0
  BY DEF EmptyBounce, NoCtx
<1> PICK state, f : state = Buffers /\ f = First
  OBVIOUS
<1>2. state.dev = 0 /\ state.host = <<>> /\ state.buf = buf
  BY <1>1 DEF Buffers
<1>3. Filled(buf, f, 0)
  BY DEF Filled, Sized
<1>4. Holds(state, f, 0)
  BY <1>2, <1>3, FlushedHolds
<1> QED BY <1>1, <1>3, <1>4 DEF AttemptInPlace

LEMMA ReadInitInv == ReadInit => ReadInv
<1> SUFFICES ASSUME ReadInit PROVE ReadInv
  OBVIOUS
<1> USE RemoteReadAssumption
<1>1. ReadTyped
  BY DEF ReadInit, ReadTyped, NoCtx, Sized
<1>2. AttemptInPlace
  BY <1>1, NothingHeld DEF ReadInit, ReadTyped
<1> QED BY <1>1, <1>2 DEF ReadInit, ReadInv, BytesLandInPlace

LEMMA ReceiveInv ==
    ASSUME ReadInv, NEW n \in 1..MaxPieces, Receive(n)
    PROVE  ReadInv'
<1> USE RemoteReadAssumption
<1>1. ReadTyped /\ n \in Nat /\ readPc = "receiving" /\ UNCHANGED <<req, attempt, flushed>> /\ sent' = sent + n
  <2>1. ReadTyped /\ n \in Nat
    BY DEF ReadInv
  <2>2. readPc = "receiving" /\ UNCHANGED <<req, attempt, flushed>> /\ sent' = sent + n
    BY DEF Receive
  <2> QED BY <2>1, <2>2
<1>2. /\ ctx.offset = sent /\ sent <= req.size /\ sent \in Nat /\ req.size \in Nat
      /\ DOMAIN ctx = {"offset", "overflow"}
  BY <1>1 DEF ReadInv, AttemptInPlace, ReadTyped
<1>3. CASE req.size < ctx.offset + n
  <2>1. /\ ctx' = [ctx EXCEPT !.overflow = TRUE] /\ code' = "write error" /\ readPc' = "decide"
        /\ UNCHANGED <<bounce, buf>>
    BY <1>3 DEF Receive
  <2>2. ReadTyped'
    <3>1. DOMAIN ctx' = DOMAIN ctx /\ ctx'.offset = ctx.offset
      BY <1>2, <2>1
    <3>3. sent' \in Nat
      BY <1>1, <1>2
    <3>2. req' = req /\ buf' = buf
      BY <1>1, <2>1
    <3> QED BY <1>1, <3>1, <3>2, <3>3 DEF ReadTyped, InBounds, Sized
  <2>3. AttemptInPlace' /\ BytesLandInPlace'
    BY <2>1 DEF AttemptInPlace, BytesLandInPlace, Codes
  <2> QED BY <2>1, <2>2, <2>3 DEF ReadInv
<1>4. CASE ~(req.size < ctx.offset + n)
  <2> PICK bytes : bytes = [i \in 1..n |-> First + sent + i - 1]
    OBVIOUS
  <2> PICK f, k, m : f = First /\ k = sent /\ m = req.size
    OBVIOUS
  <2>1. f \in Nat /\ First' = f /\ k \in Nat /\ m \in Nat /\ Sized(buf, m)
    BY <1>1, <1>2 DEF First, ReadTyped
  <2>2. Continues(bytes, f, k) /\ Len(bytes) = n
    BY <1>1, <1>2, <2>1 DEF Continues
  <2>3. ctx' = [ctx EXCEPT !.offset = @ + n] /\ UNCHANGED <<code, readPc>>
    BY <1>4 DEF Receive
  <2>4. /\ ctx'.offset = sent' /\ sent' \in Nat /\ sent' <= req'.size
        /\ DOMAIN ctx' = DOMAIN ctx
    <3>1. ctx'.offset = ctx.offset + n /\ DOMAIN ctx' = DOMAIN ctx
      BY <1>2, <2>3
    <3>2. sent' = sent + n /\ req' = req
      BY <1>1
    <3> QED BY <1>1, <1>2, <1>4, <3>1, <3>2
  <2>5. ASSUME Sized(buf', m),
               IF req.device THEN Holds(Buffers', f, sent')
               ELSE bounce' = EmptyBounce /\ Filled(buf', f, sent')
        PROVE  ReadInv'
    <3>1. req' = req
      BY <1>1
    <3>2. ReadTyped'
      BY <1>1, <2>4, <2>5, <3>1 DEF ReadTyped, InBounds, Sized
    <3>3. Holds(Buffers, First, sent)' = Holds(Buffers', f, sent')
      BY <2>1 DEF Holds, Filled, Continues
    <3>4. Filled(buf, First, sent)' = Filled(buf', f, sent')
      BY <2>1 DEF Filled
    <3>5. AttemptInPlace'
      BY <2>4, <2>5, <3>1, <3>3, <3>4 DEF AttemptInPlace, EmptyBounce
    <3>6. BytesLandInPlace'
      BY <1>1, <2>3 DEF BytesLandInPlace
    <3> QED BY <1>1, <2>3, <3>2, <3>5, <3>6 DEF ReadInv
  <2>6. CASE req.device
    <3> PICK state : state = Buffers
      OBVIOUS
    <3> PICK after : after = BounceWrite(state, bytes)
      OBVIOUS
    <3>1. DOMAIN state = {"dev", "host", "buf"} /\ state.buf = buf
      BY DEF Buffers
    <3>2. Holds(state, f, k) /\ req.capacity \in Nat
      BY <1>1, <2>6 DEF ReadInv, AttemptInPlace, ReadTyped
    <3>3. Sized(after.buf, m) /\ Holds(after, f, k + Len(bytes))
      BY <2>1, <2>2, <3>1, <3>2, BounceWritePlaces
    <3>4. buf' = after.buf /\ bounce' = [dev |-> after.dev, host |-> after.host]
      BY <1>4, <2>6 DEF Receive, Buffers
    <3>5. Buffers'.dev = after.dev /\ Buffers'.host = after.host /\ Buffers'.buf = after.buf
      BY <3>4 DEF Buffers
    <3>6. k + Len(bytes) = sent'
      BY <1>1, <2>2
    <3>7. Holds(Buffers', f, sent')
      BY <3>3, <3>5, <3>6 DEF Holds
    <3> QED BY <2>5, <2>6, <3>3, <3>4, <3>7
  <2>7. CASE ~req.device
    <3>1. bounce = EmptyBounce /\ Filled(buf, f, k)
      BY <1>1, <2>7 DEF ReadInv, AttemptInPlace
    <3>2. buf' = Write(buf, ctx.offset, bytes) /\ bounce' = [dev |-> bounce.dev, host |-> bounce.host]
      BY <1>4, <2>7 DEF Receive
    <3>3. bounce' = EmptyBounce
      BY <3>1, <3>2 DEF EmptyBounce
    <3> PICK b : b = buf
      OBVIOUS
    <3>4. Sized(Write(b, k, bytes), m) /\ Filled(Write(b, k, bytes), f, k + Len(bytes))
      BY <2>1, <2>2, <3>1, WritePlaces
    <3>5. buf' = Write(b, k, bytes) /\ k + Len(bytes) = sent'
      BY <1>1, <1>2, <2>2, <3>2
    <3> QED BY <2>5, <2>7, <3>3, <3>4, <3>5
  <2> QED BY <2>6, <2>7
<1> QED BY <1>3, <1>4

LEMMA AttemptEndsInv ==
    ASSUME ReadInv, \/ \E c \in Codes : EndOfAttempt(c)
                    \/ \E n \in 1..MaxPieces : CopyFails(n)
    PROVE  ReadInv'
<1>1. /\ readPc = "receiving" /\ readPc' = "decide" /\ code' \in Codes \cup {"copy failed"}
      /\ UNCHANGED <<req, attempt, sent, ctx, bounce, buf>>
  BY DEF EndOfAttempt, CopyFails
<1>2. ReadTyped'
  BY <1>1 DEF ReadInv, ReadTyped, InBounds, Sized
<1>3. AttemptInPlace'
  BY <1>1 DEF ReadInv, AttemptInPlace, Holds, Filled, Continues, Buffers, First, EmptyBounce
<1> QED BY <1>1, <1>2, <1>3 DEF ReadInv, BytesLandInPlace

LEMMA RetryInv == ReadInv /\ Retry => ReadInv'
<1> SUFFICES ASSUME ReadInv, Retry PROVE ReadInv'
  OBVIOUS
<1>1. /\ ctx' = NoCtx /\ bounce' = EmptyBounce /\ sent' = 0 /\ code' = "none" /\ readPc' = "receiving"
      /\ UNCHANGED <<req, buf, flushed>>
  BY DEF Retry, ResetForRetry
<1>2. ReadTyped'
  BY <1>1 DEF ReadInv, ReadTyped, InBounds, NoCtx, Sized
<1>3. bounce'.dev = 0 /\ bounce'.host = <<>> /\ ctx'.offset = 0
  BY <1>1 DEF EmptyBounce, NoCtx
<1> PICK state, f, b : state = Buffers' /\ f = First' /\ b = buf'
  OBVIOUS
<1>4. state.dev = 0 /\ state.host = <<>> /\ state.buf = b
  BY <1>3 DEF Buffers
<1>5. Filled(b, f, 0) /\ 0 <= req'.size
  <2>1. req' = req /\ b = buf
    BY <1>1
  <2>2. req.size \in Nat /\ DOMAIN buf = 0..(req.size - 1)
    BY DEF ReadInv, ReadTyped, Sized
  <2> QED BY <2>1, <2>2 DEF Filled
<1>6. Holds(state, f, 0)
  <2>1. Filled(state.buf, f, 0)
    BY <1>4, <1>5
  <2> QED BY <1>4, <2>1, FlushedHolds
<1>7. Holds(Buffers, First, sent)' /\ Filled(buf, First, sent)'
  BY <1>1, <1>5, <1>6 DEF Holds, Filled, Continues
<1>8. AttemptInPlace'
  BY <1>1, <1>3, <1>5, <1>7 DEF AttemptInPlace, EmptyBounce
<1> QED BY <1>1, <1>2, <1>8 DEF ReadInv, BytesLandInPlace

LEMMA LeaveInv ==
    ASSUME ReadInv, NEW ok \in BOOLEAN, Leave(ok)
    PROVE  ReadInv'
<1> PICK state : state = Buffers
  OBVIOUS
<1>1. /\ ReadTyped /\ readPc = "decide" /\ readPc' \in {"returned", "thrown"}
      /\ readPc' = "returned" => Decision = "success"
      /\ buf' = (IF ok THEN Flush(state).buf ELSE buf)
      /\ flushed' = (flushed /\ ok)
      /\ UNCHANGED <<req, attempt, sent, ctx, code>>
  BY DEF ReadInv, Leave, Buffers
<1>2. DOMAIN Flush(state).buf = DOMAIN buf
  BY DEF Flush, ToDevice, Write, Buffers
<1>3. ReadTyped'
  BY <1>1, <1>2 DEF ReadTyped, InBounds, Sized
<1>4. ASSUME readPc' = "returned", ok, sent = BodyLength
      PROVE  \A p \in DOMAIN buf' : buf'[p] = req.off + p
  <2>1. code = "ok"
    BY <1>1, <1>4 DEF Decision
  <2> PICK f, n : f = First /\ n = sent
    OBVIOUS
  <2>2. /\ n <= req.size
        /\ IF req.device THEN Holds(state, f, n) ELSE bounce = EmptyBounce /\ Filled(buf, f, n)
    BY <1>1, <2>1 DEF ReadInv, AttemptInPlace, Codes
  <2>3. f = req.off /\ n = req.size /\ f \in Nat /\ n \in Nat
    BY <1>1, <1>4, <2>2, WholeBodyIsRange DEF ReadTyped
  <2>4. Sized(state.buf, n) /\ state.buf = buf
    BY <1>1, <2>3 DEF Buffers, ReadTyped
  <2>5. Sized(Flush(state).buf, n) /\ Filled(Flush(state).buf, f, n)
    <3>1. CASE req.device
      BY <2>2, <2>3, <2>4, <3>1, FlushPlaces
    <3>2. CASE ~req.device
      <4>1. state.dev = 0 /\ state.host = <<>> /\ Filled(state.buf, f, n)
        BY <2>2, <2>4, <3>2 DEF Buffers, EmptyBounce
      <4> PICK b : b = state.buf
        OBVIOUS
      <4>2. Flush(state).buf = Write(b, 0, <<>>)
        BY <4>1 DEF Flush, ToDevice
      <4>3. Write(b, 0, <<>>) = [p \in DOMAIN b |-> b[p]]
        BY DEF Write
      <4> PICK w : w = Flush(state).buf
        OBVIOUS
      <4>4. DOMAIN w = DOMAIN b /\ \A p \in DOMAIN b : w[p] = b[p]
        BY <4>2, <4>3
      <4>5. Sized(b, n) /\ Filled(b, f, n)
        BY <2>4, <4>1
      <4> QED BY <4>4, <4>5 DEF Sized, Filled
    <3> QED BY <3>1, <3>2
  <2>6. \A p \in DOMAIN buf' : p < n /\ buf'[p] = f + p
    BY <1>1, <1>4, <2>3, <2>5 DEF Sized, Filled
  <2> QED BY <2>3, <2>6
<1>5. BytesLandInPlace'
  <2>1. BodyLength' = BodyLength
    BY <1>1 DEF BodyLength
  <2> QED BY <1>1, <1>4, <2>1 DEF BytesLandInPlace, Delivered
<1>6. AttemptInPlace'
  BY <1>1 DEF AttemptInPlace
<1> QED BY <1>1, <1>3, <1>5, <1>6 DEF ReadInv

LEMMA ReadStepInv == ReadInv /\ [ReadNext]_readVars => ReadInv'
<1> SUFFICES ASSUME ReadInv, [ReadNext]_readVars PROVE ReadInv'
  OBVIOUS
<1>1. CASE UNCHANGED readVars
  <2>1. ReadTyped'
    BY <1>1 DEF readVars, ReadInv, ReadTyped, InBounds, Sized
  <2>2. AttemptInPlace'
    BY <1>1 DEF readVars, ReadInv, AttemptInPlace, Holds, Filled, Continues, Buffers, First, EmptyBounce, Codes
  <2>3. BytesLandInPlace'
    BY <1>1 DEF readVars, ReadInv, BytesLandInPlace, BodyLength, Delivered
  <2> QED BY <1>1, <2>1, <2>2, <2>3 DEF readVars, ReadInv
<1>2. CASE ReadNext
  BY <1>2, ReceiveInv, AttemptEndsInv, RetryInv, LeaveInv DEF ReadNext
<1> QED BY <1>1, <1>2

\* read_impl(), perform() and the write callbacks: for every object, range, bounce buffer and
\* way the body is cut into pieces, over any number of attempts, a read that returns after its
\* server sent the whole body and every copy succeeded has put each byte in its place.
THEOREM ReadsLandInPlace == ReadSpec => []BytesLandInPlace
<1>1. ReadSpec => []ReadInv
  BY ReadInitInv, ReadStepInv, PTL DEF ReadSpec
<1> QED BY <1>1, PTL DEF ReadInv

===============================================================================
