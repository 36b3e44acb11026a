------------------------- MODULE TransferPlanProofs -------------------------
(***************************************************************************)
(* build_transfer_plan() tiles every batch of requests, of any length and  *)
(* under every option.                                                     *)
(*                                                                         *)
(* The plan is a fold over groups, of a fold over runs, of runs that are a *)
(* fold over a sorted group.  Each fold is first replaced by the steps it  *)
(* takes over the prefixes of its sequence (RunSteps, KeySteps,            *)
(* GroupSteps, BatchSteps).  Then GoodRun holds of every run, GoodPlan of  *)
(* the transfers of a run and its requests, and GoodPlanAdds joins the     *)
(* plans of disjoint sets of requests.                                     *)
(***************************************************************************)
EXTENDS TransferPlan, Sums

-------------------------------------------------------------------------------
(* Facts about the helpers.                                                *)

\* The chunks of split_request() cover the request, and the last one is not empty.
LEMMA ChunkFacts ==
    ASSUME NEW size \in Nat, NEW task \in Nat \ {0}
    PROVE  /\ Chunks(size, task) \in Nat
           /\ size <= Chunks(size, task) * task
           /\ size > 0 => (Chunks(size, task) - 1) * task < size
           /\ size = 0 <=> Chunks(size, task) = 0
           /\ size > 0 /\ size <= task => Chunks(size, task) = 1
  <1> DEFINE q == Chunks(size, task)
  <1>1. q \in Int /\ q * task <= size + (task - 1) /\ size + (task - 1) < q * task + task
    BY DEF Chunks
  <1> HIDE DEF q
  <1>2. q >= 0
    BY <1>1
  <1>3. (q - 1) * task = q * task - task
    BY <1>1
  <1>4. size = 0 <=> q = 0
    BY <1>1, <1>2
  <1>5. size > 0 /\ size <= task => q = 1
    BY <1>1, <1>2
  <1> QED
    BY <1>1, <1>2, <1>3, <1>4, <1>5 DEF q

\* The byte at position b is in one chunk.
LEMMA ByteChunk ==
    ASSUME NEW b \in Nat, NEW task \in Nat \ {0}, NEW n \in Nat, b < n * task
    PROVE  /\ \E k \in 1..n : (k - 1) * task <= b /\ b < (k - 1) * task + task
           /\ \A j, k \in 1..n : /\ (j - 1) * task <= b /\ b < (j - 1) * task + task
                                 /\ (k - 1) * task <= b /\ b < (k - 1) * task + task
                                 => j = k
  <1> DEFINE q == b \div task
  <1>1. q \in Int /\ q * task <= b /\ b < q * task + task
    OBVIOUS
  <1> HIDE DEF q
  <1>2. q >= 0 /\ q < n
    BY <1>1
  <1>3. q + 1 \in 1..n /\ (q + 1) - 1 = q
    BY <1>1, <1>2
  <1>4. ASSUME NEW j \in Int, NEW k \in Int, j * task <= b, b < j * task + task,
               k * task <= b, b < k * task + task
        PROVE  j = k
    BY <1>4
  <1>5. \A j, k \in 1..n : /\ (j - 1) * task <= b /\ b < (j - 1) * task + task
                           /\ (k - 1) * task <= b /\ b < (k - 1) * task + task
                           => j = k
    <2> SUFFICES ASSUME NEW j \in 1..n, NEW k \in 1..n,
                        (j - 1) * task <= b, b < (j - 1) * task + task,
                        (k - 1) * task <= b, b < (k - 1) * task + task
                 PROVE  j = k
      OBVIOUS
    <2>1. j - 1 = k - 1
      BY <1>4
    <2> QED
      BY <2>1
  <1> QED
    BY <1>1, <1>3, <1>5

\* The smaller one of two numbers.
LEMMA MinOfTwo ==
    ASSUME NEW a \in Int, NEW b \in Int
    PROVE  Min({a, b}) = IF a <= b THEN a ELSE b
  BY DEF Min

\* The largest element of a bounded set of positive numbers, and of 1..k.
LEMMA MaxFacts ==
    ASSUME NEW n \in Nat
    PROVE  /\ \A s \in SUBSET (1..n) : s # {} => Max(s) \in s
           /\ \A k \in 1..n : Max(1..k) = k
  <1>1. ASSUME NEW s \in SUBSET (1..n), s # {} PROVE Max(s) \in s
    <2> DEFINE T == {n - x : x \in s}
    <2>1. T \in SUBSET Nat
      OBVIOUS
    <2>2. PICK x0 : x0 \in s
      BY <1>1
    <2>3. n - x0 \in T
      BY <2>2
    <2>4. PICK m \in T : \A k \in T : m <= k
      BY <2>1, <2>3, LeastNat
    <2>5. PICK x \in s : m = n - x
      BY <2>4
    <2>6. \A y \in s : x >= y
      BY <2>4, <2>5
    <2> QED
      BY <2>6 DEF Max
  <1>2. \A k \in 1..n : Max(1..k) = k
    BY DEF Max
  <1> QED
    BY <1>1, <1>2

\* SumOf is the sum that Sums is about.
LEMMA SumOfTally == ASSUME NEW f PROVE SumOf(f) = Tally(f, DOMAIN f)
  BY DEF SumOf, Tally, FoldFunction, FoldFunctionOnSet, MapThenSumSet

\* The steps of a fold over a sequence of n elements: h is the fold over the subsets
\* of its positions, and the prefixes of the sequence are among them.
LEMMA PrefixSteps ==
    ASSUME NEW n \in Nat
    PROVE  \A k \in 1..n : /\ 1..k \in SUBSET (1..n) /\ 1..k # {}
                           /\ (1..k) \ {Max(1..k)} = 1..(k - 1) /\ Max(1..k) = k
  <1> TAKE k \in 1..n
  <1>1. Max(1..k) = k
    BY MaxFacts
  <1>2. (1..k) \ {k} = 1..(k - 1) /\ k \in 1..k /\ 1..k \in SUBSET (1..n)
    OBVIOUS
  <1> QED
    BY <1>1, <1>2

\* The equation of a fold over the positions of a sequence, where the values are in V,
\* and what it says about the prefixes of the sequence.
FoldsPositions(g, n, base, F) ==
    \A s \in SUBSET (1..n) : g[s] = IF s = {} THEN base ELSE F[<<g[s \ {Max(s)}], Max(s)>>]
FoldsWithin(h, n, V, base, F) ==
    /\ h[{}] = base
    /\ \A s \in SUBSET (1..n), v \in V :
          s # {} /\ h[s \ {Max(s)}] = v => h[s] = F[<<v, Max(s)>>]
FoldsPrefixes(r, h, n, base, F) ==
    r[0] = base /\ r[n] = h[1..n] /\ \A k \in 1..n : r[k] = F[<<r[k - 1], k>>]

\* Such a fold is defined.
LEMMA PositionFold ==
    ASSUME NEW n \in Nat, NEW V, NEW base \in V, NEW F \in [V \X (1..n) -> V]
    PROVE  \E g \in [SUBSET (1..n) -> V] : FoldsPositions(g, n, base, F)
  <1>1. PICK c : c = [s \in SUBSET (1..n) |-> Max(s)]
    OBVIOUS
  <1>2. \A s \in SUBSET (1..n) : s # {} => c[s] \in s
    BY <1>1, MaxFacts
  <1>3. IsFiniteSet(1..n)
    BY FS_Interval
  <1>4. PICK g \in [SUBSET (1..n) -> V] : IsFold(g, 1..n, base, F, c)
    <2>1. PICK S : S = 1..n
      OBVIOUS
    <2>2. /\ IsFiniteSet(S) /\ F \in [V \X S -> V]
          /\ \A s \in SUBSET S : s # {} => c[s] \in s
      BY <1>2, <1>3, <2>1
    <2>3. \E g \in [SUBSET S -> V] : IsFold(g, S, base, F, c)
      BY <2>2, FoldExists
    <2> QED
      BY <2>1, <2>3
  <1>5. ASSUME NEW s \in SUBSET (1..n)
        PROVE  g[s] = IF s = {} THEN base ELSE F[<<g[s \ {Max(s)}], Max(s)>>]
    BY <1>1, <1>4 DEF IsFold
  <1> QED
    BY <1>5 DEF FoldsPositions

\* The values of the fold at the prefixes, one step after the other.
LEMMA FoldPrefixes ==
    ASSUME NEW n \in Nat, NEW V, NEW base \in V, NEW F \in [V \X (1..n) -> V],
           NEW h, FoldsWithin(h, n, V, base, F)
    PROVE  \E r \in [0..n -> V] : FoldsPrefixes(r, h, n, base, F)
  <1> DEFINE T == {k \in Nat : k <= n => h[1..k] \in V}
             r == [k \in 0..n |-> h[1..k]]
  <1>0. h[{}] = base /\ \A s \in SUBSET (1..n), v \in V :
                           s # {} /\ h[s \ {Max(s)}] = v => h[s] = F[<<v, Max(s)>>]
    BY DEF FoldsWithin
  <1>1. 0 \in T
    <2>1. 1..0 = {}
      OBVIOUS
    <2> QED
      BY <1>0, <2>1
  <1>2. ASSUME NEW k \in 1..n, h[1..(k - 1)] \in V
        PROVE  h[1..k] = F[<<h[1..(k - 1)], k>>] /\ h[1..k] \in V
    <2>1. /\ 1..k \in SUBSET (1..n) /\ 1..k # {} /\ (1..k) \ {Max(1..k)} = 1..(k - 1)
          /\ Max(1..k) = k
      BY PrefixSteps
    <2>2. h[1..k] = F[<<h[1..(k - 1)], Max(1..k)>>]
      BY <1>0, <1>2, <2>1
    <2> QED
      BY <1>2, <2>1, <2>2
  <1>3. ASSUME NEW k \in Nat, k \in T PROVE k + 1 \in T
    <2>1. CASE k + 1 <= n
      <3>1. k + 1 \in 1..n /\ (k + 1) - 1 = k /\ h[1..k] \in V
        BY <1>3, <2>1
      <3>2. h[1..(k + 1)] \in V
        BY <1>2, <3>1
      <3> QED
        BY <3>2
    <2> QED
      BY <2>1
  <1>4. Nat \subseteq T
    <2> HIDE DEF T
    <2> QED
      BY <1>1, <1>3, SetInduction
  <1>5. \A k \in 0..n : h[1..k] \in V
    BY <1>4
  <1>6. r \in [0..n -> V] /\ r[n] = h[1..n] /\ r[0] = base
    <2>1. 1..0 = {}
      OBVIOUS
    <2> QED
      BY <1>0, <1>5, <2>1
  <1>7. ASSUME NEW k \in 1..n PROVE r[k] = F[<<r[k - 1], k>>]
    <2>1. k \in 0..n /\ k - 1 \in 0..n
      OBVIOUS
    <2>2. h[1..(k - 1)] \in V
      BY <1>5, <2>1
    <2>3. r[k] = h[1..k] /\ r[k - 1] = h[1..(k - 1)]
      BY <2>1
    <2> HIDE DEF r
    <2> QED
      BY <1>2, <2>2, <2>3
  <1> HIDE DEF r
  <1> QED
    BY <1>6, <1>7 DEF FoldsPrefixes

\* One more request for the runs of a group.
ExtendRuns(reqs, opts, runs, i) ==
    IF /\ runs # <<>>
       /\ Joins(opts, reqs[Head(Last(runs))].off, End(reqs[Last(Last(runs))]), reqs[i])
    THEN Front(runs) \o <<Append(Last(runs), i)>>
    ELSE Append(runs, <<i>>)

\* One more request leaves a sequence of runs.
LEMMA ExtendRunsType ==
    ASSUME NEW reqs, NEW opts, NEW runs \in Seq(Seq(Nat)), NEW i \in Nat
    PROVE  ExtendRuns(reqs, opts, runs, i) \in Seq(Seq(Nat))
  <1>1. Append(runs, <<i>>) \in Seq(Seq(Nat))
    OBVIOUS
  <1>2. ASSUME runs # <<>> PROVE Front(runs) \o <<Append(Last(runs), i)>> \in Seq(Seq(Nat))
    <2>1. Len(runs) \in Nat /\ Len(runs) > 0
      BY <1>2
    <2>2. Last(runs) \in Seq(Nat)
      BY <2>1 DEF Last
    <2>3. Front(runs) \in Seq(Seq(Nat))
      BY <2>1 DEF Front
    <2> QED
      BY <2>2, <2>3
  <1> QED
    BY <1>1, <1>2 DEF ExtendRuns

\* The runs after each request of the group.
RunSteps(r, reqs, opts, g, n) ==
    /\ r[0] = <<>> /\ Runs(reqs, opts, g) = r[n]
    /\ \A k \in 1..n : r[k] = ExtendRuns(reqs, opts, r[k - 1], g[k])

\* The runs of a group, one request after the other.
LEMMA RunsSteps ==
    ASSUME NEW reqs, NEW opts, NEW n \in Nat, NEW g \in [1..n -> Nat]
    PROVE  \E r \in [0..n -> Seq(Seq(Nat))] : RunSteps(r, reqs, opts, g, n)
  <1> DEFINE Body(f) == [s \in SUBSET (1..n) |-> IF s = {} THEN <<>>
                           ELSE ExtendRuns(reqs, opts, f[s \ {Max(s)}], g[Max(s)])]
  <1>1. PICK h : Runs(reqs, opts, g) = h[1..n] /\ h = CHOOSE f : f = Body(f)
    BY DEF Runs, ExtendRuns, FoldLeft, MapThenFoldSet
  <1>2. PICK V : V = Seq(Seq(Nat))
    OBVIOUS
  <1>3. PICK F : F = [p \in V \X (1..n) |-> ExtendRuns(reqs, opts, p[1], g[p[2]])]
    OBVIOUS
  <1>4. F \in [V \X (1..n) -> V] /\ <<>> \in V
    BY <1>2, <1>3, ExtendRunsType
  <1>5. \A v \in V, k \in 1..n : F[<<v, k>>] = ExtendRuns(reqs, opts, v, g[k])
    BY <1>3
  <1>6. PICK f \in [SUBSET (1..n) -> V] : FoldsPositions(f, n, <<>>, F)
    BY <1>4, PositionFold
  <1>7. f = Body(f)
    BY <1>5, <1>6, MaxFacts DEF FoldsPositions
  <1>8. h = Body(h)
    <2> HIDE DEF Body
    <2> QED
      BY <1>1, <1>7
  <1>9. FoldsWithin(h, n, V, <<>>, F)
    <2>1. h[{}] = <<>>
      BY <1>8
    <2>2. ASSUME NEW s \in SUBSET (1..n), NEW v \in V, s # {}, h[s \ {Max(s)}] = v
          PROVE  h[s] = F[<<v, Max(s)>>]
      <3>1. Max(s) \in 1..n
        BY <2>2, MaxFacts
      <3>2. h[s] = ExtendRuns(reqs, opts, h[s \ {Max(s)}], g[Max(s)])
        BY <1>8, <2>2
      <3> QED
        BY <1>5, <2>2, <3>1, <3>2
    <2> QED
      BY <2>1, <2>2 DEF FoldsWithin
  <1>10. PICK r \in [0..n -> V] : FoldsPrefixes(r, h, n, <<>>, F)
    BY <1>4, <1>9, FoldPrefixes
  <1>11. r[0] = <<>> /\ r[n] = h[1..n] /\ \A k \in 1..n : r[k] = F[<<r[k - 1], k>>]
    BY <1>10 DEF FoldsPrefixes
  <1>12. \A k \in 1..n : r[k - 1] \in V
    OBVIOUS
  <1>13. \A k \in 1..n : r[k] = ExtendRuns(reqs, opts, r[k - 1], g[k])
    BY <1>5, <1>11, <1>12
  <1> QED
    BY <1>1, <1>2, <1>11, <1>13 DEF RunSteps

\* One more request for the keys of the groups.
InsertKey(keys, r) ==
    IF r.size = 0 \/ r.key \in ToSet(keys) THEN keys ELSE Append(keys, r.key)

KeysIn(reqs, n, K) == DOMAIN reqs = 1..n /\ \A i \in 1..n : reqs[i].key \in K
KeySteps(r, reqs, n) ==
    /\ r[0] = <<>> /\ GroupKeys(reqs) = r[n]
    /\ \A k \in 1..n : r[k] = InsertKey(r[k - 1], reqs[k])

\* The keys of the groups, one request after the other.
LEMMA GroupKeysSteps ==
    ASSUME NEW n \in Nat, NEW K, NEW reqs, KeysIn(reqs, n, K)
    PROVE  \E r \in [0..n -> Seq(K)] : KeySteps(r, reqs, n)
  <1> USE DEF KeysIn
  <1> DEFINE Body(f) == [s \in SUBSET (1..n) |-> IF s = {} THEN <<>>
                           ELSE InsertKey(f[s \ {Max(s)}], reqs[Max(s)])]
  <1>1. PICK h : GroupKeys(reqs) = h[1..n] /\ h = CHOOSE f : f = Body(f)
    BY DEF GroupKeys, InsertKey, FoldLeft, MapThenFoldSet
  <1>2. PICK V : V = Seq(K)
    OBVIOUS
  <1>3. PICK F : F = [p \in V \X (1..n) |-> InsertKey(p[1], reqs[p[2]])]
    OBVIOUS
  <1>4. F \in [V \X (1..n) -> V] /\ <<>> \in V
    <2>1. ASSUME NEW v \in V, NEW k \in 1..n PROVE InsertKey(v, reqs[k]) \in V
      BY <1>2 DEF InsertKey
    <2> QED
      BY <1>2, <1>3, <2>1
  <1>5. \A v \in V, k \in 1..n : F[<<v, k>>] = InsertKey(v, reqs[k])
    BY <1>3
  <1>6. PICK f \in [SUBSET (1..n) -> V] : FoldsPositions(f, n, <<>>, F)
    BY <1>4, PositionFold
  <1>7. f = Body(f)
    BY <1>5, <1>6, MaxFacts DEF FoldsPositions
  <1>8. h = Body(h)
    <2> HIDE DEF Body
    <2> QED
      BY <1>1, <1>7
  <1>9. FoldsWithin(h, n, V, <<>>, F)
    <2>1. h[{}] = <<>>
      BY <1>8
    <2>2. ASSUME NEW s \in SUBSET (1..n), NEW v \in V, s # {}, h[s \ {Max(s)}] = v
          PROVE  h[s] = F[<<v, Max(s)>>]
      <3>1. Max(s) \in 1..n
        BY <2>2, MaxFacts
      <3>2. h[s] = InsertKey(h[s \ {Max(s)}], reqs[Max(s)])
        BY <1>8, <2>2
      <3> QED
        BY <1>5, <2>2, <3>1, <3>2
    <2> QED
      BY <2>1, <2>2 DEF FoldsWithin
  <1>10. PICK r \in [0..n -> V] : FoldsPrefixes(r, h, n, <<>>, F)
    BY <1>4, <1>9, FoldPrefixes
  <1>11. r[0] = <<>> /\ r[n] = h[1..n] /\ \A k \in 1..n : r[k] = F[<<r[k - 1], k>>]
    BY <1>10 DEF FoldsPrefixes
  <1>12. \A k \in 1..n : r[k - 1] \in V
    OBVIOUS
  <1>13. \A k \in 1..n : r[k] = InsertKey(r[k - 1], reqs[k])
    BY <1>5, <1>11, <1>12
  <1> QED
    BY <1>1, <1>2, <1>11, <1>13 DEF KeySteps

\* The transfers after each run of a group.
RunsPlanned(reqs, opts, runs, n, X) ==
    DOMAIN runs = 1..n /\ \A l \in 1..n : PlanRun(reqs, opts, runs[l]) \in Seq(X)
GroupSteps(r, reqs, opts, ts, key, runs, n) ==
    /\ r[0] = ts /\ PlanGroup(reqs, opts, ts, key) = r[n]
    /\ \A l \in 1..n : r[l] = r[l - 1] \o PlanRun(reqs, opts, runs[l])

\* The transfers of a group, one run after the other.
LEMMA PlanGroupSteps ==
    ASSUME NEW reqs, NEW opts, NEW key, NEW n \in Nat, NEW X, NEW ts \in Seq(X),
           NEW runs, runs = Runs(reqs, opts, Group(reqs, key)), RunsPlanned(reqs, opts, runs, n, X)
    PROVE  \E r \in [0..n -> Seq(X)] : GroupSteps(r, reqs, opts, ts, key, runs, n)
  <1> USE DEF RunsPlanned
  <1> DEFINE Body(f) == [s \in SUBSET (1..n) |-> IF s = {} THEN ts
                           ELSE f[s \ {Max(s)}] \o PlanRun(reqs, opts, runs[Max(s)])]
  <1>1. PICK h : PlanGroup(reqs, opts, ts, key) = h[1..n] /\ h = CHOOSE f : f = Body(f)
    BY DEF PlanGroup, FoldLeft, MapThenFoldSet
  <1>2. PICK V : V = Seq(X)
    OBVIOUS
  <1>3. PICK F : F = [p \in V \X (1..n) |-> p[1] \o PlanRun(reqs, opts, runs[p[2]])]
    OBVIOUS
  <1>4. F \in [V \X (1..n) -> V] /\ ts \in V
    <2>1. ASSUME NEW v \in V, NEW k \in 1..n PROVE v \o PlanRun(reqs, opts, runs[k]) \in V
      BY <1>2
    <2> QED
      BY <1>2, <1>3, <2>1
  <1>5. \A v \in V, k \in 1..n : F[<<v, k>>] = v \o PlanRun(reqs, opts, runs[k])
    BY <1>3
  <1>6. PICK f \in [SUBSET (1..n) -> V] : FoldsPositions(f, n, ts, F)
    BY <1>4, PositionFold
  <1>7. f = Body(f)
    BY <1>5, <1>6, MaxFacts DEF FoldsPositions
  <1>8. h = Body(h)
    <2> HIDE DEF Body
    <2> QED
      BY <1>1, <1>7
  <1>9. FoldsWithin(h, n, V, ts, F)
    <2>1. h[{}] = ts
      BY <1>8
    <2>2. ASSUME NEW s \in SUBSET (1..n), NEW v \in V, s # {}, h[s \ {Max(s)}] = v
          PROVE  h[s] = F[<<v, Max(s)>>]
      <3>1. Max(s) \in 1..n
        BY <2>2, MaxFacts
      <3>2. h[s] = h[s \ {Max(s)}] \o PlanRun(reqs, opts, runs[Max(s)])
        BY <1>8, <2>2
      <3> QED
        BY <1>5, <2>2, <3>1, <3>2
    <2> QED
      BY <2>1, <2>2 DEF FoldsWithin
  <1>10. PICK r \in [0..n -> V] : FoldsPrefixes(r, h, n, ts, F)
    BY <1>4, <1>9, FoldPrefixes
  <1>11. r[0] = ts /\ r[n] = h[1..n] /\ \A k \in 1..n : r[k] = F[<<r[k - 1], k>>]
    BY <1>10 DEF FoldsPrefixes
  <1>12. \A k \in 1..n : r[k - 1] \in V
    OBVIOUS
  <1>13. \A k \in 1..n : r[k] = r[k - 1] \o PlanRun(reqs, opts, runs[k])
    BY <1>5, <1>11, <1>12
  <1> QED
    BY <1>1, <1>2, <1>11, <1>13 DEF GroupSteps

\* The transfers after each group.
GroupsPlanned(reqs, opts, keys, n, X) ==
    DOMAIN keys = 1..n /\ \A ts \in Seq(X), j \in 1..n : PlanGroup(reqs, opts, ts, keys[j]) \in Seq(X)
BatchSteps(r, reqs, opts, keys, n) ==
    /\ r[0] = <<>> /\ Transfers(reqs, opts) = r[n]
    /\ \A j \in 1..n : r[j] = PlanGroup(reqs, opts, r[j - 1], keys[j])

\* The transfers of a batch, one group after the other.
LEMMA TransfersSteps ==
    ASSUME NEW reqs, NEW opts, NEW n \in Nat, NEW X,
           NEW keys, keys = GroupKeys(reqs), GroupsPlanned(reqs, opts, keys, n, X)
    PROVE  \E r \in [0..n -> Seq(X)] : BatchSteps(r, reqs, opts, keys, n)
  <1> USE DEF GroupsPlanned
  <1> DEFINE Body(f) == [s \in SUBSET (1..n) |-> IF s = {} THEN <<>>
                           ELSE PlanGroup(reqs, opts, f[s \ {Max(s)}], keys[Max(s)])]
  <1>1. PICK h : Transfers(reqs, opts) = h[1..n] /\ h = CHOOSE f : f = Body(f)
    BY DEF Transfers, FoldLeft, MapThenFoldSet
  <1>2. PICK V : V = Seq(X)
    OBVIOUS
  <1>3. PICK F : F = [p \in V \X (1..n) |-> PlanGroup(reqs, opts, p[1], keys[p[2]])]
    OBVIOUS
  <1>4. F \in [V \X (1..n) -> V] /\ <<>> \in V
    BY <1>2, <1>3
  <1>5. \A v \in V, k \in 1..n : F[<<v, k>>] = PlanGroup(reqs, opts, v, keys[k])
    BY <1>3
  <1>6. PICK f \in [SUBSET (1..n) -> V] : FoldsPositions(f, n, <<>>, F)
    BY <1>4, PositionFold
  <1>7. f = Body(f)
    BY <1>5, <1>6, MaxFacts DEF FoldsPositions
  <1>8. h = Body(h)
    <2> HIDE DEF Body
    <2> QED
      BY <1>1, <1>7
  <1>9. FoldsWithin(h, n, V, <<>>, F)
    <2>1. h[{}] = <<>>
      BY <1>8
    <2>2. ASSUME NEW s \in SUBSET (1..n), NEW v \in V, s # {}, h[s \ {Max(s)}] = v
          PROVE  h[s] = F[<<v, Max(s)>>]
      <3>1. Max(s) \in 1..n
        BY <2>2, MaxFacts
      <3>2. h[s] = PlanGroup(reqs, opts, h[s \ {Max(s)}], keys[Max(s)])
        BY <1>8, <2>2
      <3> QED
        BY <1>5, <2>2, <3>1, <3>2
    <2> QED
      BY <2>1, <2>2 DEF FoldsWithin
  <1>10. PICK r \in [0..n -> V] : FoldsPrefixes(r, h, n, <<>>, F)
    BY <1>4, <1>9, FoldPrefixes
  <1>11. r[0] = <<>> /\ r[n] = h[1..n] /\ \A k \in 1..n : r[k] = F[<<r[k - 1], k>>]
    BY <1>10 DEF FoldsPrefixes
  <1>12. \A k \in 1..n : r[k - 1] \in V
    OBVIOUS
  <1>13. \A k \in 1..n : r[k] = PlanGroup(reqs, opts, r[k - 1], keys[k])
    BY <1>5, <1>11, <1>12
  <1> QED
    BY <1>1, <1>2, <1>11, <1>13 DEF BatchSteps

-------------------------------------------------------------------------------
(* The groups.                                                             *)

\* The order of a group's requests is strict and total.
LEMMA BeforeIsOrder ==
    ASSUME NEW reqs, \A i \in DOMAIN reqs : i \in Nat /\ reqs[i].off \in Nat,
           NEW x \in DOMAIN reqs, NEW y \in DOMAIN reqs, NEW z \in DOMAIN reqs
    PROVE  /\ ~Before(reqs, x, x)
           /\ Before(reqs, x, y) => ~Before(reqs, y, x)
           /\ Before(reqs, x, y) /\ Before(reqs, y, z) => Before(reqs, x, z)
           /\ x = y \/ Before(reqs, x, y) \/ Before(reqs, y, x)
  BY DEF Before

InGroup(reqs, key) == {i \in DOMAIN reqs : reqs[i].size > 0 /\ reqs[i].key = key}

\* A sorted enumeration of the group exists: a request's place is the number of requests
\* that are not after it.
LEMMA SortedGroup ==
    ASSUME NEW reqs, IsFiniteSet(DOMAIN reqs),
           \A i \in DOMAIN reqs : i \in Nat /\ reqs[i].off \in Nat,
           NEW M \in SUBSET DOMAIN reqs, NEW m, m = Cardinality(M)
    PROVE  \E g \in [1..m -> M] : \A j, k \in 1..m : j < k => Before(reqs, g[j], g[k])
  <1> DEFINE Upto(x) == {y \in M : y = x \/ Before(reqs, y, x)}
  <1>0. PICK rank : rank = [x \in M |-> Cardinality(Upto(x))]
    OBVIOUS
  <1>1. IsFiniteSet(M) /\ m \in Nat /\ IsFiniteSet(1..m) /\ Cardinality(1..m) = m
    <2>1. IsFiniteSet(M)
      BY FS_Subset
    <2>2. m \in Nat
      BY <2>1, FS_CardinalityType
    <2> QED
      BY <2>1, <2>2, FS_Interval
  <1>2. ASSUME NEW x \in M
        PROVE  IsFiniteSet(Upto(x)) /\ Cardinality(Upto(x)) \in 1..m
    <2>1. Upto(x) \in SUBSET M /\ Upto(x) # {}
      OBVIOUS
    <2>2. IsFiniteSet(Upto(x)) /\ Cardinality(Upto(x)) <= m
      BY <1>1, <2>1, FS_Subset
    <2>3. Cardinality(Upto(x)) \in Nat /\ Cardinality(Upto(x)) # 0
      BY <2>1, <2>2, FS_CardinalityType, FS_EmptySet
    <2> QED
      BY <1>1, <2>2, <2>3
  <1>3. ASSUME NEW x \in M, NEW y \in M, Before(reqs, x, y)
        PROVE  rank[x] < rank[y]
    <2>1. Upto(x) \in SUBSET Upto(y)
      BY <1>3, BeforeIsOrder
    <2>2. y \in Upto(y) /\ y \notin Upto(x)
      BY <1>3, BeforeIsOrder
    <2>3. Upto(x) # Upto(y)
      BY <2>2
    <2>4. IsFiniteSet(Upto(y)) /\ Cardinality(Upto(x)) \in Nat /\ Cardinality(Upto(y)) \in Nat
      <3> HIDE DEF Upto
      <3> QED
        BY <1>1, <1>2
    <2>5. rank[x] = Cardinality(Upto(x)) /\ rank[y] = Cardinality(Upto(y))
      BY <1>0
    <2> HIDE DEF Upto
    <2>6. Cardinality(Upto(x)) <= Cardinality(Upto(y)) /\ Cardinality(Upto(x)) # Cardinality(Upto(y))
      BY <2>1, <2>3, <2>4, FS_Subset
    <2> QED
      BY <2>4, <2>5, <2>6
  <1>4. rank \in [M -> 1..m]
    BY <1>0, <1>2
  <1>5. \A x, y \in M : rank[x] = rank[y] => x = y
    <2> SUFFICES ASSUME NEW x \in M, NEW y \in M, rank[x] = rank[y], x # y PROVE FALSE
      OBVIOUS
    <2>1. Before(reqs, x, y) \/ Before(reqs, y, x)
      BY BeforeIsOrder
    <2>2. rank[x] \in Nat /\ rank[y] \in Nat
      BY <1>1, <1>4
    <2> QED
      BY <1>3, <2>1, <2>2
  <1>6. rank \in Injection(M, 1..m)
    BY <1>4, <1>5 DEF Injection, IsInjective
  <1>7. rank \in Surjection(M, 1..m)
    BY <1>1, <1>6, FS_Injection
  <1>8. \A k \in 1..m : \E x \in M : rank[x] = k
    BY <1>7 DEF Surjection
  <1>9. PICK g : g = [k \in 1..m |-> CHOOSE x \in M : rank[x] = k]
    OBVIOUS
  <1>10. \A k \in 1..m : g[k] \in M /\ rank[g[k]] = k
    BY <1>8, <1>9
  <1>11. g \in [1..m -> M]
    BY <1>9, <1>10
  <1>12. ASSUME NEW j \in 1..m, NEW k \in 1..m, j < k PROVE Before(reqs, g[j], g[k])
    <2>1. g[j] \in M /\ g[k] \in M /\ rank[g[j]] = j /\ rank[g[k]] = k
      BY <1>10
    <2>2. g[j] # g[k]
      BY <1>12, <2>1
    <2>3. ~Before(reqs, g[k], g[j])
      BY <1>3, <1>12, <2>1
    <2>4. g[j] \in DOMAIN reqs /\ g[k] \in DOMAIN reqs
      BY <2>1
    <2> QED
      BY <2>2, <2>3, <2>4, BeforeIsOrder
  <1> QED
    BY <1>11, <1>12

\* Group() enumerates the requests of the key, each once.
Enumerates(g, m, S) ==
    /\ g \in [1..m -> S] /\ \A j, k \in 1..m : g[j] = g[k] => j = k
    /\ \A i \in S : \E k \in 1..m : g[k] = i

\* The sorted enumeration that Group() chooses exists and leaves out no request.
LEMMA GroupFacts ==
    ASSUME NEW reqs, IsFiniteSet(DOMAIN reqs),
           \A i \in DOMAIN reqs : i \in Nat /\ reqs[i].off \in Nat, NEW key
    PROVE  \E m \in Nat : Enumerates(Group(reqs, key), m, InGroup(reqs, key))
  <1>1. PICK M, m, g : M = InGroup(reqs, key) /\ m = Cardinality(M) /\ g = Group(reqs, key)
    OBVIOUS
  <1>2. M \in SUBSET DOMAIN reqs
    BY <1>1 DEF InGroup
  <1>3. g = CHOOSE f \in [1..m -> M] : \A j, k \in 1..m : j < k => Before(reqs, f[j], f[k])
    BY <1>1 DEF Group, InGroup
  <1>4. \E f \in [1..m -> M] : \A j, k \in 1..m : j < k => Before(reqs, f[j], f[k])
    BY <1>1, <1>2, SortedGroup
  <1>5. g \in [1..m -> M] /\ \A j, k \in 1..m : j < k => Before(reqs, g[j], g[k])
    BY <1>3, <1>4
  <1>6. IsFiniteSet(M) /\ m \in Nat /\ Cardinality(1..m) = m
    <2>1. IsFiniteSet(M)
      BY <1>2, FS_Subset
    <2>2. m \in Nat
      BY <1>1, <2>1, FS_CardinalityType
    <2> QED
      BY <2>1, <2>2, FS_Interval
  <1>7. \A j, k \in 1..m : g[j] = g[k] => j = k
    <2> SUFFICES ASSUME NEW j \in 1..m, NEW k \in 1..m, g[j] = g[k], j # k PROVE FALSE
      OBVIOUS
    <2>1. Before(reqs, g[j], g[k]) \/ Before(reqs, g[k], g[j])
      BY <1>5, <1>6
    <2>2. g[j] \in DOMAIN reqs
      BY <1>2, <1>5
    <2> QED
      BY <2>1, <2>2, BeforeIsOrder
  <1>8. g \in Injection(1..m, M)
    BY <1>5, <1>7 DEF Injection, IsInjective
  <1>9. g \in Surjection(1..m, M)
    BY <1>1, <1>6, <1>8, FS_Injection
  <1>10. \A i \in M : \E k \in 1..m : g[k] = i
    BY <1>9 DEF Surjection
  <1> QED
    BY <1>1, <1>5, <1>6, <1>7, <1>10 DEF Enumerates

\* A batch of n requests and its options.
IsBatch(reqs, opts, n) ==
    /\ n \in Nat /\ DOMAIN reqs = 1..n
    /\ \A i \in 1..n : reqs[i].off \in Nat /\ reqs[i].size \in Nat
    /\ opts.task \in Nat \ {0} /\ (opts.gap # NoGap => opts.gap \in Nat)

\* The groups of different keys have no request in common, and every request that is
\* not empty is in a group.
LEMMA GroupKeysFacts ==
    ASSUME NEW reqs, NEW opts, NEW n, IsBatch(reqs, opts, n)
    PROVE  \E m \in Nat : /\ DOMAIN GroupKeys(reqs) = 1..m
                          /\ \A j, k \in 1..m : GroupKeys(reqs)[j] = GroupKeys(reqs)[k] => j = k
                          /\ \A i \in 1..n : reqs[i].size > 0 =>
                                \E j \in 1..m : GroupKeys(reqs)[j] = reqs[i].key
  <1>1. PICK K : K = {reqs[i].key : i \in 1..n}
    OBVIOUS
  <1>2. n \in Nat /\ DOMAIN reqs = 1..n /\ \A i \in 1..n : reqs[i].key \in K /\ reqs[i].size \in Nat
    BY <1>1 DEF IsBatch
  <1>3. PICK r \in [0..n -> Seq(K)] : KeySteps(r, reqs, n)
    BY <1>2, GroupKeysSteps DEF KeysIn
  <1> DEFINE Once(keys) == \A j, k \in 1..Len(keys) : keys[j] = keys[k] => j = k
             Has(keys, i) == \E j \in 1..Len(keys) : keys[j] = reqs[i].key
             T == {k \in Nat : k <= n =>
                     /\ Once(r[k])
                     /\ \A i \in 1..k : reqs[i].size > 0 => Has(r[k], i)}
  <1>4. 0 \in T
    BY <1>3 DEF KeySteps
  <1>5. ASSUME NEW k \in Nat, k \in T PROVE k + 1 \in T
    <2> SUFFICES ASSUME k + 1 <= n
                 PROVE  /\ Once(r[k + 1])
                        /\ \A i \in 1..(k + 1) : reqs[i].size > 0 => Has(r[k + 1], i)
      OBVIOUS
    <2>1. PICK s \in Seq(K) : s = r[k]
      BY <1>2
    <2>2. Once(s) /\ \A i \in 1..k : reqs[i].size > 0 => Has(s, i)
      BY <1>2, <1>5, <2>1
    <2>3. k + 1 \in 1..n /\ (k + 1) - 1 = k
      BY <1>2
    <2>4. r[k + 1] = InsertKey(s, reqs[k + 1])
      BY <1>3, <2>1, <2>3 DEF KeySteps
    <2>5. PICK x : x = reqs[k + 1].key
      OBVIOUS
    <2>6. CASE reqs[k + 1].size = 0
      <3>1. r[k + 1] = s
        BY <2>4, <2>6 DEF InsertKey
      <3> QED
        BY <2>2, <2>6, <3>1
    <2>7. CASE reqs[k + 1].size # 0 /\ x \in ToSet(s)
      <3>1. r[k + 1] = s
        BY <2>4, <2>5, <2>7 DEF InsertKey
      <3>2. Has(s, k + 1)
        BY <2>5, <2>7 DEF ToSet
      <3> QED
        BY <2>2, <3>1, <3>2
    <2>8. CASE reqs[k + 1].size # 0 /\ x \notin ToSet(s)
      <3>1. r[k + 1] = Append(s, x)
        BY <2>4, <2>5, <2>8 DEF InsertKey
      <3>2. \A j \in 1..Len(s) : s[j] # x
        BY <2>8 DEF ToSet
      <3>3. PICK q : q = Append(s, x)
        OBVIOUS
      <3>4. /\ Len(s) \in Nat /\ Len(q) = Len(s) + 1 /\ q[Len(s) + 1] = x
            /\ \A j \in 1..Len(s) : q[j] = s[j]
        BY <3>3
      <3>5. Once(q)
        <4> SUFFICES ASSUME NEW a \in 1..Len(q), NEW b \in 1..Len(q), q[a] = q[b] PROVE a = b
          OBVIOUS
        <4>1. (a \in 1..Len(s) \/ a = Len(s) + 1) /\ (b \in 1..Len(s) \/ b = Len(s) + 1)
          BY <3>4
        <4> QED
          BY <2>2, <3>2, <3>4, <4>1
      <3>6. ASSUME NEW i \in 1..(k + 1), reqs[i].size > 0 PROVE Has(q, i)
        <4>1. CASE i = k + 1
          <5>1. Len(s) + 1 \in 1..Len(q)
            BY <3>4
          <5> QED
            BY <2>5, <3>4, <4>1, <5>1
        <4>2. CASE i \in 1..k
          <5>1. PICK j \in 1..Len(s) : s[j] = reqs[i].key
            BY <2>2, <3>6, <4>2
          <5>2. j \in 1..Len(q) /\ q[j] = reqs[i].key
            BY <3>4, <5>1
          <5> QED
            BY <5>2
        <4> QED
          BY <4>1, <4>2
      <3> QED
        BY <3>1, <3>3, <3>5, <3>6
    <2> QED
      BY <2>6, <2>7, <2>8
  <1>6. Nat \subseteq T
    <2> HIDE DEF T
    <2> QED
      BY <1>4, <1>5, SetInduction
  <1>7. PICK s \in Seq(K) : s = r[n]
    BY <1>2
  <1>8. Once(s) /\ \A i \in 1..n : reqs[i].size > 0 => Has(s, i)
    BY <1>2, <1>6, <1>7
  <1>9. Len(s) \in Nat /\ DOMAIN s = 1..Len(s)
    OBVIOUS
  <1> QED
    BY <1>3, <1>7, <1>8, <1>9 DEF KeySteps

-------------------------------------------------------------------------------
(* The runs of a group.                                                    *)

RunSizes(reqs, run) == [k \in 1..Len(run) |-> reqs[run[k]].size]
RunSpan(reqs, run) == End(reqs[run[Len(run)]]) - reqs[run[1]].off

\* What plan_group() guarantees about the requests of a run: they lie in the span from
\* the first to the end of the last, and if there are several, the span is at most
\* task_size and is theirs up to one gap between neighbours.
RunOf(reqs, key, run) ==
    /\ run \in Seq(Nat) /\ Len(run) >= 1
    /\ \A k \in 1..Len(run) : run[k] \in InGroup(reqs, key)
    /\ \A j, k \in 1..Len(run) : run[j] = run[k] => j = k
RunInSpan(reqs, run) ==
    \A k \in 1..Len(run) : /\ reqs[run[1]].off <= reqs[run[k]].off
                           /\ End(reqs[run[k]]) <= End(reqs[run[Len(run)]])
RunFits(reqs, opts, run) ==
    Len(run) > 1 => opts.gap # NoGap /\ RunSpan(reqs, run) <= opts.task
RunGaps(reqs, opts, run) ==
    opts.gap # NoGap =>
        RunSpan(reqs, run) <= Tally(RunSizes(reqs, run), 1..Len(run)) + opts.gap * (Len(run) - 1)
GoodRun(reqs, opts, key, run) ==
    /\ RunOf(reqs, key, run) /\ RunInSpan(reqs, run)
    /\ RunFits(reqs, opts, run) /\ RunGaps(reqs, opts, run)

\* What is known of a request of a group.
LEMMA InGroupFacts ==
    ASSUME NEW reqs, NEW opts, NEW n, IsBatch(reqs, opts, n), NEW key, NEW i \in InGroup(reqs, key)
    PROVE  /\ i \in 1..n /\ i \in Nat /\ reqs[i].off \in Nat /\ reqs[i].size \in Nat
           /\ reqs[i].size > 0 /\ reqs[i].key = key /\ End(reqs[i]) = reqs[i].off + reqs[i].size
  BY DEF IsBatch, InGroup, End

\* A run of one request is a good run.
LEMMA OneRequestRun ==
    ASSUME NEW reqs, NEW opts, NEW n, IsBatch(reqs, opts, n), NEW key, NEW i \in InGroup(reqs, key)
    PROVE  GoodRun(reqs, opts, key, <<i>>)
  <1>1. PICK run : run = <<i>>
    OBVIOUS
  <1>2. run \in Seq(Nat) /\ Len(run) = 1 /\ run[1] = i
    BY <1>1, InGroupFacts
  <1>3. /\ i \in Nat /\ reqs[i].off \in Nat /\ reqs[i].size \in Nat
        /\ End(reqs[i]) = reqs[i].off + reqs[i].size
    BY InGroupFacts
  <1>4. RunOf(reqs, key, run) /\ RunInSpan(reqs, run) /\ RunFits(reqs, opts, run)
    BY <1>2, <1>3 DEF RunOf, RunInSpan, RunFits
  <1>5. RunGaps(reqs, opts, run)
    <2>1. PICK f : f = RunSizes(reqs, run)
      OBVIOUS
    <2>2. f[1] = reqs[i].size
      BY <1>2, <2>1 DEF RunSizes
    <2>3. Tally(f, {} \cup {1}) = Tally(f, {}) + f[1]
      <3>1. IsFiniteSet({}) /\ 1 \notin {} /\ \A x \in {} \cup {1} : f[x] \in Int
        BY <1>3, <2>2, FS_EmptySet
      <3> QED
        BY <3>1, TallyGrows
    <2>4. {} \cup {1} = 1..1
      OBVIOUS
    <2>5. Tally(f, 1..1) = reqs[i].size
      BY <1>3, <2>2, <2>3, <2>4, TallyOfNone
    <2>6. RunSpan(reqs, run) = reqs[i].size
      BY <1>2, <1>3 DEF RunSpan
    <2>7. opts.gap # NoGap => opts.gap * (1 - 1) = 0
      BY DEF IsBatch
    <2> QED
      BY <1>2, <1>3, <2>1, <2>5, <2>6, <2>7 DEF RunGaps
  <1> QED
    BY <1>1, <1>4, <1>5 DEF GoodRun

\* A good run stays one with a request that Joins it.
LEMMA LongerRun ==
    ASSUME NEW reqs, NEW opts, NEW n, IsBatch(reqs, opts, n), NEW key, NEW i \in InGroup(reqs, key),
           NEW run, GoodRun(reqs, opts, key, run), \A k \in 1..Len(run) : run[k] # i,
           Joins(opts, reqs[run[1]].off, End(reqs[run[Len(run)]]), reqs[i])
    PROVE  GoodRun(reqs, opts, key, Append(run, i))
  <1>1. PICK q, m : q = Append(run, i) /\ m = Len(run)
    OBVIOUS
  <1>2. /\ run \in Seq(Nat) /\ m \in Nat /\ m >= 1
        /\ \A k \in 1..m : run[k] \in InGroup(reqs, key)
        /\ \A j, k \in 1..m : run[j] = run[k] => j = k
        /\ \A k \in 1..m : run[k] # i
    BY <1>1 DEF GoodRun, RunOf
  <1>3. /\ i \in Nat /\ reqs[i].off \in Nat /\ reqs[i].size \in Nat
        /\ End(reqs[i]) = reqs[i].off + reqs[i].size
    BY InGroupFacts
  <1>4. /\ Len(q) = m + 1 /\ q \in Seq(Nat) /\ q[m + 1] = i
        /\ \A k \in 1..m : q[k] = run[k]
        /\ q[1] = run[1]
    BY <1>1, <1>2, <1>3
  <1>5. \A k \in 1..(m + 1) : k \in 1..m \/ k = m + 1
    BY <1>2
  <1>6. /\ opts.gap # NoGap /\ reqs[i].off >= End(reqs[run[m]])
        /\ reqs[i].off - End(reqs[run[m]]) <= opts.gap
        /\ End(reqs[i]) - reqs[run[1]].off <= opts.task
    BY <1>1 DEF Joins
  <1>7. /\ \A k \in 1..m : /\ reqs[run[k]].off \in Nat /\ reqs[run[k]].size \in Nat
                           /\ End(reqs[run[k]]) = reqs[run[k]].off + reqs[run[k]].size
                           /\ reqs[run[1]].off <= reqs[run[k]].off
                           /\ End(reqs[run[k]]) <= End(reqs[run[m]])
    BY <1>1, <1>2, InGroupFacts DEF GoodRun, RunInSpan
  <1>8. 1 \in 1..m /\ m \in 1..m
    BY <1>2
  <1>9. RunOf(reqs, key, q)
    <2>1. \A k \in 1..(m + 1) : q[k] \in InGroup(reqs, key)
      BY <1>2, <1>4, <1>5
    <2>2. ASSUME NEW j \in 1..(m + 1), NEW k \in 1..(m + 1), q[j] = q[k] PROVE j = k
      <3>1. (j \in 1..m \/ j = m + 1) /\ (k \in 1..m \/ k = m + 1)
        BY <1>5
      <3> QED
        BY <1>2, <1>4, <2>2, <3>1
    <2>3. Len(q) >= 1
      BY <1>2, <1>4
    <2> QED
      BY <1>4, <2>1, <2>2, <2>3 DEF RunOf
  <1>10. RunInSpan(reqs, q)
    <2> SUFFICES ASSUME NEW k \in 1..(m + 1)
                 PROVE  /\ reqs[q[1]].off <= reqs[q[k]].off
                        /\ End(reqs[q[k]]) <= End(reqs[q[m + 1]])
      BY <1>4 DEF RunInSpan
    <2>1. reqs[q[1]].off <= reqs[run[m]].off /\ reqs[q[1]].off \in Nat
      BY <1>4, <1>7, <1>8
    <2>a. End(reqs[run[m]]) \in Int /\ reqs[run[m]].off <= End(reqs[run[m]])
      BY <1>7, <1>8
    <2>b. reqs[run[m]].off \in Int /\ End(reqs[i]) \in Int /\ reqs[i].off <= End(reqs[i])
      BY <1>3, <1>7, <1>8, SMTT(30)
    <2>c. End(reqs[run[m]]) <= reqs[i].off
      BY <1>3, <1>6, <2>a
    <2>2. CASE k = m + 1
      <3>1. q[k] = i /\ q[m + 1] = i
        BY <1>4, <2>2
      <3>2. reqs[q[1]].off <= reqs[i].off
        BY <1>3, <2>1, <2>a, <2>b, <2>c, SMTT(30)
      <3> QED
        BY <3>1, <3>2, <2>b
    <2>3. CASE k \in 1..m
      <3>1. q[k] = run[k] /\ q[m + 1] = i
        BY <1>4, <2>3
      <3>2. reqs[q[1]].off <= reqs[run[k]].off
        BY <1>4, <1>7, <2>3
      <3>3. End(reqs[run[k]]) <= End(reqs[run[m]]) /\ End(reqs[run[k]]) \in Int
        BY <1>7, <2>3
      <3>4. End(reqs[run[k]]) <= End(reqs[i])
        BY <1>3, <3>3, <2>a, <2>b, <2>c
      <3> QED
        BY <3>1, <3>2, <3>4
    <2> QED
      BY <1>5, <2>2, <2>3
  <1>11. RunFits(reqs, opts, q)
    BY <1>4, <1>6 DEF RunFits, RunSpan
  <1>12. RunGaps(reqs, opts, q)
    <2>1. PICK f, h : f = RunSizes(reqs, run) /\ h = RunSizes(reqs, q)
      OBVIOUS
    <2>2. \A k \in 1..m : f[k] \in Int /\ f[k] = h[k]
      BY <1>1, <1>4, <1>5, <1>7, <2>1 DEF RunSizes
    <2>3. h[m + 1] = reqs[i].size
      BY <1>2, <1>4, <2>1 DEF RunSizes
    <2>4. IsFiniteSet(1..m) /\ m + 1 \notin 1..m /\ (1..m) \cup {m + 1} = 1..(m + 1)
      <3>1. IsFiniteSet(1..m)
        BY <1>2, FS_Interval
      <3> QED
        BY <1>2, <3>1
    <2>5. Tally(f, 1..m) = Tally(h, 1..m)
      BY <2>2, <2>4, TallyAgrees
    <2>6. Tally(h, (1..m) \cup {m + 1}) = Tally(h, 1..m) + h[m + 1]
      <3>1. \A x \in (1..m) \cup {m + 1} : h[x] \in Int
        BY <1>3, <2>2, <2>3
      <3> QED
        BY <2>4, <3>1, TallyGrows
    <2>7. Tally(h, 1..(m + 1)) = Tally(f, 1..m) + reqs[i].size
      BY <2>3, <2>4, <2>5, <2>6
    <2>8. Tally(f, 1..m) \in Int
      BY <2>2, <2>4, TallyType
    <2>9. RunSpan(reqs, run) <= Tally(f, 1..m) + opts.gap * (m - 1)
      BY <1>1, <1>6, <2>1 DEF GoodRun, RunGaps
    <2>10. opts.gap \in Nat /\ opts.gap * ((m + 1) - 1) = opts.gap * (m - 1) + opts.gap
           /\ opts.gap * (m - 1) \in Int
      BY <1>2, <1>6 DEF IsBatch
    <2>11. RunSpan(reqs, q) = End(reqs[i]) - reqs[run[1]].off
      BY <1>4 DEF RunSpan
    <2>12. RunSpan(reqs, run) = End(reqs[run[m]]) - reqs[run[1]].off
      BY <1>1 DEF RunSpan
    <2>13. End(reqs[run[m]]) \in Int /\ reqs[run[1]].off \in Int
      BY <1>7, <1>8
    <2>14. RunSpan(reqs, q) <= Tally(h, 1..(m + 1)) + opts.gap * ((m + 1) - 1)
      <3>1. PICK t, p, e, o, oi, si :
               /\ t = Tally(f, 1..m) /\ p = opts.gap * (m - 1) /\ e = End(reqs[run[m]])
               /\ o = reqs[run[1]].off /\ oi = reqs[i].off /\ si = reqs[i].size
        OBVIOUS
      <3>8. t \in Int /\ p \in Int /\ e \in Int /\ o \in Int /\ oi \in Int /\ si \in Int
        BY <1>3, <2>8, <2>10, <2>13, <3>1
      <3>2. e - o <= t + p
        BY <2>9, <2>12, <3>1
      <3>3. oi - e <= opts.gap /\ opts.gap \in Int
        BY <1>6, <2>10, <3>1
      <3>4. (oi + si) - o <= (t + si) + (p + opts.gap)
        BY <3>2, <3>3, <3>8
      <3>5. RunSpan(reqs, q) = (oi + si) - o
        BY <1>3, <2>11, <3>1
      <3>6. Tally(h, 1..(m + 1)) = t + si /\ opts.gap * ((m + 1) - 1) = p + opts.gap
        BY <2>7, <2>10, <3>1
      <3> QED
        BY <3>4, <3>5, <3>6
    <2> QED
      BY <1>4, <2>1, <2>14 DEF RunGaps
  <1> QED
    BY <1>1, <1>9, <1>10, <1>11, <1>12 DEF GoodRun

\* The runs after k requests of a group: together they hold these requests, each once.
RunsGood(reqs, opts, key, rs) == \A l \in 1..Len(rs) : GoodRun(reqs, opts, key, rs[l])
RunsFrom(g, k, rs) ==
    \A l \in 1..Len(rs) : \A p \in 1..Len(rs[l]) : \E j \in 1..k : rs[l][p] = g[j]
RunHas(rs, l, i) == \E p \in 1..Len(rs[l]) : rs[l][p] = i
RunsAll(g, k, rs) == \A j \in 1..k : \E l \in 1..Len(rs) : RunHas(rs, l, g[j])
RunsApart(rs) ==
    \A l1, l2 \in 1..Len(rs) : \A i : RunHas(rs, l1, i) /\ RunHas(rs, l2, i) => l1 = l2
RunsHold(reqs, opts, key, g, k, rs) ==
    RunsGood(reqs, opts, key, rs) /\ RunsFrom(g, k, rs) /\ RunsAll(g, k, rs) /\ RunsApart(rs)

\* A request is added to the run at position m, which is new if the run was empty.
AddsRequest(rs, us, m, old, i) ==
    /\ m \in 1..Len(us) /\ Len(us) = m /\ Len(rs) \in {m - 1, m}
    /\ \A l \in 1..(m - 1) : us[l] = rs[l]
    /\ old \in Seq(Nat) /\ us[m] = Append(old, i)
    /\ Len(rs) = m => old = rs[m]
    /\ Len(rs) = m - 1 => old = <<>>

\* The runs hold one request more.
LEMMA RunsGrow ==
    ASSUME NEW reqs, NEW opts, NEW key, NEW g, NEW k \in Nat, NEW rs \in Seq(Seq(Nat)),
           NEW us \in Seq(Seq(Nat)), NEW m, NEW old, NEW i,
           RunsHold(reqs, opts, key, g, k, rs),
           i = g[k + 1], \A j \in 1..k : g[j] # i,
           AddsRequest(rs, us, m, old, i), GoodRun(reqs, opts, key, us[m])
    PROVE  RunsHold(reqs, opts, key, g, k + 1, us)
  <1> USE DEF AddsRequest
  <1>1. /\ RunsGood(reqs, opts, key, rs) /\ RunsFrom(g, k, rs) /\ RunsAll(g, k, rs) /\ RunsApart(rs)
    BY DEF RunsHold
  <1>2. m \in Nat /\ m >= 1 /\ \A l \in 1..m : l \in 1..(m - 1) \/ l = m
    OBVIOUS
  <1>3. \A l \in 1..(m - 1) : l \in 1..Len(rs) /\ l \in 1..m
    BY <1>2
  <1>a. PICK c : c = Len(old)
    OBVIOUS
  <1>4. c = Len(old) /\ c \in Nat
    BY <1>a
  <1>5. /\ Len(us[m]) = c + 1 /\ us[m][c + 1] = i /\ \A p \in 1..c : us[m][p] = old[p]
        /\ \A p \in 1..(c + 1) : p \in 1..c \/ p = c + 1
    BY <1>4
  <1>6. \A x : RunHas(us, m, x) <=> x = i \/ (Len(rs) = m /\ RunHas(rs, m, x))
    <2> TAKE x
    <2>1. ASSUME RunHas(us, m, x), x # i PROVE Len(rs) = m /\ RunHas(rs, m, x)
      <3>1. PICK p \in 1..(c + 1) : us[m][p] = x
        BY <1>5, <2>1 DEF RunHas
      <3>2. p \in 1..c /\ old[p] = x
        BY <1>5, <2>1, <3>1
      <3>3. Len(rs) = m
        BY <1>2, <1>4, <3>2
      <3> QED
        BY <1>4, <3>2, <3>3 DEF RunHas
    <2>2. RunHas(us, m, i)
      <3>1. c + 1 \in 1..(c + 1)
        BY <1>4
      <3> QED
        BY <1>5, <3>1 DEF RunHas
    <2>3. ASSUME Len(rs) = m, RunHas(rs, m, x) PROVE RunHas(us, m, x)
      <3>1. PICK p \in 1..c : old[p] = x
        BY <1>4, <2>3 DEF RunHas
      <3>2. p \in 1..(c + 1) /\ us[m][p] = x
        BY <1>4, <1>5, <3>1
      <3> QED
        BY <1>5, <3>2 DEF RunHas
    <2> QED
      BY <2>1, <2>2, <2>3
  <1>7. \A l \in 1..(m - 1) : \A x : RunHas(us, l, x) <=> RunHas(rs, l, x)
    BY DEF RunHas
  <1>8. \A l \in 1..Len(rs) : ~RunHas(rs, l, i)
    <2> SUFFICES ASSUME NEW l \in 1..Len(rs), NEW p \in 1..Len(rs[l]), rs[l][p] = i PROVE FALSE
      BY DEF RunHas
    <2>1. PICK j \in 1..k : rs[l][p] = g[j]
      BY <1>1 DEF RunsFrom
    <2> QED
      BY <2>1
  <1>9. RunsGood(reqs, opts, key, us)
    <2> SUFFICES ASSUME NEW l \in 1..m PROVE GoodRun(reqs, opts, key, us[l])
      BY DEF RunsGood
    <2>1. CASE l = m
      BY <2>1
    <2>2. CASE l \in 1..(m - 1)
      BY <1>1, <1>3, <2>2 DEF RunsGood
    <2> QED
      BY <1>2, <2>1, <2>2
  <1>10. RunsFrom(g, k + 1, us)
    <2> SUFFICES ASSUME NEW l \in 1..m, NEW p \in 1..Len(us[l])
                 PROVE  \E j \in 1..(k + 1) : us[l][p] = g[j]
      BY DEF RunsFrom
    <2>0. k + 1 \in 1..(k + 1) /\ \A j \in 1..k : j \in 1..(k + 1)
      OBVIOUS
    <2>1. CASE l \in 1..(m - 1)
      <3>1. us[l] = rs[l] /\ l \in 1..Len(rs)
        BY <1>3, <2>1
      <3>2. p \in 1..Len(rs[l])
        BY <3>1
      <3>3. PICK j \in 1..k : rs[l][p] = g[j]
        BY <1>1, <3>1, <3>2 DEF RunsFrom
      <3> QED
        BY <2>0, <3>1, <3>3
    <2>2. CASE l = m /\ us[l][p] = i
      BY <2>0, <2>2
    <2>3. CASE l = m /\ us[l][p] # i
      <3>1. RunHas(us, m, us[l][p])
        BY <2>3 DEF RunHas
      <3>2. Len(rs) = m /\ RunHas(rs, m, us[l][p])
        BY <1>6, <2>3, <3>1
      <3>3. PICK p2 \in 1..Len(rs[m]) : rs[m][p2] = us[l][p]
        BY <3>2 DEF RunHas
      <3>4. m \in 1..Len(rs)
        BY <1>2, <3>2
      <3>5. PICK j \in 1..k : rs[m][p2] = g[j]
        BY <1>1, <3>3, <3>4 DEF RunsFrom
      <3> QED
        BY <2>0, <3>3, <3>5
    <2> QED
      BY <1>2, <2>1, <2>2, <2>3
  <1>11. RunsAll(g, k + 1, us)
    <2> SUFFICES ASSUME NEW j \in 1..(k + 1) PROVE \E l \in 1..m : RunHas(us, l, g[j])
      BY DEF RunsAll
    <2>0. m \in 1..m
      BY <1>2
    <2>1. CASE j = k + 1
      BY <1>6, <2>0, <2>1
    <2>2. CASE j \in 1..k
      <3>1. PICK l \in 1..Len(rs) : RunHas(rs, l, g[j])
        BY <1>1, <2>2 DEF RunsAll
      <3>2. l \in 1..(m - 1) \/ (l = m /\ Len(rs) = m)
        BY <1>2
      <3> QED
        BY <1>3, <1>6, <1>7, <2>0, <3>1, <3>2
    <2> QED
      BY <2>1, <2>2
  <1>12. RunsApart(us)
    <2> SUFFICES ASSUME NEW l1 \in 1..m, NEW l2 \in 1..m, NEW x, RunHas(us, l1, x), RunHas(us, l2, x)
                 PROVE  l1 = l2
      BY DEF RunsApart
    <2>1. ASSUME NEW l \in 1..(m - 1), RunHas(us, l, x), RunHas(us, m, x) PROVE FALSE
      <3>1. RunHas(rs, l, x) /\ l \in 1..Len(rs)
        BY <1>3, <1>7, <2>1
      <3>2. x # i
        BY <1>8, <3>1
      <3>3. Len(rs) = m /\ RunHas(rs, m, x)
        BY <1>6, <2>1, <3>2
      <3>4. m \in 1..Len(rs)
        BY <1>2, <3>3
      <3>5. l = m
        BY <1>1, <3>1, <3>3, <3>4 DEF RunsApart
      <3> QED
        BY <2>1, <3>5
    <2>2. CASE l1 \in 1..(m - 1) /\ l2 \in 1..(m - 1)
      BY <1>1, <1>3, <1>7, <2>2 DEF RunsApart
    <2> QED
      BY <1>2, <2>1, <2>2
  <1> QED
    BY <1>9, <1>10, <1>11, <1>12 DEF RunsHold

\* One more request, in a run of its own or at the end of the last one.
LEMMA RunsStep ==
    ASSUME NEW reqs, NEW opts, NEW n, IsBatch(reqs, opts, n), NEW key,
           NEW g, NEW k \in Nat, g[k + 1] \in InGroup(reqs, key), \A j \in 1..k : g[j] # g[k + 1],
           NEW rs \in Seq(Seq(Nat)), RunsHold(reqs, opts, key, g, k, rs)
    PROVE  RunsHold(reqs, opts, key, g, k + 1, ExtendRuns(reqs, opts, rs, g[k + 1]))
  <1>1. PICK i, us : i = g[k + 1] /\ us = ExtendRuns(reqs, opts, rs, i)
    OBVIOUS
  <1>2. i \in InGroup(reqs, key) /\ i \in Nat /\ \A j \in 1..k : g[j] # i
    BY <1>1, InGroupFacts
  <1>3. us \in Seq(Seq(Nat))
    BY <1>1, <1>2, ExtendRunsType
  <1> DEFINE Joining == /\ rs # <<>>
                        /\ Joins(opts, reqs[Head(Last(rs))].off, End(reqs[Last(Last(rs))]), reqs[i])
  <1>4. CASE ~Joining
    <2>1. us = Append(rs, <<i>>)
      BY <1>1, <1>4 DEF ExtendRuns
    <2>2. PICK m : m = Len(rs) + 1 /\ m \in Nat /\ m >= 1
      OBVIOUS
    <2>3. /\ Len(us) = m /\ m \in 1..Len(us) /\ us[m] = <<i>> /\ Len(rs) = m - 1
          /\ \A l \in 1..(m - 1) : us[l] = rs[l]
      BY <1>2, <2>1, <2>2
    <2>4. PICK old : old = <<>>
      OBVIOUS
    <2>5. GoodRun(reqs, opts, key, us[m])
      BY <1>2, <2>3, OneRequestRun
    <2>6. old \in Seq(Nat) /\ Append(old, i) = <<i>>
      BY <1>2, <2>4
    <2>7. us[m] = Append(old, i)
      BY <2>3, <2>6
    <2>a. m - 1 # m
      BY <2>2
    <2>b. Len(rs) \in {m - 1, m} /\ Len(rs) # m
      BY <2>3, <2>a
    <2>8. Len(rs) \in {m - 1, m} /\ (Len(rs) = m => old = rs[m]) /\ (Len(rs) = m - 1 => old = <<>>)
      BY <2>4, <2>b
    <2>9. RunsHold(reqs, opts, key, g, k + 1, us)
      <3>1. AddsRequest(rs, us, m, old, i)
        BY <2>3, <2>6, <2>7, <2>8 DEF AddsRequest
      <3> QED
        BY <1>1, <1>2, <1>3, <2>5, <3>1, RunsGrow
    <2> QED
      BY <1>1, <2>9
  <1>5. CASE Joining
    <2>1. us = Front(rs) \o <<Append(Last(rs), i)>>
      BY <1>1, <1>5 DEF ExtendRuns
    <2>2. PICK m, old : m = Len(rs) /\ old = rs[m]
      OBVIOUS
    <2>3. m \in Nat /\ m >= 1 /\ old \in Seq(Nat) /\ m \in 1..Len(rs)
      BY <1>5, <2>2
    <2>4. Front(rs) \in Seq(Seq(Nat)) /\ Len(Front(rs)) = m - 1 /\ \A l \in 1..(m - 1) : Front(rs)[l] = rs[l]
      BY <2>2, <2>3 DEF Front
    <2>5. Append(old, i) \in Seq(Nat)
      BY <1>2, <2>3
    <2>6. us = Front(rs) \o <<Append(old, i)>>
      BY <2>1, <2>2 DEF Last
    <2>7. /\ Len(us) = m /\ m \in 1..Len(us) /\ us[m] = Append(old, i)
          /\ \A l \in 1..(m - 1) : us[l] = rs[l]
      <3>1. PICK a, b : a = Front(rs) /\ b = Append(old, i)
        OBVIOUS
      <3>2. a \in Seq(Seq(Nat)) /\ Len(a) = m - 1 /\ b \in Seq(Nat) /\ us = a \o <<b>>
        BY <2>4, <2>5, <2>6, <3>1
      <3>a. Len(<<b>>) = 1 /\ <<b>>[1] = b /\ <<b>> \in Seq(Seq(Nat))
        BY <3>2
      <3>b. Len(us) = Len(a) + Len(<<b>>) /\ us[Len(a) + 1] = <<b>>[1]
        BY <3>2, <3>a
      <3>c. Len(a) + 1 = m
        BY <2>3, <3>2
      <3>3. Len(us) = m /\ us[m] = b
        BY <3>a, <3>b, <3>c
      <3>4. \A l \in 1..(m - 1) : us[l] = a[l]
        BY <2>3, <3>2
      <3>5. m \in 1..m
        BY <2>3
      <3> QED
        BY <2>4, <3>1, <3>3, <3>4, <3>5
    <2>8. GoodRun(reqs, opts, key, old)
      BY <2>2, <2>3 DEF RunsHold, RunsGood
    <2>9. \A p \in 1..Len(old) : old[p] # i
      BY <1>2, <2>2, <2>3 DEF RunsHold, RunsFrom
    <2>10. Len(old) >= 1
      BY <2>8 DEF GoodRun, RunOf
    <2>11. Joins(opts, reqs[old[1]].off, End(reqs[old[Len(old)]]), reqs[i])
      <3>1. Head(old) = old[1]
        BY <2>3, <2>10
      <3> QED
        BY <1>5, <2>2, <3>1 DEF Last
    <2>12. GoodRun(reqs, opts, key, us[m])
      BY <1>2, <2>7, <2>8, <2>9, <2>11, LongerRun
    <2>13. Len(rs) \in {m - 1, m} /\ (Len(rs) = m - 1 => old = <<>>) /\ Len(rs) = m
      BY <2>2, <2>3
    <2>14. RunsHold(reqs, opts, key, g, k + 1, us)
      <3>1. AddsRequest(rs, us, m, old, i)
        BY <2>2, <2>3, <2>7, <2>13 DEF AddsRequest
      <3> QED
        BY <1>1, <1>2, <1>3, <2>12, <3>1, RunsGrow
    <2> QED
      BY <1>1, <2>14
  <1> QED
    BY <1>4, <1>5

\* The runs of a group hold its requests, each once.
RunsCover(reqs, opts, key, rs) ==
    /\ RunsGood(reqs, opts, key, rs) /\ RunsApart(rs)
    /\ \A i \in InGroup(reqs, key) : \E l \in 1..Len(rs) : RunHas(rs, l, i)

\* The runs of a group hold its requests, by induction over the group.
LEMMA RunsFacts ==
    ASSUME NEW reqs, NEW opts, NEW n, IsBatch(reqs, opts, n), NEW key
    PROVE  /\ Runs(reqs, opts, Group(reqs, key)) \in Seq(Seq(Nat))
           /\ RunsCover(reqs, opts, key, Runs(reqs, opts, Group(reqs, key)))
  <1>1. IsFiniteSet(DOMAIN reqs) /\ \A i \in DOMAIN reqs : i \in Nat /\ reqs[i].off \in Nat
    <2>1. n \in Nat /\ DOMAIN reqs = 1..n /\ \A i \in 1..n : reqs[i].off \in Nat
      BY DEF IsBatch
    <2>2. IsFiniteSet(1..n)
      BY <2>1, FS_Interval
    <2> QED
      BY <2>1, <2>2
  <1>2. PICK m \in Nat : Enumerates(Group(reqs, key), m, InGroup(reqs, key))
    BY <1>1, GroupFacts
  <1>3. PICK g : g = Group(reqs, key)
    OBVIOUS
  <1>4. /\ g \in [1..m -> InGroup(reqs, key)] /\ \A j, k \in 1..m : g[j] = g[k] => j = k
        /\ \A i \in InGroup(reqs, key) : \E k \in 1..m : g[k] = i
    BY <1>2, <1>3 DEF Enumerates
  <1>5. g \in [1..m -> Nat]
    BY <1>4, InGroupFacts
  <1>6. PICK r \in [0..m -> Seq(Seq(Nat))] : RunSteps(r, reqs, opts, g, m)
    BY <1>5, RunsSteps
  <1>7. /\ r[0] = <<>> /\ Runs(reqs, opts, g) = r[m]
        /\ \A k \in 1..m : r[k] = ExtendRuns(reqs, opts, r[k - 1], g[k])
    BY <1>6 DEF RunSteps
  <1> DEFINE T == {k \in Nat : k <= m => RunsHold(reqs, opts, key, g, k, r[k])}
  <1>8. 0 \in T
    BY <1>7 DEF RunsHold, RunsGood, RunsFrom, RunsAll, RunsApart
  <1>9. ASSUME NEW k \in Nat, k \in T PROVE k + 1 \in T
    <2> SUFFICES ASSUME k + 1 <= m PROVE RunsHold(reqs, opts, key, g, k + 1, r[k + 1])
      OBVIOUS
    <2>1. k + 1 \in 1..m /\ (k + 1) - 1 = k /\ k \in 0..m
      OBVIOUS
    <2>2. r[k] \in Seq(Seq(Nat)) /\ RunsHold(reqs, opts, key, g, k, r[k])
      BY <1>9, <2>1
    <2>3. g[k + 1] \in InGroup(reqs, key) /\ \A j \in 1..k : g[j] # g[k + 1]
      <3>1. \A j \in 1..k : j \in 1..m /\ j # k + 1
        BY <2>1
      <3> QED
        BY <1>4, <2>1, <3>1
    <2>4. r[k + 1] = ExtendRuns(reqs, opts, r[k], g[k + 1])
      BY <1>7, <2>1
    <2>5. RunsHold(reqs, opts, key, g, k + 1, ExtendRuns(reqs, opts, r[k], g[k + 1]))
      BY <2>2, <2>3, RunsStep
    <2> QED
      BY <2>4, <2>5
  <1>10. Nat \subseteq T
    <2> HIDE DEF T
    <2> QED
      BY <1>8, <1>9, SetInduction
  <1>11. RunsHold(reqs, opts, key, g, m, r[m]) /\ r[m] \in Seq(Seq(Nat))
    BY <1>10
  <1>12. RunsCover(reqs, opts, key, r[m])
    BY <1>4, <1>11 DEF RunsHold, RunsCover, RunsAll
  <1> QED
    BY <1>3, <1>7, <1>11, <1>12

-------------------------------------------------------------------------------
(* What a list of transfers guarantees about the requests it is for.       *)

PlannedSegments == [at : Int, length : Int, buf : Int, request : Nat]
PlannedTransfers(reqs, n) ==
    [key : {reqs[i].key : i \in 1..n}, off : Int, size : Int, segments : Seq(PlannedSegments)]

\* A transfer is within task_size and its segments within it and their requests.
SegmentOk(reqs, x, s, C) ==
    /\ s.request \in C /\ s.length > 0
    /\ s.at + s.length <= x.size /\ s.buf + s.length <= reqs[s.request].size
TransferOk(reqs, opts, x, C) ==
    x.size \in 1..opts.task /\ \A k \in DOMAIN x.segments : SegmentOk(reqs, x, x.segments[k], C)
Sound(reqs, opts, ts, C) == \A t \in 1..Len(ts) : TransferOk(reqs, opts, ts[t], C)

\* Segment k of transfer x carries byte b of request i to its place; there is one that does.
Carries(reqs, x, k, i, b) ==
    LET s == x.segments[k]
    IN  /\ s.request = i /\ x.key = reqs[i].key
        /\ b - s.buf \in 0..(s.length - 1)
        /\ x.off + s.at + (b - s.buf) = reqs[i].off + b
CarriedBy(reqs, ts, t, k, i, b) ==
    t \in 1..Len(ts) /\ k \in DOMAIN ts[t].segments /\ Carries(reqs, ts[t], k, i, b)
OneCarrier(reqs, ts, i, b) ==
    /\ \E t, k : CarriedBy(reqs, ts, t, k, i, b)
    /\ \A t, k, u, l : CarriedBy(reqs, ts, t, k, i, b) /\ CarriedBy(reqs, ts, u, l, i, b)
                       => t = u /\ k = l
Tiled(reqs, ts, C) == \A i \in C : \A b \in 0..(reqs[i].size - 1) : OneCarrier(reqs, ts, i, b)

\* The transfers of a request are no more than it would need alone.
Served(reqs, opts, ts, C) ==
    \A i \in C : Cardinality(Serves(ts, i)) \in 1..Chunks(reqs[i].size, opts.task)

\* The transfers the requests would need one by one, and the bytes that are read for nothing.
Need(reqs, opts) == [i \in DOMAIN reqs |-> Chunks(reqs[i].size, opts.task)]
Excess(ts) == [t \in DOMAIN ts |-> ts[t].size - Wanted(ts[t])]
Waste(ts) == Tally(Excess(ts), DOMAIN ts)
Spare(opts, saved) == IF opts.gap = NoGap THEN 0 ELSE opts.gap * saved
Cheap(reqs, opts, ts, C) ==
    /\ Len(ts) <= Tally(Need(reqs, opts), C)
    /\ Waste(ts) <= Spare(opts, Tally(Need(reqs, opts), C) - Len(ts))

GoodPlan(reqs, opts, n, ts, C) ==
    /\ ts \in Seq(PlannedTransfers(reqs, n)) /\ C \in SUBSET (1..n)
    /\ Sound(reqs, opts, ts, C) /\ Tiled(reqs, ts, C)
    /\ Served(reqs, opts, ts, C) /\ Cheap(reqs, opts, ts, C)

\* The bytes a transfer's segments want are a number.
LEMMA WantedType ==
    ASSUME NEW reqs, NEW n, NEW x \in PlannedTransfers(reqs, n)
    PROVE  Wanted(x) \in Int
  <1>1. PICK f, s : s = x.segments /\ f = [k \in DOMAIN s |-> s[k].length]
    OBVIOUS
  <1>2. s \in Seq(PlannedSegments)
    BY <1>1 DEF PlannedTransfers
  <1>3. DOMAIN s = 1..Len(s) /\ Len(s) \in Nat
    BY <1>2
  <1>4. IsFiniteSet(1..Len(s))
    BY <1>3, FS_Interval
  <1>5. \A k \in DOMAIN s : f[k] \in Int
    <2> TAKE k \in DOMAIN s
    <2>1. s[k] \in PlannedSegments
      BY <1>2, <1>3
    <2>2. s[k].length \in Int
      BY <2>1 DEF PlannedSegments
    <2> QED
      BY <1>1, <2>2
  <1>6. DOMAIN f = DOMAIN s
    BY <1>1
  <1>7. Tally(f, DOMAIN f) \in Int
    BY <1>3, <1>4, <1>5, <1>6, TallyType
  <1>8. Wanted(x) = SumOf(f)
    BY <1>1 DEF Wanted
  <1> QED
    BY <1>7, <1>8, SumOfTally

\* The bytes that a transfer reads for nothing are a number, and so is their sum.
LEMMA ExcessType ==
    ASSUME NEW reqs, NEW n, NEW ts \in Seq(PlannedTransfers(reqs, n))
    PROVE  /\ Len(ts) \in Nat /\ DOMAIN ts = 1..Len(ts) /\ IsFiniteSet(1..Len(ts))
           /\ \A t \in 1..Len(ts) : Excess(ts)[t] \in Int
           /\ Waste(ts) \in Int
  <1>1. Len(ts) \in Nat /\ DOMAIN ts = 1..Len(ts)
    OBVIOUS
  <1>2. IsFiniteSet(1..Len(ts))
    BY <1>1, FS_Interval
  <1>3. ASSUME NEW t \in 1..Len(ts) PROVE Excess(ts)[t] \in Int
    <2>1. PICK x : x = ts[t]
      OBVIOUS
    <2>2. x \in PlannedTransfers(reqs, n)
      BY <2>1
    <2>3. Wanted(x) \in Int
      BY <2>2, WantedType
    <2>4. x.size \in Int
      BY <2>2 DEF PlannedTransfers
    <2>5. Excess(ts)[t] = x.size - Wanted(x)
      BY <1>1, <2>1 DEF Excess
    <2> QED
      BY <2>3, <2>4, <2>5
  <1>4. Tally(Excess(ts), 1..Len(ts)) \in Int
    BY <1>2, <1>3, TallyType
  <1> QED
    BY <1>1, <1>2, <1>3, <1>4 DEF Waste

\* The transfers that requests need one by one are a number.
LEMMA NeedType ==
    ASSUME NEW reqs, NEW opts, NEW n, IsBatch(reqs, opts, n), NEW C \in SUBSET (1..n)
    PROVE  /\ IsFiniteSet(C) /\ \A i \in C : Need(reqs, opts)[i] \in Nat
           /\ Tally(Need(reqs, opts), C) \in Nat
  <1>1. n \in Nat /\ DOMAIN reqs = 1..n /\ opts.task \in Nat \ {0} /\ \A i \in 1..n : reqs[i].size \in Nat
    BY DEF IsBatch
  <1>2. IsFiniteSet(1..n)
    BY <1>1, FS_Interval
  <1>3. IsFiniteSet(C)
    BY <1>2, FS_Subset
  <1>4. \A i \in C : Chunks(reqs[i].size, opts.task) \in Nat
    BY <1>1, ChunkFacts
  <1>5. \A i \in C : Need(reqs, opts)[i] \in Nat
    BY <1>1, <1>4 DEF Need
  <1> QED
    BY <1>3, <1>5, TallyType

\* Two lists of transfers, one after the other.
Follows(ts, us, q, a, b) ==
    /\ a = Len(ts) /\ b = Len(us) /\ a \in Nat /\ b \in Nat /\ Len(q) = a + b
    /\ DOMAIN ts = 1..a /\ DOMAIN us = 1..b /\ DOMAIN q = 1..(a + b)
    /\ \A t \in 1..a : q[t] = ts[t]
    /\ \A t \in 1..b : q[a + t] = us[t]

\* The transfers of a concatenation.
LEMMA FollowsFacts ==
    ASSUME NEW X, NEW ts \in Seq(X), NEW us \in Seq(X)
    PROVE  ts \o us \in Seq(X) /\ Follows(ts, us, ts \o us, Len(ts), Len(us))
  <1>1. PICK q, a, b : q = ts \o us /\ a = Len(ts) /\ b = Len(us)
    OBVIOUS
  <1>2. a \in Nat /\ b \in Nat /\ q \in Seq(X) /\ DOMAIN ts = 1..a /\ DOMAIN us = 1..b
    BY <1>1
  <1>3. Len(q) = a + b
    BY <1>1
  <1>4. DOMAIN q = 1..(a + b)
    BY <1>2, <1>3
  <1>5. \A t \in 1..a : q[t] = ts[t]
    BY <1>1, <1>2
  <1>6. ASSUME NEW t \in 1..b PROVE q[a + t] = us[t]
    <2>1. a + t \in 1..(a + b) /\ ~(a + t <= a) /\ (a + t) - a = t
      BY <1>2
    <2> QED
      BY <1>1, <1>2, <2>1
  <1> QED
    BY <1>1, <1>2, <1>3, <1>4, <1>5, <1>6 DEF Follows

\* A transfer of the longer list is of the first or of the second.
LEMMA FollowsEither ==
    ASSUME NEW ts, NEW us, NEW q, NEW a, NEW b, Follows(ts, us, q, a, b), NEW t \in 1..(a + b)
    PROVE  \/ t \in 1..a /\ q[t] = ts[t]
           \/ \E u \in 1..b : t = a + u /\ q[t] = us[u]
  <1>1. a \in Nat /\ b \in Nat
    BY DEF Follows
  <1>2. CASE t <= a
    BY <1>1, <1>2 DEF Follows
  <1>3. CASE ~(t <= a)
    <2>1. t - a \in 1..b /\ a + (t - a) = t
      BY <1>1, <1>3
    <2> QED
      BY <2>1 DEF Follows
  <1> QED
    BY <1>2, <1>3

\* The bytes read for nothing add up.
LEMMA WasteAdds ==
    ASSUME NEW reqs, NEW n, NEW ts \in Seq(PlannedTransfers(reqs, n)),
           NEW us \in Seq(PlannedTransfers(reqs, n)), NEW q \in Seq(PlannedTransfers(reqs, n)),
           NEW a, NEW b, Follows(ts, us, q, a, b)
    PROVE  Waste(q) = Waste(ts) + Waste(us)
  <1>0. /\ a = Len(ts) /\ b = Len(us) /\ a \in Nat /\ b \in Nat /\ Len(q) = a + b
        /\ DOMAIN ts = 1..a /\ DOMAIN us = 1..b /\ DOMAIN q = 1..(a + b)
        /\ \A t \in 1..a : q[t] = ts[t]
        /\ \A t \in 1..b : q[a + t] = us[t]
    BY DEF Follows
  <1>1. PICK f, g, h, e : /\ f = Excess(ts) /\ g = Excess(us) /\ h = Excess(q)
                          /\ e = [t \in 1..b |-> a + t]
    OBVIOUS
  <1>2. \A t \in 1..a : f[t] \in Int
    BY <1>0, <1>1, ExcessType
  <1>3. \A t \in 1..b : g[t] \in Int
    BY <1>0, <1>1, ExcessType
  <1>4. \A t \in 1..(a + b) : h[t] \in Int
    BY <1>0, <1>1, ExcessType
  <1>5. IsFiniteSet(1..a) /\ IsFiniteSet(1..b) /\ IsFiniteSet((a + 1)..(a + b))
    <2>1. a + 1 \in Int /\ a + b \in Int /\ a \in Int /\ b \in Int
      BY <1>0
    <2> QED
      BY <2>1, FS_Interval
  <1>6. \A t \in 1..a : f[t] = h[t]
    <2> TAKE t \in 1..a
    <2>1. t \in 1..(a + b) /\ q[t] = ts[t]
      BY <1>0
    <2> QED
      BY <1>0, <1>1, <2>1 DEF Excess
  <1>7. \A t \in 1..b : e[t] = a + t /\ g[t] = h[e[t]] /\ h[e[t]] \in Int
    <2> TAKE t \in 1..b
    <2>1. a + t \in 1..(a + b) /\ q[a + t] = us[t] /\ e[t] = a + t
      BY <1>0, <1>1
    <2>2. h[a + t] = g[t]
      BY <1>0, <1>1, <2>1 DEF Excess
    <2> QED
      BY <1>4, <2>1, <2>2
  <1>8. Tally(f, 1..a) = Tally(h, 1..a)
    BY <1>2, <1>5, <1>6, TallyAgrees
  <1>9. \A t, u \in 1..b : e[t] = e[u] => t = u
    BY <1>0, <1>7
  <1>10. Tally(h, {e[t] : t \in 1..b}) = Tally(g, 1..b)
    <2>1. PICK S : S = 1..b
      OBVIOUS
    <2>2. /\ IsFiniteSet(S) /\ \A t, u \in S : e[t] = e[u] => t = u
          /\ \A t \in S : h[e[t]] \in Int /\ g[t] = h[e[t]]
      BY <1>5, <1>7, <1>9, <2>1
    <2>3. Tally(h, {e[t] : t \in S}) = Tally(g, S)
      BY <2>2, TallyOfImages
    <2> QED
      BY <2>1, <2>3
  <1>11. {e[t] : t \in 1..b} = (a + 1)..(a + b)
    <2>1. ASSUME NEW t \in 1..b PROVE e[t] \in (a + 1)..(a + b)
      BY <1>0, <1>7
    <2>2. ASSUME NEW u \in (a + 1)..(a + b) PROVE \E t \in 1..b : e[t] = u
      <3>1. u - a \in 1..b /\ a + (u - a) = u
        BY <1>0
      <3> QED
        BY <1>7, <3>1
    <2> QED
      BY <2>1, <2>2
  <1>12. /\ (1..a) \cup ((a + 1)..(a + b)) = 1..(a + b)
         /\ (1..a) \cap ((a + 1)..(a + b)) = {}
    BY <1>0
  <1>13. Tally(h, (1..a) \cup ((a + 1)..(a + b))) = Tally(h, 1..a) + Tally(h, (a + 1)..(a + b))
    <2>1. PICK S, U : S = 1..a /\ U = (a + 1)..(a + b)
      OBVIOUS
    <2>2. IsFiniteSet(S) /\ IsFiniteSet(U) /\ S \cap U = {} /\ \A t \in S \cup U : h[t] \in Int
      BY <1>4, <1>5, <1>12, <2>1
    <2>3. Tally(h, S \cup U) = Tally(h, S) + Tally(h, U)
      BY <2>2, TallyUnion
    <2> QED
      BY <2>1, <2>3
  <1>14. Waste(q) = Tally(h, 1..(a + b)) /\ Waste(ts) = Tally(f, 1..a) /\ Waste(us) = Tally(g, 1..b)
    BY <1>0, <1>1 DEF Waste
  <1> QED
    BY <1>8, <1>10, <1>11, <1>12, <1>13, <1>14

\* A list of transfers has no segment of a request it is not for.
Lacks(ts, i) == \A t \in 1..Len(ts) : \A k \in DOMAIN ts[t].segments : ts[t].segments[k].request # i

\* A sound list has segments of its own requests only.
LEMMA SoundLacks ==
    ASSUME NEW reqs, NEW opts, NEW ts, NEW C, Sound(reqs, opts, ts, C), NEW i, i \notin C
    PROVE  Lacks(ts, i)
  BY DEF Lacks, Sound, TransferOk, SegmentOk

\* Two sound lists are one for the requests of both.
LEMMA SoundAdds ==
    ASSUME NEW reqs, NEW opts, NEW C, NEW D, NEW ts, NEW us, NEW q, NEW a, NEW b,
           Follows(ts, us, q, a, b), Sound(reqs, opts, ts, C), Sound(reqs, opts, us, D)
    PROVE  Sound(reqs, opts, q, C \cup D)
  <1>1. a = Len(ts) /\ b = Len(us) /\ Len(q) = a + b
    BY DEF Follows
  <1>2. SUFFICES ASSUME NEW t \in 1..(a + b) PROVE TransferOk(reqs, opts, q[t], C \cup D)
    BY <1>1 DEF Sound
  <1>3. CASE t \in 1..a /\ q[t] = ts[t]
    <2>1. TransferOk(reqs, opts, q[t], C)
      BY <1>1, <1>3 DEF Sound
    <2> QED
      BY <2>1 DEF TransferOk, SegmentOk
  <1>4. CASE \E u \in 1..b : t = a + u /\ q[t] = us[u]
    <2>1. TransferOk(reqs, opts, q[t], D)
      BY <1>1, <1>4 DEF Sound
    <2> QED
      BY <2>1 DEF TransferOk, SegmentOk
  <1> QED
    BY <1>3, <1>4, FollowsEither

\* The carriers of a byte are where they were if the other list lacks the request.
LEMMA CarrierFirst ==
    ASSUME NEW reqs, NEW ts, NEW us, NEW q, NEW a, NEW b, Follows(ts, us, q, a, b),
           NEW i, NEW c, Lacks(us, i), OneCarrier(reqs, ts, i, c)
    PROVE  OneCarrier(reqs, q, i, c)
  <1>1. /\ a = Len(ts) /\ b = Len(us) /\ a \in Nat /\ b \in Nat /\ Len(q) = a + b
        /\ \A t \in 1..a : q[t] = ts[t]
    BY DEF Follows
  <1>2. ASSUME NEW t, NEW k, CarriedBy(reqs, ts, t, k, i, c) PROVE CarriedBy(reqs, q, t, k, i, c)
    <2>1. t \in 1..a /\ t \in 1..(a + b) /\ q[t] = ts[t]
      BY <1>1, <1>2 DEF CarriedBy
    <2> QED
      BY <1>1, <1>2, <2>1 DEF CarriedBy
  <1>3. ASSUME NEW t, NEW k, CarriedBy(reqs, q, t, k, i, c) PROVE CarriedBy(reqs, ts, t, k, i, c)
    <2>1. t \in 1..(a + b) /\ k \in DOMAIN q[t].segments /\ Carries(reqs, q[t], k, i, c)
      BY <1>1, <1>3 DEF CarriedBy
    <2>2. q[t].segments[k].request = i
      BY <2>1 DEF Carries
    <2>3. ~\E u \in 1..b : t = a + u /\ q[t] = us[u]
      BY <1>1, <2>1, <2>2 DEF Lacks
    <2>4. t \in 1..a /\ q[t] = ts[t]
      BY <2>1, <2>3, FollowsEither
    <2> QED
      BY <1>1, <2>1, <2>4 DEF CarriedBy
  <1> QED
    BY <1>2, <1>3 DEF OneCarrier

\* The same for the second list, whose transfers have moved.
LEMMA CarrierSecond ==
    ASSUME NEW reqs, NEW ts, NEW us, NEW q, NEW a, NEW b, Follows(ts, us, q, a, b),
           NEW i, NEW c, Lacks(ts, i), OneCarrier(reqs, us, i, c)
    PROVE  OneCarrier(reqs, q, i, c)
  <1>1. /\ a = Len(ts) /\ b = Len(us) /\ a \in Nat /\ b \in Nat /\ Len(q) = a + b
        /\ \A t \in 1..b : q[a + t] = us[t]
    BY DEF Follows
  <1>2. ASSUME NEW t, NEW k, CarriedBy(reqs, us, t, k, i, c) PROVE CarriedBy(reqs, q, a + t, k, i, c)
    <2>1. t \in 1..b /\ a + t \in 1..(a + b) /\ q[a + t] = us[t]
      BY <1>1, <1>2 DEF CarriedBy
    <2> QED
      BY <1>1, <1>2, <2>1 DEF CarriedBy
  <1>3. ASSUME NEW t, NEW k, CarriedBy(reqs, q, t, k, i, c)
        PROVE  \E u \in 1..b : t = a + u /\ CarriedBy(reqs, us, u, k, i, c)
    <2>1. t \in 1..(a + b) /\ k \in DOMAIN q[t].segments /\ Carries(reqs, q[t], k, i, c)
      BY <1>1, <1>3 DEF CarriedBy
    <2>2. q[t].segments[k].request = i
      BY <2>1 DEF Carries
    <2>3. ~(t \in 1..a /\ q[t] = ts[t])
      BY <1>1, <2>1, <2>2 DEF Lacks
    <2>4. PICK u \in 1..b : t = a + u /\ q[t] = us[u]
      BY <2>1, <2>3, FollowsEither
    <2> QED
      BY <1>1, <2>1, <2>4 DEF CarriedBy
  <1>4. \E t, k : CarriedBy(reqs, q, t, k, i, c)
    <2>1. PICK t, k : CarriedBy(reqs, us, t, k, i, c)
      BY DEF OneCarrier
    <2> QED
      BY <1>2, <2>1
  <1>5. ASSUME NEW t, NEW k, NEW u, NEW l,
               CarriedBy(reqs, q, t, k, i, c), CarriedBy(reqs, q, u, l, i, c)
        PROVE  t = u /\ k = l
    <2>1. PICK t1 \in 1..b : t = a + t1 /\ CarriedBy(reqs, us, t1, k, i, c)
      BY <1>3, <1>5
    <2>2. PICK u1 \in 1..b : u = a + u1 /\ CarriedBy(reqs, us, u1, l, i, c)
      BY <1>3, <1>5
    <2>3. t1 = u1 /\ k = l
      BY <2>1, <2>2 DEF OneCarrier
    <2> QED
      BY <2>1, <2>2, <2>3
  <1> QED
    BY <1>4, <1>5 DEF OneCarrier

\* The transfers that serve a request of the first list are where they were.
LEMMA ServesFirst ==
    ASSUME NEW ts, NEW us, NEW q, NEW a, NEW b, Follows(ts, us, q, a, b), NEW i, Lacks(us, i)
    PROVE  Serves(q, i) = Serves(ts, i)
  <1>1. /\ a = Len(ts) /\ b = Len(us) /\ a \in Nat /\ b \in Nat /\ Len(q) = a + b
        /\ DOMAIN ts = 1..a /\ DOMAIN us = 1..b /\ DOMAIN q = 1..(a + b)
        /\ \A t \in 1..a : q[t] = ts[t]
    BY DEF Follows
  <1>2. ASSUME NEW t \in Serves(ts, i) PROVE t \in Serves(q, i)
    <2>1. t \in 1..a /\ t \in 1..(a + b) /\ q[t] = ts[t]
      BY <1>1 DEF Serves
    <2> QED
      BY <1>1, <2>1 DEF Serves
  <1>3. ASSUME NEW t \in Serves(q, i) PROVE t \in Serves(ts, i)
    <2>1. t \in 1..(a + b)
      BY <1>1 DEF Serves
    <2>2. PICK k \in DOMAIN q[t].segments : q[t].segments[k].request = i
      BY DEF Serves
    <2>3. ~\E u \in 1..b : t = a + u /\ q[t] = us[u]
      BY <1>1, <2>2 DEF Lacks
    <2>4. t \in 1..a /\ q[t] = ts[t]
      BY <2>1, <2>3, FollowsEither
    <2> QED
      BY <1>1, <2>2, <2>4 DEF Serves
  <1> QED
    BY <1>2, <1>3

\* Those that serve a request of the second list have moved, and are as many.
LEMMA ServesSecond ==
    ASSUME NEW ts, NEW us, NEW q, NEW a, NEW b, Follows(ts, us, q, a, b), NEW i, Lacks(ts, i)
    PROVE  Cardinality(Serves(q, i)) = Cardinality(Serves(us, i))
  <1>1. /\ a = Len(ts) /\ b = Len(us) /\ a \in Nat /\ b \in Nat /\ Len(q) = a + b
        /\ DOMAIN ts = 1..a /\ DOMAIN us = 1..b /\ DOMAIN q = 1..(a + b)
        /\ \A t \in 1..b : q[a + t] = us[t]
    BY DEF Follows
  <1>2. PICK S, T : S = Serves(us, i) /\ T = Serves(q, i)
    OBVIOUS
  <1>3. S \in SUBSET (1..b) /\ T \in SUBSET (1..(a + b))
    BY <1>1, <1>2 DEF Serves
  <1>4. IsFiniteSet(S) /\ IsFiniteSet(T)
    <2>1. a + b \in Int /\ b \in Int
      BY <1>1
    <2>2. IsFiniteSet(1..b) /\ IsFiniteSet(1..(a + b))
      BY <2>1, FS_Interval
    <2> QED
      BY <1>3, <2>2, FS_Subset
  <1>5. PICK f : f = [t \in S |-> a + t]
    OBVIOUS
  <1>6. ASSUME NEW t \in S PROVE a + t \in T
    <2>0. t \in 1..b
      BY <1>3
    <2>1. t \in 1..b /\ a + t \in 1..(a + b) /\ q[a + t] = us[t]
      BY <1>1, <2>0
    <2>2. PICK k \in DOMAIN us[t].segments : us[t].segments[k].request = i
      BY <1>2 DEF Serves
    <2> QED
      BY <1>1, <1>2, <2>1, <2>2 DEF Serves
  <1>7. ASSUME NEW t \in T PROVE \E u \in S : f[u] = t
    <2>1. t \in 1..(a + b)
      BY <1>3
    <2>2. PICK k \in DOMAIN q[t].segments : q[t].segments[k].request = i
      BY <1>2 DEF Serves
    <2>3. ~(t \in 1..a /\ q[t] = ts[t])
      BY <1>1, <2>2 DEF Lacks
    <2>4. PICK u \in 1..b : t = a + u /\ q[t] = us[u]
      BY <2>1, <2>3, FollowsEither
    <2>5. u \in S
      BY <1>1, <1>2, <2>2, <2>4 DEF Serves
    <2> QED
      BY <1>5, <2>4, <2>5
  <1>8. f \in [S -> T] /\ \A t, u \in S : f[t] = f[u] => t = u
    <2>1. \A t \in S : t \in Int
      BY <1>3
    <2> QED
      BY <1>1, <1>5, <1>6, <2>1
  <1>9. f \in Injection(S, T) /\ f \in Surjection(S, T)
    BY <1>7, <1>8 DEF Injection, IsInjective, Surjection
  <1>10. Cardinality(S) = Cardinality(T)
    BY <1>4, <1>9, FS_Injection
  <1> QED
    BY <1>2, <1>10

\* What merging saved and what it reads for nothing add up.
LEMMA CheapAdds ==
    ASSUME NEW reqs, NEW opts, NEW n, IsBatch(reqs, opts, n),
           NEW C \in SUBSET (1..n), NEW D \in SUBSET (1..n), C \cap D = {},
           NEW ts \in Seq(PlannedTransfers(reqs, n)), NEW us \in Seq(PlannedTransfers(reqs, n)),
           NEW q \in Seq(PlannedTransfers(reqs, n)), NEW a, NEW b, Follows(ts, us, q, a, b),
           Cheap(reqs, opts, ts, C), Cheap(reqs, opts, us, D)
    PROVE  Cheap(reqs, opts, q, C \cup D)
  <1>1. PICK nd, c, d, e : /\ nd = Need(reqs, opts) /\ c = Tally(nd, C) /\ d = Tally(nd, D)
                           /\ e = Tally(nd, C \cup D)
    OBVIOUS
  <1>2. IsFiniteSet(C) /\ \A i \in C : nd[i] \in Nat
    BY <1>1, NeedType
  <1>3. IsFiniteSet(D) /\ \A i \in D : nd[i] \in Nat
    BY <1>1, NeedType
  <1>4. e = c + d
    <2>1. \A i \in C \cup D : nd[i] \in Int
      BY <1>2, <1>3
    <2> QED
      BY <1>1, <1>2, <1>3, <2>1, TallyUnion
  <1>5. c \in Nat /\ d \in Nat
    BY <1>1, NeedType
  <1>6. a = Len(ts) /\ b = Len(us) /\ a \in Nat /\ b \in Nat /\ Len(q) = a + b
    BY DEF Follows
  <1>7. PICK w, v : w = Waste(ts) /\ v = Waste(us)
    OBVIOUS
  <1>8. Waste(q) = w + v /\ w \in Int /\ v \in Int
    BY <1>7, WasteAdds, ExcessType
  <1>9. a <= c /\ b <= d /\ w <= Spare(opts, c - a) /\ v <= Spare(opts, d - b)
    BY <1>1, <1>6, <1>7 DEF Cheap
  <1>10. Spare(opts, c - a) + Spare(opts, d - b) = Spare(opts, (c + d) - (a + b))
         /\ Spare(opts, c - a) \in Int /\ Spare(opts, d - b) \in Int
    <2>1. CASE opts.gap = NoGap
      BY <2>1 DEF Spare
    <2>2. CASE opts.gap # NoGap
      <3>1. PICK x : x = opts.gap
        OBVIOUS
      <3>2. x \in Int
        BY <2>2, <3>1 DEF IsBatch
      <3>3. PICK y, z : y = c - a /\ z = d - b
        OBVIOUS
      <3>4. y \in Int /\ z \in Int /\ (c + d) - (a + b) = y + z
        BY <1>5, <1>6, <3>3
      <3>5. x * (y + z) = x * y + x * z /\ x * y \in Int /\ x * z \in Int
        BY <3>2, <3>4
      <3> QED
        BY <2>2, <3>1, <3>3, <3>4, <3>5 DEF Spare
    <2> QED
      BY <2>1, <2>2
  <1>11. a + b <= c + d
    BY <1>5, <1>6, <1>9
  <1>12. w + v <= Spare(opts, (c + d) - (a + b))
    BY <1>8, <1>9, <1>10
  <1> QED
    BY <1>1, <1>4, <1>6, <1>8, <1>11, <1>12 DEF Cheap

\* The plans of two disjoint sets of requests are together one for all of them.
LEMMA GoodPlanAdds ==
    ASSUME NEW reqs, NEW opts, NEW n, IsBatch(reqs, opts, n),
           NEW ts, NEW us, NEW C, NEW D, C \cap D = {},
           GoodPlan(reqs, opts, n, ts, C), GoodPlan(reqs, opts, n, us, D)
    PROVE  GoodPlan(reqs, opts, n, ts \o us, C \cup D)
  <1>1. /\ ts \in Seq(PlannedTransfers(reqs, n)) /\ C \in SUBSET (1..n)
        /\ Sound(reqs, opts, ts, C) /\ Tiled(reqs, ts, C)
        /\ Served(reqs, opts, ts, C) /\ Cheap(reqs, opts, ts, C)
    BY DEF GoodPlan
  <1>2. /\ us \in Seq(PlannedTransfers(reqs, n)) /\ D \in SUBSET (1..n)
        /\ Sound(reqs, opts, us, D) /\ Tiled(reqs, us, D)
        /\ Served(reqs, opts, us, D) /\ Cheap(reqs, opts, us, D)
    BY DEF GoodPlan
  <1>3. PICK q, a, b : q = ts \o us /\ a = Len(ts) /\ b = Len(us)
    OBVIOUS
  <1>4. q \in Seq(PlannedTransfers(reqs, n)) /\ Follows(ts, us, q, a, b)
    BY <1>1, <1>2, <1>3, FollowsFacts
  <1>5. Sound(reqs, opts, q, C \cup D)
    BY <1>1, <1>2, <1>4, SoundAdds
  <1>6. ASSUME NEW i \in C PROVE Lacks(us, i)
    BY <1>2, SoundLacks
  <1>7. ASSUME NEW i \in D PROVE Lacks(ts, i)
    BY <1>1, SoundLacks
  <1>8. Tiled(reqs, q, C \cup D)
    <2> SUFFICES ASSUME NEW i \in C \cup D, NEW c \in 0..(reqs[i].size - 1)
                 PROVE  OneCarrier(reqs, q, i, c)
      BY DEF Tiled
    <2>1. CASE i \in C
      <3>1. OneCarrier(reqs, ts, i, c)
        BY <1>1, <2>1 DEF Tiled
      <3> QED
        BY <1>4, <1>6, <2>1, <3>1, CarrierFirst
    <2>2. CASE i \in D
      <3>1. OneCarrier(reqs, us, i, c)
        BY <1>2, <2>2 DEF Tiled
      <3> QED
        BY <1>4, <1>7, <2>2, <3>1, CarrierSecond
    <2> QED
      BY <2>1, <2>2
  <1>9. Served(reqs, opts, q, C \cup D)
    <2> SUFFICES ASSUME NEW i \in C \cup D
                 PROVE  Cardinality(Serves(q, i)) \in 1..Chunks(reqs[i].size, opts.task)
      BY DEF Served
    <2>1. CASE i \in C
      <3>1. Serves(q, i) = Serves(ts, i)
        BY <1>4, <1>6, <2>1, ServesFirst
      <3> QED
        BY <1>1, <2>1, <3>1 DEF Served
    <2>2. CASE i \in D
      <3>1. Cardinality(Serves(q, i)) = Cardinality(Serves(us, i))
        BY <1>4, <1>7, <2>2, ServesSecond
      <3> QED
        BY <1>2, <2>2, <3>1 DEF Served
    <2> QED
      BY <2>1, <2>2
  <1>10. Cheap(reqs, opts, q, C \cup D)
    BY <1>1, <1>2, <1>4, CheapAdds
  <1>11. C \cup D \in SUBSET (1..n)
    BY <1>1, <1>2
  <1> QED
    BY <1>3, <1>4, <1>5, <1>8, <1>9, <1>10, <1>11 DEF GoodPlan

-------------------------------------------------------------------------------
(* The transfers of one run.                                               *)

\* A sum with one summand.
LEMMA TallyOfOne ==
    ASSUME NEW f, NEW x, f[x] \in Int
    PROVE  Tally(f, {x}) = f[x]
  <1>1. IsFiniteSet({}) /\ x \notin {} /\ (\A y \in {} \cup {x} : f[y] \in Int) /\ {} \cup {x} = {x}
    BY FS_EmptySet
  <1>2. Tally(f, {} \cup {x}) = Tally(f, {}) + f[x]
    BY <1>1, TallyGrows
  <1> QED
    BY <1>1, <1>2, TallyOfNone

\* No transfer is a plan for no request.
LEMMA GoodPlanEmpty ==
    ASSUME NEW reqs, NEW opts, NEW n, IsBatch(reqs, opts, n)
    PROVE  GoodPlan(reqs, opts, n, <<>>, {})
  <1>1. PICK ts : ts = <<>>
    OBVIOUS
  <1>2. ts \in Seq(PlannedTransfers(reqs, n)) /\ Len(ts) = 0 /\ DOMAIN ts = {}
    BY <1>1
  <1>3. Waste(ts) = 0
    BY <1>2, TallyOfNone DEF Waste
  <1>4. Spare(opts, 0 - 0) = 0
    BY DEF Spare, IsBatch
  <1>5. Cheap(reqs, opts, ts, {})
    BY <1>2, <1>3, <1>4, TallyOfNone DEF Cheap
  <1>6. Sound(reqs, opts, ts, {}) /\ Tiled(reqs, ts, {}) /\ Served(reqs, opts, ts, {})
    BY <1>2 DEF Sound, Tiled, Served
  <1> QED
    BY <1>1, <1>2, <1>5, <1>6 DEF GoodPlan

\* The place and the size of chunk k of a request of z bytes.
ChunkPlace(z, T, at, m) ==
    /\ at \in Nat /\ m \in 1..T /\ at + m <= z
    /\ \A b \in 0..(z - 1) : b - at \in 0..(m - 1) <=> at <= b /\ b < at + T

\* Every chunk is in the request, is not empty and is at most task_size.
LEMMA ChunkAt ==
    ASSUME NEW z \in Nat, NEW T \in Nat \ {0}, NEW k \in 1..Chunks(z, T),
           NEW at, at = (k - 1) * T, NEW m, m = Min({z - at, T})
    PROVE  ChunkPlace(z, T, at, m)
  <1>1. PICK N : N = Chunks(z, T)
    OBVIOUS
  <1>2. N \in Nat /\ (z > 0 => (N - 1) * T < z) /\ (z = 0 <=> N = 0)
    BY <1>1, ChunkFacts
  <1>3. k \in 1..N /\ k - 1 \in Nat
    BY <1>1, <1>2
  <1>4. z > 0 /\ (N - 1) * T < z
    BY <1>2, <1>3
  <1>5. PICK p, q : p = k - 1 /\ q = N - 1
    OBVIOUS
  <1>6. p \in Nat /\ q \in Nat /\ p <= q
    BY <1>2, <1>3, <1>5
  <1>7. p * T \in Nat /\ q * T \in Nat /\ p * T <= q * T
    BY <1>6
  <1>8. at \in Nat /\ at < z
    BY <1>4, <1>5, <1>7
  <1>9. m = IF z - at <= T THEN z - at ELSE T
    BY <1>8, MinOfTwo
  <1>10. m \in 1..T /\ at + m <= z
    BY <1>8, <1>9
  <1>11. ASSUME NEW b \in 0..(z - 1)
         PROVE  b - at \in 0..(m - 1) <=> at <= b /\ b < at + T
    BY <1>8, <1>9, <1>10
  <1> QED
    BY <1>8, <1>10, <1>11 DEF ChunkPlace

\* A transfer with one segment wants this segment.
LEMMA WantedOne ==
    ASSUME NEW x, NEW s, x.segments = <<s>>, s.length \in Int
    PROVE  Wanted(x) = s.length
  <1>1. PICK f : f = [k \in DOMAIN x.segments |-> x.segments[k].length]
    OBVIOUS
  <1>2. DOMAIN <<s>> = {1} /\ <<s>>[1] = s
    OBVIOUS
  <1>3. DOMAIN f = {1} /\ f[1] = s.length
    BY <1>1, <1>2
  <1>4. Wanted(x) = Tally(f, {1})
    BY <1>1, <1>3, SumOfTally DEF Wanted
  <1> QED
    BY <1>3, <1>4, TallyOfOne

\* What split_request() gives chunk k.
IsChunk(reqs, i, T, x, k) ==
    \E at, m : /\ at = (k - 1) * T /\ m = Min({reqs[i].size - at, T})
               /\ x = [key |-> reqs[i].key, off |-> reqs[i].off + at, size |-> m,
                       segments |-> <<Segment(0, m, at, i)>>]

ChunkOk(reqs, opts, n, i, T, k, x) ==
    /\ x \in PlannedTransfers(reqs, n) /\ TransferOk(reqs, opts, x, {i})
    /\ DOMAIN x.segments = {1} /\ x.segments[1].request = i
    /\ \A b \in 0..(reqs[i].size - 1) :
          Carries(reqs, x, 1, i, b) <=> (k - 1) * T <= b /\ b < (k - 1) * T + T
    /\ x.size = Wanted(x)

\* The transfers of split_request() are the chunks.
LEMMA SplitChunks ==
    ASSUME NEW reqs, NEW i, NEW T, NEW k \in 1..Chunks(reqs[i].size, T)
    PROVE  IsChunk(reqs, i, T, SplitRequest(reqs, i, T)[k], k)
  BY DEF IsChunk, SplitRequest

\* A chunk is within task_size and the request, carries its own bytes and reads no other.
LEMMA ChunkGood ==
    ASSUME NEW reqs, NEW opts, NEW n, IsBatch(reqs, opts, n), NEW i \in 1..n,
           NEW T, T = opts.task, NEW k \in 1..Chunks(reqs[i].size, T),
           NEW x, IsChunk(reqs, i, T, x, k)
    PROVE  ChunkOk(reqs, opts, n, i, T, k, x)
  <1>1. reqs[i].size \in Nat /\ reqs[i].off \in Nat /\ T \in Nat \ {0} /\ i \in Nat
    BY DEF IsBatch
  <1>2. PICK at, m : /\ at = (k - 1) * T /\ m = Min({reqs[i].size - at, T})
                     /\ x = [key |-> reqs[i].key, off |-> reqs[i].off + at, size |-> m,
                             segments |-> <<Segment(0, m, at, i)>>]
    BY DEF IsChunk
  <1>3. /\ at \in Nat /\ m \in 1..T /\ at + m <= reqs[i].size
        /\ \A b \in 0..(reqs[i].size - 1) : b - at \in 0..(m - 1) <=> at <= b /\ b < at + T
    <2>1. PICK z : z = reqs[i].size
      OBVIOUS
    <2>2. z \in Nat /\ k \in 1..Chunks(z, T) /\ at = (k - 1) * T /\ m = Min({z - at, T})
      BY <1>1, <1>2, <2>1
    <2>3. ChunkPlace(z, T, at, m)
      BY <1>1, <2>2, ChunkAt
    <2> QED
      BY <2>1, <2>3 DEF ChunkPlace
  <1>4. PICK s : s = Segment(0, m, at, i)
    OBVIOUS
  <1>5. s.at = 0 /\ s.length = m /\ s.buf = at /\ s.request = i /\ s \in PlannedSegments
    BY <1>1, <1>3, <1>4 DEF Segment, PlannedSegments
  <1>6. x.key = reqs[i].key /\ x.off = reqs[i].off + at /\ x.size = m /\ x.segments = <<s>>
    BY <1>2, <1>4
  <1>7. DOMAIN x.segments = {1} /\ x.segments[1] = s
    BY <1>6
  <1>8. x \in PlannedTransfers(reqs, n)
    <2>1. reqs[i].key \in {reqs[j].key : j \in 1..n} /\ reqs[i].off + at \in Int /\ m \in Int
      BY <1>1, <1>3
    <2>2. <<s>> \in Seq(PlannedSegments)
      BY <1>5
    <2> QED
      BY <1>2, <1>4, <2>1, <2>2 DEF PlannedTransfers
  <1>9. TransferOk(reqs, opts, x, {i})
    <2>1. x.size \in 1..opts.task
      BY <1>3, <1>6
    <2>2. SegmentOk(reqs, x, s, {i})
      BY <1>1, <1>3, <1>5, <1>6 DEF SegmentOk
    <2> QED
      BY <1>7, <2>1, <2>2 DEF TransferOk
  <1>10. ASSUME NEW b \in 0..(reqs[i].size - 1)
         PROVE  Carries(reqs, x, 1, i, b) <=> at <= b /\ b < at + T
    <2>1. Carries(reqs, x, 1, i, b) <=>
             /\ b - at \in 0..(m - 1)
             /\ (reqs[i].off + at) + 0 + (b - at) = reqs[i].off + b
      BY <1>5, <1>6, <1>7 DEF Carries
    <2>2. (reqs[i].off + at) + 0 + (b - at) = reqs[i].off + b
      BY <1>1, <1>3
    <2> QED
      BY <1>3, <2>1, <2>2
  <1>11. Wanted(x) = m
    <2>1. s.length \in Int
      BY <1>3, <1>5
    <2> QED
      BY <1>5, <1>6, <2>1, WantedOne
  <1> QED
    BY <1>2, <1>5, <1>6, <1>7, <1>8, <1>9, <1>10, <1>11 DEF ChunkOk

\* A list without waste.
LEMMA NoWaste ==
    ASSUME NEW reqs, NEW n, NEW ts \in Seq(PlannedTransfers(reqs, n)),
           \A t \in 1..Len(ts) : ts[t].size = Wanted(ts[t])
    PROVE  Waste(ts) = 0
  <1>1. PICK f, S : f = Excess(ts) /\ S = 1..Len(ts)
    OBVIOUS
  <1>2. Len(ts) \in Nat /\ DOMAIN ts = S /\ IsFiniteSet(S)
    BY <1>1, ExcessType
  <1>3. \A t \in S : f[t] = 0
    <2> TAKE t \in S
    <2>1. ts[t] \in PlannedTransfers(reqs, n)
      BY <1>1
    <2>2. Wanted(ts[t]) \in Int
      BY <2>1, WantedType
    <2> QED
      BY <1>1, <1>2, <2>2 DEF Excess
  <1>4. Tally(f, S) = 0 * Cardinality(S)
    BY <1>2, <1>3, TallyOfEqual
  <1>5. Cardinality(S) \in Nat
    BY <1>2, FS_CardinalityType
  <1>6. 0 * Cardinality(S) = 0
    BY <1>5
  <1> QED
    BY <1>1, <1>2, <1>4, <1>6 DEF Waste

\* The transfers of split_request() are a plan for the request.
LEMMA SplitGood ==
    ASSUME NEW reqs, NEW opts, NEW n, IsBatch(reqs, opts, n), NEW i \in 1..n, reqs[i].size > 0
    PROVE  GoodPlan(reqs, opts, n, SplitRequest(reqs, i, opts.task), {i})
  <1>1. PICK T, z, N, ts : /\ T = opts.task /\ z = reqs[i].size /\ N = Chunks(z, T)
                           /\ ts = SplitRequest(reqs, i, T)
    OBVIOUS
  <1>2. z \in Nat /\ z > 0 /\ T \in Nat \ {0} /\ DOMAIN reqs = 1..n
    BY <1>1 DEF IsBatch
  <1>3. N \in Nat /\ z <= N * T /\ N # 0
    <2>1. /\ Chunks(z, T) \in Nat /\ z <= Chunks(z, T) * T
          /\ z = 0 <=> Chunks(z, T) = 0
      BY <1>2, ChunkFacts
    <2> QED
      BY <1>1, <1>2, <2>1
  <1>4. ASSUME NEW k \in 1..N
        PROVE  /\ ts[k] \in PlannedTransfers(reqs, n) /\ TransferOk(reqs, opts, ts[k], {i})
               /\ DOMAIN ts[k].segments = {1} /\ ts[k].segments[1].request = i
               /\ \A b \in 0..(z - 1) :
                     Carries(reqs, ts[k], 1, i, b) <=> (k - 1) * T <= b /\ b < (k - 1) * T + T
               /\ ts[k].size = Wanted(ts[k])
    <2>1. PICK x : x = ts[k]
      OBVIOUS
    <2>2. IsChunk(reqs, i, T, x, k)
      BY <1>1, <2>1, SplitChunks
    <2>3. k \in 1..Chunks(reqs[i].size, T)
      BY <1>1
    <2>4. ChunkOk(reqs, opts, n, i, T, k, x)
      BY <1>1, <2>2, <2>3, ChunkGood
    <2> QED
      BY <1>1, <2>1, <2>4 DEF ChunkOk
  <1>5. DOMAIN ts = 1..N /\ ts \in [1..N -> PlannedTransfers(reqs, n)]
    <2>1. PICK e : ts = [k \in 1..N |-> e[k]]
      <3>1. ts = [k \in 1..N |-> ts[k]]
        BY <1>1 DEF SplitRequest
      <3> QED
        BY <3>1
    <2> QED
      BY <1>4, <2>1
  <1>6. ts \in Seq(PlannedTransfers(reqs, n)) /\ Len(ts) = N
    BY <1>3, <1>5
  <1>7. Sound(reqs, opts, ts, {i})
    BY <1>4, <1>6 DEF Sound
  <1>8. Tiled(reqs, ts, {i})
    <2> SUFFICES ASSUME NEW b \in 0..(z - 1) PROVE OneCarrier(reqs, ts, i, b)
      BY <1>1 DEF Tiled
    <2> DEFINE On(k) == (k - 1) * T <= b /\ b < (k - 1) * T + T
    <2>1. b \in Nat /\ b < N * T
      BY <1>2, <1>3
    <2>2. (\E k \in 1..N : On(k)) /\ \A j, k \in 1..N : On(j) /\ On(k) => j = k
      BY <1>2, <1>3, <2>1, ByteChunk
    <2>3. ASSUME NEW k \in 1..N PROVE On(k) <=> CarriedBy(reqs, ts, k, 1, i, b)
      BY <1>4, <1>6 DEF CarriedBy
    <2>4. ASSUME NEW t, NEW k, CarriedBy(reqs, ts, t, k, i, b) PROVE k = 1 /\ t \in 1..N
      BY <1>4, <1>6, <2>4 DEF CarriedBy
    <2> HIDE DEF On
    <2> QED
      BY <2>2, <2>3, <2>4 DEF OneCarrier
  <1>9. Served(reqs, opts, ts, {i})
    <2>1. Serves(ts, i) = 1..N
      BY <1>4, <1>5 DEF Serves
    <2>2. Cardinality(1..N) = N
      BY <1>3, FS_Interval
    <2>3. N \in 1..N
      BY <1>3
    <2> QED
      BY <1>1, <2>1, <2>2, <2>3 DEF Served
  <1>10. Cheap(reqs, opts, ts, {i})
    <2>1. Need(reqs, opts)[i] = N
      BY <1>1, <1>2 DEF Need
    <2>2. Tally(Need(reqs, opts), {i}) = N
      <3>1. PICK f : f = Need(reqs, opts)
        OBVIOUS
      <3>2. f[i] = N /\ f[i] \in Int
        BY <1>3, <2>1, <3>1
      <3>3. Tally(f, {i}) = f[i]
        BY <3>2, TallyOfOne
      <3> QED
        BY <3>1, <3>2, <3>3
    <2>3. Waste(ts) = 0
      BY <1>4, <1>6, NoWaste
    <2>4. N - N = 0 /\ Spare(opts, 0) = 0
      BY <1>3 DEF Spare, IsBatch
    <2> QED
      BY <1>3, <1>6, <2>2, <2>3, <2>4 DEF Cheap
  <1> QED
    BY <1>1, <1>6, <1>7, <1>8, <1>9, <1>10 DEF GoodPlan

Members(run) == {run[k] : k \in 1..Len(run)}

\* What merge_requests() gives a run from begin on.
IsMerge(reqs, key, run, m, begin, span, x) ==
    /\ x = [key |-> key, off |-> begin, size |-> span,
            segments |-> [k \in 1..m |-> Segment(reqs[run[k]].off - begin, reqs[run[k]].size, 0, run[k])]]
    /\ m = Len(run) /\ m \in Nat /\ m > 1
    /\ begin \in Nat /\ span \in Int
    /\ \A k \in 1..m : /\ run[k] \in Nat /\ reqs[run[k]].key = key
                       /\ reqs[run[k]].off \in Nat /\ reqs[run[k]].size \in Nat /\ reqs[run[k]].size > 0
                       /\ begin <= reqs[run[k]].off
                       /\ (reqs[run[k]].off - begin) + reqs[run[k]].size <= span
    /\ \A j, k \in 1..m : run[j] = run[k] => j = k

\* merge_requests() makes one transfer over the span of a good run.
LEMMA MergeFacts ==
    ASSUME NEW reqs, NEW opts, NEW n, IsBatch(reqs, opts, n), NEW key, NEW run,
           GoodRun(reqs, opts, key, run), Len(run) > 1
    PROVE  \E x : /\ MergeRequests(reqs, run) = <<x>>
                  /\ IsMerge(reqs, key, run, Len(run), reqs[run[1]].off, RunSpan(reqs, run), x)
  <1>1. PICK m, begin, span : m = Len(run) /\ begin = reqs[run[1]].off /\ span = RunSpan(reqs, run)
    OBVIOUS
  <1>2. /\ run \in Seq(Nat) /\ m \in Nat /\ m > 1 /\ DOMAIN run = 1..m
        /\ \A k \in 1..m : run[k] \in InGroup(reqs, key)
        /\ \A j, k \in 1..m : run[j] = run[k] => j = k
    BY <1>1 DEF GoodRun, RunOf
  <1>3. /\ \A k \in 1..m : /\ run[k] \in Nat /\ reqs[run[k]].key = key
                           /\ reqs[run[k]].off \in Nat /\ reqs[run[k]].size \in Nat
                           /\ reqs[run[k]].size > 0
                           /\ End(reqs[run[k]]) = reqs[run[k]].off + reqs[run[k]].size
    BY <1>2, InGroupFacts
  <1>4. /\ \A k \in 1..m : /\ begin <= reqs[run[k]].off
                           /\ End(reqs[run[k]]) <= End(reqs[run[m]])
    BY <1>1 DEF GoodRun, RunInSpan
  <1>5. 1 \in 1..m /\ m \in 1..m
    BY <1>2
  <1>6. span = End(reqs[run[m]]) - begin /\ begin \in Nat /\ End(reqs[run[m]]) \in Nat
    BY <1>1, <1>3, <1>5 DEF RunSpan
  <1>7. ASSUME NEW k \in 1..m PROVE (reqs[run[k]].off - begin) + reqs[run[k]].size <= span
    <2>1. PICK o, z, e : o = reqs[run[k]].off /\ z = reqs[run[k]].size /\ e = End(reqs[run[m]])
      OBVIOUS
    <2>2. o \in Nat /\ z \in Nat /\ e \in Nat /\ o + z <= e /\ span = e - begin
      BY <1>3, <1>4, <1>6, <2>1
    <2>3. (o - begin) + z <= span
      BY <1>6, <2>2
    <2> QED
      BY <2>1, <2>3
  <1>8. Head(run) = run[1] /\ Last(run) = run[m]
    BY <1>1, <1>2 DEF Last
  <1>9. PICK x : x = [key |-> key, off |-> begin, size |-> span,
                      segments |-> [k \in 1..m |-> Segment(reqs[run[k]].off - begin, reqs[run[k]].size, 0, run[k])]]
    OBVIOUS
  <1>10. reqs[run[1]].key = key
    BY <1>3, <1>5
  <1>11. MergeRequests(reqs, run) = <<x>>
    BY <1>1, <1>2, <1>6, <1>8, <1>9, <1>10 DEF MergeRequests
  <1>12. IsMerge(reqs, key, run, m, begin, span, x)
    BY <1>1, <1>2, <1>3, <1>4, <1>6, <1>7, <1>9 DEF IsMerge
  <1> QED
    BY <1>1, <1>11, <1>12

\* The segments of a merged transfer.
LEMMA MergeSegments ==
    ASSUME NEW reqs, NEW key, NEW run, NEW m, NEW begin, NEW span, NEW x,
           IsMerge(reqs, key, run, m, begin, span, x)
    PROVE  /\ x.key = key /\ x.off = begin /\ x.size = span /\ DOMAIN x.segments = 1..m
           /\ x.segments \in Seq(PlannedSegments) /\ Len(x.segments) = m
           /\ \A k \in 1..m : /\ x.segments[k].at = reqs[run[k]].off - begin
                              /\ x.segments[k].length = reqs[run[k]].size
                              /\ x.segments[k].buf = 0 /\ x.segments[k].request = run[k]
  <1>1. PICK s : s = [k \in 1..m |-> Segment(reqs[run[k]].off - begin, reqs[run[k]].size, 0, run[k])]
    OBVIOUS
  <1>2. x.key = key /\ x.off = begin /\ x.size = span /\ x.segments = s /\ m \in Nat
    BY <1>1 DEF IsMerge
  <1>3. ASSUME NEW k \in 1..m
        PROVE  /\ s[k].at = reqs[run[k]].off - begin /\ s[k].length = reqs[run[k]].size
               /\ s[k].buf = 0 /\ s[k].request = run[k] /\ s[k] \in PlannedSegments
    <2>1. PICK r, o, z : r = run[k] /\ o = reqs[run[k]].off - begin /\ z = reqs[run[k]].size
      OBVIOUS
    <2>2. r \in Nat /\ o \in Int /\ z \in Int
      BY <2>1 DEF IsMerge
    <2>3. s[k] = Segment(o, z, 0, r)
      BY <1>1, <2>1
    <2> QED
      BY <2>1, <2>2, <2>3 DEF Segment, PlannedSegments
  <1>4. DOMAIN s = 1..m
    BY <1>1
  <1>5. s \in [1..m -> PlannedSegments]
    <2>1. s = [k \in 1..m |-> s[k]]
      BY <1>1
    <2> QED
      BY <1>3, <2>1
  <1>6. s \in Seq(PlannedSegments) /\ Len(s) = m
    BY <1>2, <1>5
  <1> QED
    BY <1>2, <1>3, <1>4, <1>6

\* A merged transfer wants the bytes of its requests.
LEMMA MergeWanted ==
    ASSUME NEW reqs, NEW key, NEW run, NEW m, NEW begin, NEW span, NEW x,
           IsMerge(reqs, key, run, m, begin, span, x)
    PROVE  Wanted(x) = Tally(RunSizes(reqs, run), 1..m) /\ Wanted(x) \in Int
  <1>1. PICK f, h, S : /\ f = [k \in DOMAIN x.segments |-> x.segments[k].length]
                       /\ h = RunSizes(reqs, run) /\ S = 1..m
    OBVIOUS
  <1>2. /\ DOMAIN x.segments = S /\ m \in Nat /\ m = Len(run)
        /\ \A k \in S : x.segments[k].length = reqs[run[k]].size /\ reqs[run[k]].size \in Nat
    <2>1. /\ DOMAIN x.segments = 1..m
          /\ \A k \in 1..m : x.segments[k].length = reqs[run[k]].size
      BY MergeSegments
    <2>2. m \in Nat /\ m = Len(run) /\ \A k \in 1..m : reqs[run[k]].size \in Nat
      BY DEF IsMerge
    <2> QED
      BY <1>1, <2>1, <2>2
  <1>3. \A k \in S : f[k] \in Int /\ f[k] = h[k]
    BY <1>1, <1>2 DEF RunSizes
  <1>4. DOMAIN f = S
    BY <1>1, <1>2
  <1>5. IsFiniteSet(S)
    BY <1>1, <1>2, FS_Interval
  <1>6. Tally(f, S) = Tally(h, S)
    BY <1>3, <1>5, TallyAgrees
  <1>7. Tally(f, S) \in Int
    BY <1>3, <1>5, TallyType
  <1>8. Wanted(x) = SumOf(f)
    BY <1>1 DEF Wanted
  <1> QED
    BY <1>1, <1>4, <1>6, <1>7, <1>8, SumOfTally

\* Every byte of a merged request has one carrier, the request's own segment.
LEMMA MergeTiles ==
    ASSUME NEW reqs, NEW key, NEW run, NEW m, NEW begin, NEW span, NEW x,
           IsMerge(reqs, key, run, m, begin, span, x), NEW ts, ts = <<x>>
    PROVE  Tiled(reqs, ts, Members(run))
  <1>0. Len(ts) = 1 /\ ts[1] = x
    OBVIOUS
  <1>1. /\ x.key = key /\ x.off = begin /\ DOMAIN x.segments = 1..m
        /\ \A k \in 1..m : /\ x.segments[k].at = reqs[run[k]].off - begin
                           /\ x.segments[k].length = reqs[run[k]].size
                           /\ x.segments[k].buf = 0 /\ x.segments[k].request = run[k]
    BY MergeSegments
  <1>2. /\ m = Len(run) /\ begin \in Nat /\ \A j, k \in 1..m : run[j] = run[k] => j = k
        /\ \A k \in 1..m : /\ reqs[run[k]].key = key
                           /\ reqs[run[k]].off \in Nat /\ reqs[run[k]].size \in Nat
    BY DEF IsMerge
  <1>3. SUFFICES ASSUME NEW j \in 1..m, NEW i, i = run[j], NEW b \in 0..(reqs[i].size - 1)
                 PROVE  OneCarrier(reqs, ts, i, b)
    BY <1>2 DEF Tiled, Members
  <1>4. Carries(reqs, x, j, i, b)
    <2>1. PICK o, z : o = reqs[i].off /\ z = reqs[i].size
      OBVIOUS
    <2>2. o \in Nat /\ z \in Nat /\ b \in 0..(z - 1)
      BY <1>2, <1>3, <2>1
    <2>3. b - 0 \in 0..(z - 1) /\ begin + (o - begin) + (b - 0) = o + b
      BY <1>2, <2>2
    <2>4. /\ x.segments[j].at = o - begin /\ x.segments[j].length = z
          /\ x.segments[j].buf = 0 /\ x.segments[j].request = i
          /\ x.key = reqs[i].key /\ x.off = begin
      BY <1>1, <1>2, <1>3, <2>1
    <2> QED
      BY <2>1, <2>3, <2>4 DEF Carries
  <1>5. 1 \in 1..Len(ts)
    BY <1>0
  <1>6. CarriedBy(reqs, ts, 1, j, i, b)
    BY <1>0, <1>1, <1>4, <1>5 DEF CarriedBy
  <1>7. ASSUME NEW t, NEW k, CarriedBy(reqs, ts, t, k, i, b) PROVE t = 1 /\ k = j
    <2>1. t = 1
      BY <1>0, <1>7 DEF CarriedBy
    <2>2. k \in 1..m /\ x.segments[k].request = i
      BY <1>0, <1>1, <1>7, <2>1 DEF CarriedBy, Carries
    <2>3. run[k] = run[j]
      BY <1>1, <1>3, <2>2
    <2> QED
      BY <1>2, <2>1, <2>2, <2>3
  <1> QED
    BY <1>6, <1>7 DEF OneCarrier

\* The transfer of merge_requests() is a plan for the requests of the run: it is one where they
\* would need one each, and reads a gap at most for each one saved.
LEMMA MergeGood ==
    ASSUME NEW reqs, NEW opts, NEW n, IsBatch(reqs, opts, n), NEW key, NEW run,
           GoodRun(reqs, opts, key, run), Len(run) > 1
    PROVE  GoodPlan(reqs, opts, n, MergeRequests(reqs, run), Members(run))
  <1>1. PICK m, begin, span : m = Len(run) /\ begin = reqs[run[1]].off /\ span = RunSpan(reqs, run)
    OBVIOUS
  <1>2. PICK x : MergeRequests(reqs, run) = <<x>> /\ IsMerge(reqs, key, run, m, begin, span, x)
    BY <1>1, MergeFacts
  <1>3. PICK ts : ts = <<x>>
    OBVIOUS
  <1>4. /\ x.key = key /\ x.off = begin /\ x.size = span /\ DOMAIN x.segments = 1..m
        /\ x.segments \in Seq(PlannedSegments)
        /\ \A k \in 1..m : /\ x.segments[k].at = reqs[run[k]].off - begin
                           /\ x.segments[k].length = reqs[run[k]].size
                           /\ x.segments[k].buf = 0 /\ x.segments[k].request = run[k]
    BY <1>2, MergeSegments
  <1>5. /\ m \in Nat /\ m > 1 /\ begin \in Nat /\ span \in Int
        /\ \A k \in 1..m : /\ run[k] \in Nat /\ reqs[run[k]].key = key
                           /\ reqs[run[k]].off \in Nat /\ reqs[run[k]].size \in Nat /\ reqs[run[k]].size > 0
                           /\ begin <= reqs[run[k]].off
                           /\ (reqs[run[k]].off - begin) + reqs[run[k]].size <= span
        /\ \A j, k \in 1..m : run[j] = run[k] => j = k
    BY <1>2 DEF IsMerge
  <1>6. \A k \in 1..m : run[k] \in 1..n
    BY <1>1, InGroupFacts DEF GoodRun, RunOf
  <1>7. /\ opts.gap # NoGap /\ span <= opts.task
        /\ span <= Tally(RunSizes(reqs, run), 1..m) + opts.gap * (m - 1)
    BY <1>1 DEF GoodRun, RunFits, RunGaps
  <1>8. opts.task \in Nat \ {0} /\ opts.gap \in Nat /\ DOMAIN reqs = 1..n
    BY <1>7 DEF IsBatch
  <1>9. \A k \in 1..m : reqs[run[k]].size <= span
    <2> TAKE k \in 1..m
    <2>1. PICK o, z : o = reqs[run[k]].off /\ z = reqs[run[k]].size
      OBVIOUS
    <2>2. o \in Nat /\ z \in Nat /\ begin <= o /\ (o - begin) + z <= span
      BY <1>5, <2>1
    <2>3. z <= span
      BY <1>5, <2>2
    <2> QED
      BY <2>1, <2>3
  <1>10. 1 \in 1..m /\ span \in 1..opts.task
    <2>1. 1 \in 1..m
      BY <1>5
    <2>2. span >= 1
      BY <1>5, <1>9, <2>1
    <2> QED
      BY <1>5, <1>7, <1>8, <2>1, <2>2
  <1>11. ts \in Seq(PlannedTransfers(reqs, n)) /\ Len(ts) = 1 /\ DOMAIN ts = {1} /\ ts[1] = x
    <2>1. x = [key |-> key, off |-> begin, size |-> span, segments |-> x.segments]
      BY <1>2, <1>4 DEF IsMerge
    <2>2. key \in {reqs[i].key : i \in 1..n}
      BY <1>5, <1>6, <1>10
    <2>3. x \in PlannedTransfers(reqs, n)
      BY <1>4, <1>5, <2>1, <2>2 DEF PlannedTransfers
    <2> QED
      BY <1>3, <2>3
  <1>12. Sound(reqs, opts, ts, Members(run))
    <2>1. ASSUME NEW k \in 1..m PROVE SegmentOk(reqs, x, x.segments[k], Members(run))
      <3>1. run[k] \in Members(run)
        BY <1>1 DEF Members
      <3>2. PICK o, z : o = reqs[run[k]].off /\ z = reqs[run[k]].size
        OBVIOUS
      <3>3. /\ x.segments[k].at = o - begin /\ x.segments[k].length = z
            /\ x.segments[k].buf = 0 /\ x.segments[k].request = run[k] /\ x.size = span
        BY <1>4, <3>2
      <3>4. z \in Nat /\ z > 0 /\ (o - begin) + z <= span /\ 0 + z <= z
        BY <1>5, <3>2
      <3> QED
        BY <3>1, <3>2, <3>3, <3>4 DEF SegmentOk
    <2>2. TransferOk(reqs, opts, x, Members(run))
      BY <1>4, <1>10, <2>1 DEF TransferOk
    <2>3. \A t \in 1..Len(ts) : ts[t] = x
      BY <1>11
    <2> QED
      BY <2>2, <2>3 DEF Sound
  <1>13. Tiled(reqs, ts, Members(run))
    BY <1>2, <1>3, MergeTiles
  <1>14. \A k \in 1..m : Chunks(reqs[run[k]].size, opts.task) = 1
    <2> TAKE k \in 1..m
    <2>1. PICK z, T : z = reqs[run[k]].size /\ T = opts.task
      OBVIOUS
    <2>2. z \in Nat /\ T \in Nat \ {0} /\ z > 0 /\ z <= T
      BY <1>5, <1>7, <1>8, <1>9, <2>1
    <2>3. Chunks(z, T) = 1
      BY <2>2, ChunkFacts
    <2> QED
      BY <2>1, <2>3
  <1>15. Served(reqs, opts, ts, Members(run))
    <2> SUFFICES ASSUME NEW k \in 1..m
                 PROVE  Cardinality(Serves(ts, run[k])) \in 1..Chunks(reqs[run[k]].size, opts.task)
      BY <1>1 DEF Served, Members
    <2>1. Serves(ts, run[k]) = {1}
      BY <1>4, <1>11, ZenonT(30) DEF Serves
    <2>2. Cardinality({1}) = 1
      BY FS_Singleton
    <2>3. 1 \in 1..1
      OBVIOUS
    <2> QED
      BY <1>14, <2>1, <2>2, <2>3
  <1>16. Tally(Need(reqs, opts), Members(run)) = m
    <2>1. PICK f, h, S : f = Need(reqs, opts) /\ h = [k \in 1..m |-> 1] /\ S = 1..m
      OBVIOUS
    <2>2. \A k \in S : f[run[k]] = 1
      BY <1>6, <1>8, <1>14, <2>1 DEF Need
    <2>3. IsFiniteSet(S) /\ Cardinality(S) = m
      BY <1>5, <2>1, FS_Interval
    <2>4. /\ \A k \in S : f[run[k]] \in Int /\ h[k] = f[run[k]]
          /\ \A j, k \in S : run[j] = run[k] => j = k
      BY <1>5, <2>1, <2>2
    <2>5. Tally(f, {run[k] : k \in S}) = Tally(h, S)
      BY <2>3, <2>4, TallyOfImages
    <2>6. Tally(h, S) = 1 * Cardinality(S)
      <3>1. \A k \in S : h[k] = 1
        BY <2>1
      <3> QED
        BY <2>3, <3>1, TallyOfEqual
    <2>7. Members(run) = {run[k] : k \in S}
      BY <1>1, <2>1 DEF Members
    <2>8. 1 * Cardinality(S) = m
      BY <1>5, <2>3
    <2> QED
      BY <2>1, <2>5, <2>6, <2>7, <2>8
  <1>17. Cheap(reqs, opts, ts, Members(run))
    <2>1. Wanted(x) = Tally(RunSizes(reqs, run), 1..m) /\ Wanted(x) \in Int
      BY <1>2, MergeWanted
    <2>2. PICK f : f = Excess(ts)
      OBVIOUS
    <2>3. f[1] = span - Wanted(x)
      BY <1>4, <1>11, <2>2 DEF Excess
    <2>4. f[1] \in Int
      BY <1>5, <2>1, <2>3
    <2>5. Waste(ts) = f[1]
      BY <1>11, <2>2, <2>4, TallyOfOne DEF Waste
    <2>6. PICK y : y = opts.gap * (m - 1)
      OBVIOUS
    <2>7. y \in Int
      BY <1>5, <1>8, <2>6
    <2>8. span - Wanted(x) <= y
      BY <1>5, <1>7, <2>1, <2>6, <2>7
    <2>9. Spare(opts, m - 1) = y
      BY <1>7, <2>6 DEF Spare
    <2>10. 1 <= m
      BY <1>5
    <2> QED
      BY <1>11, <1>16, <2>3, <2>5, <2>8, <2>9, <2>10 DEF Cheap
  <1>18. Members(run) \in SUBSET (1..n)
    BY <1>1, <1>6 DEF Members
  <1> QED
    BY <1>2, <1>3, <1>11, <1>12, <1>13, <1>15, <1>17, <1>18 DEF GoodPlan

\* The transfers of a run are good for its requests.
LEMMA PlanRunGood ==
    ASSUME NEW reqs, NEW opts, NEW n, IsBatch(reqs, opts, n), NEW key, NEW run,
           GoodRun(reqs, opts, key, run)
    PROVE  GoodPlan(reqs, opts, n, PlanRun(reqs, opts, run), Members(run))
  <1>1. run \in Seq(Nat) /\ Len(run) \in Nat /\ Len(run) >= 1 /\ run[1] \in InGroup(reqs, key)
    <2>1. run \in Seq(Nat) /\ Len(run) \in Nat /\ Len(run) >= 1
      BY DEF GoodRun, RunOf
    <2>2. 1 \in 1..Len(run)
      BY <2>1
    <2> QED
      BY <2>1, <2>2 DEF GoodRun, RunOf
  <1>2. CASE Len(run) > 1
    BY <1>2, MergeGood DEF PlanRun
  <1>3. CASE ~(Len(run) > 1)
    <2>0. PICK m : m = Len(run)
      OBVIOUS
    <2>b. m \in Nat /\ m >= 1 /\ ~(m > 1)
      BY <1>1, <1>3, <2>0
    <2>c. m = 1
      BY <2>b
    <2>a. Len(run) = 1
      BY <2>0, <2>c
    <2>1. Len(run) = 1 /\ Head(run) = run[1]
      BY <1>1, <2>a
    <2>2. PICK i : i = run[1]
      OBVIOUS
    <2>3. Members(run) = {i}
      BY <2>1, <2>2 DEF Members
    <2>4. i \in 1..n /\ reqs[i].size > 0
      BY <1>1, <2>2, InGroupFacts
    <2>5. PlanRun(reqs, opts, run) = SplitRequest(reqs, i, opts.task)
      BY <1>3, <2>1, <2>2 DEF PlanRun
    <2> QED
      BY <2>3, <2>4, <2>5, SplitGood
  <1> QED
    BY <1>2, <1>3

-------------------------------------------------------------------------------
(* The transfers of a group and of the batch.                              *)

\* The positions up to the next one.
LEMMA OneMore ==
    ASSUME NEW l \in Nat
    PROVE  \A j : j \in 1..(l + 1) <=> j \in 1..l \/ j = l + 1
  OBVIOUS

\* The members of a run are requests of its group.
LEMMA MembersFacts ==
    ASSUME NEW reqs, NEW opts, NEW key, NEW rs, RunsGood(reqs, opts, key, rs), NEW l \in 1..Len(rs), NEW i
    PROVE  /\ i \in Members(rs[l]) <=> RunHas(rs, l, i)
           /\ RunHas(rs, l, i) => i \in InGroup(reqs, key)
  <1>1. GoodRun(reqs, opts, key, rs[l])
    BY DEF RunsGood
  <1>2. i \in Members(rs[l]) <=> RunHas(rs, l, i)
    BY DEF Members, RunHas
  <1>3. ASSUME RunHas(rs, l, i) PROVE i \in InGroup(reqs, key)
    BY <1>1, <1>3 DEF RunHas, GoodRun, RunOf
  <1> QED
    BY <1>2, <1>3

\* The runs of a group hold its requests, and their plans are transfers.
LEMMA GroupRunsPlanned ==
    ASSUME NEW reqs, NEW opts, NEW n, IsBatch(reqs, opts, n), NEW key,
           NEW rs, rs = Runs(reqs, opts, Group(reqs, key))
    PROVE  /\ rs \in Seq(Seq(Nat)) /\ RunsCover(reqs, opts, key, rs)
           /\ RunsPlanned(reqs, opts, rs, Len(rs), PlannedTransfers(reqs, n))
  <1>1. rs \in Seq(Seq(Nat)) /\ RunsCover(reqs, opts, key, rs)
    BY RunsFacts
  <1>2. DOMAIN rs = 1..Len(rs)
    BY <1>1
  <1>3. ASSUME NEW l \in 1..Len(rs)
        PROVE  PlanRun(reqs, opts, rs[l]) \in Seq(PlannedTransfers(reqs, n))
    <2>1. GoodRun(reqs, opts, key, rs[l])
      BY <1>1 DEF RunsCover, RunsGood
    <2>2. GoodPlan(reqs, opts, n, PlanRun(reqs, opts, rs[l]), Members(rs[l]))
      BY <2>1, PlanRunGood
    <2> QED
      BY <2>2 DEF GoodPlan
  <1> QED
    BY <1>1, <1>2, <1>3 DEF RunsPlanned

\* Planning a group leaves a sequence of transfers.
LEMMA PlanGroupType ==
    ASSUME NEW reqs, NEW opts, NEW n, IsBatch(reqs, opts, n), NEW key,
           NEW ts \in Seq(PlannedTransfers(reqs, n))
    PROVE  PlanGroup(reqs, opts, ts, key) \in Seq(PlannedTransfers(reqs, n))
  <1>1. PICK rs, X, N : /\ rs = Runs(reqs, opts, Group(reqs, key)) /\ X = PlannedTransfers(reqs, n)
                        /\ N = Len(rs)
    OBVIOUS
  <1>2. rs \in Seq(Seq(Nat)) /\ RunsPlanned(reqs, opts, rs, N, X)
    BY <1>1, GroupRunsPlanned
  <1>3. N \in Nat /\ ts \in Seq(X)
    BY <1>1, <1>2
  <1>4. PICK r \in [0..N -> Seq(X)] : GroupSteps(r, reqs, opts, ts, key, rs, N)
    BY <1>1, <1>2, <1>3, PlanGroupSteps
  <1>5. r[N] \in Seq(X)
    BY <1>3
  <1> QED
    BY <1>1, <1>4, <1>5 DEF GroupSteps

\* Planning a group adds its requests to those the plan is for, by induction over its runs.
LEMMA PlanGroupGood ==
    ASSUME NEW reqs, NEW opts, NEW n, IsBatch(reqs, opts, n), NEW key,
           NEW ts, NEW C, GoodPlan(reqs, opts, n, ts, C), C \cap InGroup(reqs, key) = {}
    PROVE  GoodPlan(reqs, opts, n, PlanGroup(reqs, opts, ts, key), C \cup InGroup(reqs, key))
  <1>1. PICK rs, X, N : /\ rs = Runs(reqs, opts, Group(reqs, key)) /\ X = PlannedTransfers(reqs, n)
                        /\ N = Len(rs)
    OBVIOUS
  <1>2. /\ rs \in Seq(Seq(Nat)) /\ RunsCover(reqs, opts, key, rs)
        /\ RunsPlanned(reqs, opts, rs, N, X)
    BY <1>1, GroupRunsPlanned
  <1>3. N \in Nat
    BY <1>1, <1>2
  <1>4. ts \in Seq(X)
    BY <1>1 DEF GoodPlan
  <1>5. PICK r \in [0..N -> Seq(X)] : GroupSteps(r, reqs, opts, ts, key, rs, N)
    BY <1>1, <1>2, <1>3, <1>4, PlanGroupSteps
  <1>6. /\ r[0] = ts /\ PlanGroup(reqs, opts, ts, key) = r[N]
        /\ \A l \in 1..N : r[l] = r[l - 1] \o PlanRun(reqs, opts, rs[l])
    BY <1>5 DEF GroupSteps
  <1>7. /\ RunsGood(reqs, opts, key, rs) /\ RunsApart(rs)
        /\ \A i \in InGroup(reqs, key) : \E l \in 1..N : RunHas(rs, l, i)
    BY <1>1, <1>2 DEF RunsCover
  <1>h. PICK held : held = [l \in Nat |-> C \cup {i \in InGroup(reqs, key) :
                                                   \E j \in 1..l : RunHas(rs, j, i)}]
    OBVIOUS
  <1> DEFINE T == {l \in Nat : l <= N => GoodPlan(reqs, opts, n, r[l], held[l])}
  <1>8. 0 \in T
    <2>1. held[0] = C
      BY <1>h
    <2> QED
      BY <1>6, <2>1
  <1>9. ASSUME NEW l \in Nat, l \in T PROVE l + 1 \in T
    <2> SUFFICES ASSUME l + 1 <= N PROVE GoodPlan(reqs, opts, n, r[l + 1], held[l + 1])
      OBVIOUS
    <2>1. l + 1 \in 1..N /\ (l + 1) - 1 = l /\ l <= N
      BY <1>3
    <2>2. r[l + 1] = r[l] \o PlanRun(reqs, opts, rs[l + 1])
      BY <1>6, <2>1
    <2>3. GoodPlan(reqs, opts, n, r[l], held[l])
      BY <1>9, <2>1
    <2>4. PICK D : D = Members(rs[l + 1])
      OBVIOUS
    <2>5. GoodPlan(reqs, opts, n, PlanRun(reqs, opts, rs[l + 1]), D)
      <3>1. GoodRun(reqs, opts, key, rs[l + 1])
        BY <1>1, <1>7, <2>1 DEF RunsGood
      <3> QED
        BY <2>4, <3>1, PlanRunGood
    <2>6. \A i : i \in D <=> i \in InGroup(reqs, key) /\ RunHas(rs, l + 1, i)
      BY <1>1, <1>7, <2>1, <2>4, MembersFacts
    <2>7. held[l] \cap D = {}
      <3> SUFFICES ASSUME NEW i \in held[l], i \in D PROVE FALSE
        OBVIOUS
      <3>1. i \in InGroup(reqs, key) /\ RunHas(rs, l + 1, i)
        BY <2>6
      <3>2. i \notin C
        BY <3>1
      <3>3. PICK j \in 1..l : RunHas(rs, j, i)
        BY <1>h, <3>2
      <3>4. j \in 1..N /\ j # l + 1
        BY <1>3, <2>1
      <3> QED
        BY <1>1, <1>7, <2>1, <3>1, <3>3, <3>4 DEF RunsApart
    <2>8. held[l + 1] = held[l] \cup D
      <3>1. \A j : j \in 1..(l + 1) <=> j \in 1..l \/ j = l + 1
        BY OneMore
      <3> QED
        BY <1>h, <2>6, <3>1
    <2>9. PICK H : H = held[l]
      OBVIOUS
    <2>10. GoodPlan(reqs, opts, n, r[l] \o PlanRun(reqs, opts, rs[l + 1]), H \cup D)
      <3>1. GoodPlan(reqs, opts, n, r[l], H) /\ H \cap D = {}
        BY <2>3, <2>7, <2>9
      <3> QED
        BY <2>5, <3>1, GoodPlanAdds
    <2> QED
      BY <2>2, <2>8, <2>9, <2>10
  <1>10. Nat \subseteq T
    <2> HIDE DEF T
    <2> QED
      BY <1>8, <1>9, SetInduction
  <1>11. GoodPlan(reqs, opts, n, r[N], held[N])
    BY <1>3, <1>10
  <1>12. held[N] = C \cup InGroup(reqs, key)
    BY <1>3, <1>7, <1>h
  <1> QED
    BY <1>6, <1>11, <1>12

\* The requests that are not empty.
Wanting(reqs, n) == {i \in 1..n : reqs[i].size > 0}

\* The transfers of a batch are a plan for its requests that are not empty, by induction over
\* the groups.
LEMMA TransfersGood ==
    ASSUME NEW reqs, NEW opts, NEW n, IsBatch(reqs, opts, n)
    PROVE  GoodPlan(reqs, opts, n, Transfers(reqs, opts), Wanting(reqs, n))
  <1>1. PICK keys, X : keys = GroupKeys(reqs) /\ X = PlannedTransfers(reqs, n)
    OBVIOUS
  <1>2. PICK m \in Nat : /\ DOMAIN keys = 1..m
                         /\ \A j, k \in 1..m : keys[j] = keys[k] => j = k
                         /\ \A i \in 1..n : reqs[i].size > 0 => \E j \in 1..m : keys[j] = reqs[i].key
    BY <1>1, GroupKeysFacts
  <1>3. GroupsPlanned(reqs, opts, keys, m, X)
    BY <1>1, <1>2, PlanGroupType DEF GroupsPlanned
  <1>4. PICK r \in [0..m -> Seq(X)] : BatchSteps(r, reqs, opts, keys, m)
    BY <1>1, <1>3, TransfersSteps
  <1>5. /\ r[0] = <<>> /\ Transfers(reqs, opts) = r[m]
        /\ \A j \in 1..m : r[j] = PlanGroup(reqs, opts, r[j - 1], keys[j])
    BY <1>4 DEF BatchSteps
  <1>h. PICK held : held = [l \in Nat |-> {i \in Wanting(reqs, n) :
                                             \E j \in 1..l : keys[j] = reqs[i].key}]
    OBVIOUS
  <1> DEFINE T == {l \in Nat : l <= m => GoodPlan(reqs, opts, n, r[l], held[l])}
  <1>6. 0 \in T
    <2>1. held[0] = {}
      BY <1>h
    <2>2. GoodPlan(reqs, opts, n, <<>>, {})
      BY GoodPlanEmpty
    <2> QED
      BY <1>5, <2>1, <2>2
  <1>7. ASSUME NEW l \in Nat, l \in T PROVE l + 1 \in T
    <2> SUFFICES ASSUME l + 1 <= m PROVE GoodPlan(reqs, opts, n, r[l + 1], held[l + 1])
      OBVIOUS
    <2>1. l + 1 \in 1..m /\ (l + 1) - 1 = l /\ l <= m
      OBVIOUS
    <2>2. r[l + 1] = PlanGroup(reqs, opts, r[l], keys[l + 1])
      BY <1>5, <2>1
    <2>3. GoodPlan(reqs, opts, n, r[l], held[l])
      BY <1>7, <2>1
    <2>4. \A i : i \in InGroup(reqs, keys[l + 1]) <=> i \in Wanting(reqs, n) /\ keys[l + 1] = reqs[i].key
      BY DEF InGroup, Wanting, IsBatch
    <2>5. held[l] \cap InGroup(reqs, keys[l + 1]) = {}
      <3> SUFFICES ASSUME NEW i \in held[l], i \in InGroup(reqs, keys[l + 1]) PROVE FALSE
        OBVIOUS
      <3>1. PICK j \in 1..l : keys[j] = reqs[i].key
        BY <1>h
      <3>2. j \in 1..m /\ j # l + 1
        BY <2>1
      <3> QED
        BY <1>2, <2>1, <2>4, <3>1, <3>2
    <2>6. held[l + 1] = held[l] \cup InGroup(reqs, keys[l + 1])
      <3>1. \A j : j \in 1..(l + 1) <=> j \in 1..l \/ j = l + 1
        BY OneMore
      <3> QED
        BY <1>h, <2>4, <3>1
    <2>7. PICK H, key : H = held[l] /\ key = keys[l + 1]
      OBVIOUS
    <2>8. GoodPlan(reqs, opts, n, PlanGroup(reqs, opts, r[l], key), H \cup InGroup(reqs, key))
      <3>1. GoodPlan(reqs, opts, n, r[l], H) /\ H \cap InGroup(reqs, key) = {}
        BY <2>3, <2>5, <2>7
      <3> QED
        BY <3>1, PlanGroupGood
    <2> QED
      BY <2>2, <2>6, <2>7, <2>8
  <1>8. Nat \subseteq T
    <2> HIDE DEF T
    <2> QED
      BY <1>6, <1>7, SetInduction
  <1>9. GoodPlan(reqs, opts, n, r[m], held[m])
    BY <1>8
  <1>10. held[m] = Wanting(reqs, n)
    BY <1>2, <1>h DEF Wanting
  <1> QED
    BY <1>5, <1>9, <1>10

-------------------------------------------------------------------------------
(* The plan of the batch.                                                  *)

\* The requests are a batch, and the plan is the one of its requests and options.
PlanOfBatch ==
    /\ IsBatch(requests, options, Len(requests))
    /\ plan = NoPlan \/ plan = BuildTransferPlan(requests, options)

\* An empty request needs no transfer: the requests that want bytes need as many as all.
LEMMA NeedOfAll ==
    ASSUME NEW reqs, NEW opts, NEW n, IsBatch(reqs, opts, n)
    PROVE  SumOf(Need(reqs, opts)) = Tally(Need(reqs, opts), Wanting(reqs, n))
  <1>1. PICK f, C, E : f = Need(reqs, opts) /\ C = Wanting(reqs, n) /\ E = (1..n) \ C
    OBVIOUS
  <1>2. /\ n \in Nat /\ DOMAIN reqs = 1..n /\ opts.task \in Nat \ {0}
        /\ \A i \in 1..n : reqs[i].size \in Nat
    BY DEF IsBatch
  <1>3. C \in SUBSET (1..n) /\ E \in SUBSET (1..n) /\ C \cap E = {} /\ C \cup E = 1..n
    BY <1>1 DEF Wanting
  <1>4. IsFiniteSet(C) /\ (\A i \in C : f[i] \in Int) /\ Tally(f, C) \in Int
    BY <1>1, <1>3, NeedType
  <1>5. IsFiniteSet(E) /\ \A i \in E : f[i] \in Int
    BY <1>1, <1>3, NeedType
  <1>6. \A i \in E : f[i] = 0
    <2> TAKE i \in E
    <2>1. i \in 1..n /\ ~(reqs[i].size > 0)
      BY <1>1 DEF Wanting
    <2>2. PICK z, T : z = reqs[i].size /\ T = opts.task
      OBVIOUS
    <2>3. z \in Nat /\ z = 0 /\ T \in Nat \ {0}
      BY <1>2, <2>1, <2>2
    <2>4. Chunks(z, T) = 0
      BY <2>3, ChunkFacts
    <2> QED
      BY <1>1, <1>2, <2>1, <2>2, <2>4 DEF Need
  <1>7. Tally(f, E) = 0 * Cardinality(E)
    BY <1>5, <1>6, TallyOfEqual
  <1>8. Cardinality(E) \in Nat
    BY <1>5, FS_CardinalityType
  <1>9. 0 * Cardinality(E) = 0
    BY <1>8
  <1>10. Tally(f, C \cup E) = Tally(f, C) + Tally(f, E)
    BY <1>3, <1>4, <1>5, TallyUnion
  <1>11. Tally(f, 1..n) = Tally(f, C)
    <2>1. PICK c, e : c = Tally(f, C) /\ e = Tally(f, E)
      OBVIOUS
    <2>2. c \in Int /\ e = 0 /\ Tally(f, 1..n) = c + e
      BY <1>3, <1>4, <1>7, <1>9, <1>10, <2>1
    <2>3. c + e = c
      BY <2>2
    <2> QED
      BY <2>1, <2>2, <2>3
  <1>12. DOMAIN f = 1..n
    BY <1>1, <1>2 DEF Need
  <1> QED
    BY <1>1, <1>11, <1>12, SumOfTally

\* One carrier is one element of Carriers.
LEMMA OneCarrierFacts ==
    ASSUME NEW i, NEW b, DOMAIN plan.transfers = 1..Len(plan.transfers),
           OneCarrier(requests, plan.transfers, i, b)
    PROVE  Cardinality(Carriers(i, b)) = 1
  <1>1. PICK ts : ts = plan.transfers
    OBVIOUS
  <1>2. PICK t, k : CarriedBy(requests, ts, t, k, i, b)
    BY <1>1 DEF OneCarrier
  <1>3. <<t, k>> \in Carriers(i, b)
    <2>1. t \in DOMAIN ts /\ k \in DOMAIN ts[t].segments /\ Carries(requests, ts[t], k, i, b)
      BY <1>1, <1>2 DEF CarriedBy
    <2>2. <<t, k>> \in UNION {{u} \X DOMAIN ts[u].segments : u \in DOMAIN ts}
      BY <2>1
    <2> QED
      BY <1>1, <2>1, <2>2 DEF Carriers, Carries
  <1>4. ASSUME NEW c \in Carriers(i, b) PROVE c = <<t, k>>
    <2>1. PICK u \in DOMAIN ts : c \in {u} \X DOMAIN ts[u].segments
      BY <1>1 DEF Carriers
    <2>2. PICK l \in DOMAIN ts[u].segments : c = <<u, l>>
      BY <2>1
    <2>3. Carries(requests, ts[u], l, i, b)
      BY <1>1, <2>2 DEF Carriers, Carries
    <2>4. CarriedBy(requests, ts, u, l, i, b)
      BY <1>1, <2>1, <2>2, <2>3 DEF CarriedBy
    <2>5. u = t /\ l = k
      BY <1>1, <1>2, <2>4 DEF OneCarrier
    <2> QED
      BY <2>2, <2>5
  <1>5. Carriers(i, b) = {<<t, k>>}
    BY <1>3, <1>4
  <1> QED
    BY <1>5, FS_Singleton

\* A list that lacks a request has no transfer for it.
LEMMA ServesNone ==
    ASSUME NEW ts, DOMAIN ts = 1..Len(ts), NEW i, Lacks(ts, i)
    PROVE  Cardinality(Serves(ts, i)) = 0
  <1>1. Serves(ts, i) = {}
    BY DEF Serves, Lacks
  <1> QED
    BY <1>1, FS_EmptySet

\* A plan of the batch tiles its requests.
LEMMA GoodPlanTiles ==
    ASSUME PlanOfBatch
    PROVE  PlanTilesRequests
  <1>1. SUFFICES ASSUME plan # NoPlan PROVE PlanTilesRequests
    BY DEF PlanTilesRequests
  <1>2. PICK n, ts, C : /\ n = Len(requests) /\ ts = Transfers(requests, options)
                        /\ C = Wanting(requests, n)
    OBVIOUS
  <1>3. IsBatch(requests, options, n) /\ plan = BuildTransferPlan(requests, options)
    BY <1>1, <1>2 DEF PlanOfBatch
  <1>4. GoodPlan(requests, options, n, ts, C)
    BY <1>2, <1>3, TransfersGood
  <1>5. /\ ts \in Seq(PlannedTransfers(requests, n)) /\ C \in SUBSET (1..n)
        /\ Sound(requests, options, ts, C) /\ Tiled(requests, ts, C)
        /\ Served(requests, options, ts, C) /\ Cheap(requests, options, ts, C)
    BY <1>4 DEF GoodPlan
  <1>6. /\ plan.transfers = ts
        /\ plan.perRequest = [i \in DOMAIN requests |-> Cardinality(Serves(ts, i))]
        /\ plan.overread = SumOf(Excess(ts))
    BY <1>2, <1>3 DEF BuildTransferPlan, Excess
  <1>7. /\ n \in Nat /\ DOMAIN requests = 1..n /\ options.task \in Nat \ {0}
        /\ \A i \in 1..n : requests[i].size \in Nat
    BY <1>3 DEF IsBatch
  <1>8. Len(ts) \in Nat /\ DOMAIN ts = 1..Len(ts)
    BY <1>5
  <1>9. plan.overread = Waste(ts)
    <2>1. DOMAIN Excess(ts) = DOMAIN ts
      BY DEF Excess
    <2> QED
      BY <1>6, <2>1, SumOfTally DEF Waste
  <1>10. ASSUME NEW i \in DOMAIN requests, NEW b \in 0..(requests[i].size - 1)
         PROVE  Cardinality(Carriers(i, b)) = 1
    <2>1. i \in C
      BY <1>2, <1>7, <1>10 DEF Wanting
    <2>2. OneCarrier(requests, ts, i, b)
      BY <1>5, <2>1 DEF Tiled
    <2> QED
      BY <1>6, <1>8, <2>2, OneCarrierFacts
  <1>11. ASSUME NEW t \in DOMAIN plan.transfers
         PROVE  LET x == plan.transfers[t]
                IN  /\ x.size \in 1..options.task
                    /\ \A k \in DOMAIN x.segments :
                          LET s == x.segments[k]
                          IN  /\ s.length > 0 /\ s.at + s.length <= x.size
                              /\ s.buf + s.length <= requests[s.request].size
    <2>1. TransferOk(requests, options, ts[t], C)
      BY <1>5, <1>6, <1>8 DEF Sound
    <2> QED
      BY <1>6, <2>1 DEF TransferOk, SegmentOk
  <1>12. ASSUME NEW i \in DOMAIN requests
         PROVE  LET r == requests[i]
                IN  /\ r.size = 0 <=> plan.perRequest[i] = 0
                    /\ plan.perRequest[i] <= Chunks(r.size, options.task)
    <2>1. PICK p, z, T : p = Cardinality(Serves(ts, i)) /\ z = requests[i].size /\ T = options.task
      OBVIOUS
    <2>2. plan.perRequest[i] = p
      BY <1>6, <2>1
    <2>3. z \in Nat /\ T \in Nat \ {0}
      BY <1>7, <2>1
    <2>4. Chunks(z, T) \in Nat /\ (z = 0 <=> Chunks(z, T) = 0)
      BY <2>3, ChunkFacts
    <2>5. CASE z > 0
      <3>1. i \in C
        BY <1>2, <1>7, <2>1, <2>5 DEF Wanting
      <3>2. p \in 1..Chunks(z, T)
        BY <1>5, <2>1, <3>1 DEF Served
      <3>3. p # 0 /\ z # 0 /\ p <= Chunks(z, T)
        BY <2>3, <2>4, <2>5, <3>2
      <3> QED
        BY <2>1, <2>2, <3>3
    <2>6. CASE z = 0
      <3>0. ~(0 > 0) /\ requests[i].size = 0
        BY <2>1, <2>6
      <3>1. i \notin C
        BY <1>2, <3>0 DEF Wanting
      <3>2. Lacks(ts, i)
        BY <1>5, <3>1, SoundLacks
      <3>3. p = 0
        BY <1>8, <2>1, <3>2, ServesNone
      <3>4. p <= Chunks(z, T)
        BY <2>4, <2>6, <3>3
      <3> QED
        BY <2>1, <2>2, <2>6, <3>3, <3>4
    <2> QED
      BY <2>3, <2>5, <2>6
  <1>13. LET each == SumOf([i \in DOMAIN requests |-> Chunks(requests[i].size, options.task)])
         IN  /\ Len(plan.transfers) <= each
             /\ plan.overread <= IF options.gap = NoGap THEN 0
                                 ELSE options.gap * (each - Len(plan.transfers))
    <2>1. PICK e : e = SumOf(Need(requests, options))
      OBVIOUS
    <2>2. e = SumOf([i \in DOMAIN requests |-> Chunks(requests[i].size, options.task)])
      BY <2>1 DEF Need
    <2>3. e = Tally(Need(requests, options), C)
      BY <1>2, <1>3, <2>1, NeedOfAll
    <2>4. Len(ts) <= e /\ Waste(ts) <= Spare(options, e - Len(ts))
      BY <1>5, <2>3 DEF Cheap
    <2>5. Len(plan.transfers) <= e
      BY <1>6, <2>4
    <2>6. plan.overread <= IF options.gap = NoGap THEN 0 ELSE options.gap * (e - Len(plan.transfers))
      BY <1>6, <1>9, <2>4 DEF Spare
    <2> QED
      BY <2>2, <2>5, <2>6
  <1> QED
    BY <1>10, <1>11, <1>12, <1>13 DEF PlanTilesRequests

\* build_transfer_plan(), for every batch and every option: the transfers tile the
\* requests, no segment leaves its transfer or its request, no transfer exceeds
\* task_size, the per-request counts agree with the transfers, a batch needs no more
\* transfers than its requests one by one, and the bytes read for nothing are at most
\* coalesce_max_gap for every transfer that merging saves.
THEOREM PlansTileRequests == PlanSpec => []PlanTilesRequests
  <1>1. PlanInit => PlanOfBatch
    <2> SUFFICES ASSUME PlanInit PROVE PlanOfBatch
      OBVIOUS
    <2>1. PICK n \in 0..MaxRequests : requests \in [1..n -> Requests]
      BY PlanAssumption DEF PlanInit, BoundedSeq, SeqOf
    <2>2. n \in Nat /\ DOMAIN requests = 1..n /\ requests \in Seq(Requests)
      BY <2>1, PlanAssumption
    <2>3. Len(requests) = n
      BY <2>2
    <2>4. ASSUME NEW i \in 1..n PROVE requests[i].off \in Nat /\ requests[i].size \in Nat
      <3>1. requests[i] \in Requests
        BY <2>1
      <3> QED
        BY <3>1, PlanAssumption DEF Requests
    <2>5. options.task \in Nat \ {0} /\ (options.gap # NoGap => options.gap \in Nat)
      BY PlanAssumption DEF PlanInit
    <2>6. IsBatch(requests, options, Len(requests))
      BY <2>2, <2>3, <2>4, <2>5 DEF IsBatch
    <2> QED
      BY <2>6 DEF PlanInit, PlanOfBatch
  <1>2. PlanOfBatch /\ [Plan]_planVars => PlanOfBatch'
    <2> SUFFICES ASSUME PlanOfBatch, [Plan]_planVars PROVE PlanOfBatch'
      OBVIOUS
    <2>1. CASE Plan
      BY <2>1 DEF Plan, PlanOfBatch
    <2>2. CASE UNCHANGED planVars
      BY <2>2 DEF planVars, PlanOfBatch
    <2> QED
      BY <2>1, <2>2
  <1>3. PlanOfBatch => PlanTilesRequests
    BY GoodPlanTiles
  <1> QED
    BY <1>1, <1>2, <1>3, PTL DEF PlanSpec

===============================================================================
