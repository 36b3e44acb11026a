--------------------------------- MODULE Sums ---------------------------------
(***************************************************************************)
(* Induction over numbers and finite sets, and what a sum over a finite    *)
(* set is, for the proofs about the bytes of a call or a plan.             *)
(*                                                                         *)
(* The induction theorems of the library take the predicate as a           *)
(* parameter, which the provers cannot instantiate.  Here the predicate is *)
(* a set, and induction is the least element of its complement.  A sum is  *)
(* MapThenSumSet, a CHOOSE of a recursive function: FoldExists shows that  *)
(* such a function exists, and only then does its equation hold.           *)
(***************************************************************************)
EXTENDS Integers, FiniteSets, FiniteSetsExt, FiniteSetTheorems, WellFoundedInduction, TLAPS

\* A non-empty set of natural numbers has a least element.
LEMMA LeastNat ==
    ASSUME NEW T \in SUBSET Nat, NEW n \in T
    PROVE  \E m \in T : \A k \in T : m <= k
  <1>1. IsWellFoundedOn(OpToRel(<, Nat), Nat)
    BY NatLessThanWellFounded
  <1>2. \E m \in T : \A k \in T : ~(<<k, m>> \in OpToRel(<, Nat))
    BY <1>1, WFMin, Zenon
  <1>3. PICK m \in T : \A k \in T : ~(<<k, m>> \in OpToRel(<, Nat))
    BY <1>2
  <1>4. \A k \in T : ~(k < m)
    BY <1>3 DEF OpToRel
  <1> QED
    BY <1>4

\* Induction over the natural numbers, with the predicate as a set.
LEMMA SetInduction ==
    ASSUME NEW T, 0 \in T, \A n \in Nat : n \in T => n + 1 \in T
    PROVE  Nat \subseteq T
  <1> DEFINE B == Nat \ T
  <1>1. SUFFICES ASSUME NEW n \in B PROVE FALSE
    OBVIOUS
  <1>2. PICK m \in B : \A k \in B : m <= k
    BY LeastNat
  <1>3. m \in Nat /\ m # 0
    BY <1>2
  <1>4. m - 1 \in Nat /\ m - 1 \notin B
    BY <1>2, <1>3
  <1>5. m - 1 \in T
    BY <1>4
  <1>6. (m - 1) + 1 \in T
    BY <1>4, <1>5
  <1> QED
    BY <1>2, <1>3, <1>6

\* The sum of f over S, and the equation its partial sums satisfy.
Tally(f, S) == MapThenSumSet(LAMBDA x : f[x], S)

Some(s) == CHOOSE x \in s : TRUE
PartialSums(f, g, S) ==
    \A s \in SUBSET S : g[s] = IF s = {} THEN 0 ELSE f[Some(s)] + g[s \ {Some(s)}]

Agree(f, h, S) == \A x \in S : f[x] = h[x]
IntegerSums(f, g, S) == /\ \A x \in S : f[x] \in Int
                        /\ g \in [SUBSET S -> Int] /\ PartialSums(f, g, S)

\* The element that a sum takes next is one of the set.
LEMMA SomeFacts == ASSUME NEW s, s # {} PROVE Some(s) \in s
  BY DEF Some

\* A set without one of its elements has one element fewer.
LEMMA OneFewer ==
    ASSUME NEW s, IsFiniteSet(s), NEW x \in s
    PROVE  Cardinality(s \ {x}) = Cardinality(s) - 1
  BY FS_RemoveElement

\* A fold over the subsets of a finite set is defined: F adds one element, c chooses it.
IsFold(g, S, base, F, c) ==
    \A s \in SUBSET S : g[s] = IF s = {} THEN base ELSE F[<<g[s \ {c[s]}], c[s]>>]

\* By induction over the sizes of the subsets, such a fold exists.
LEMMA FoldExists ==
    ASSUME NEW S, IsFiniteSet(S), NEW V, NEW base \in V, NEW F \in [V \X S -> V],
           NEW c, \A s \in SUBSET S : s # {} => c[s] \in s
    PROVE  \E g \in [SUBSET S -> V] : IsFold(g, S, base, F, c)
  <1> DEFINE Small(n) == {s \in SUBSET S : Cardinality(s) <= n}
             Up(g, n) == \A s \in Small(n) : g[s] = IF s = {} THEN base
                                                    ELSE F[<<g[s \ {c[s]}], c[s]>>]
             T == {n \in Nat : \E g \in [Small(n) -> V] : Up(g, n)}
  <1>1. \A s \in SUBSET S : IsFiniteSet(s) /\ Cardinality(s) \in Nat /\ Cardinality(s) <= Cardinality(S)
    BY FS_Subset, FS_CardinalityType
  <1>2. 0 \in T
    <2> DEFINE g == [s \in Small(0) |-> base]
    <2>1. \A s \in Small(0) : s = {}
      BY <1>1, FS_EmptySet
    <2>2. g \in [Small(0) -> V] /\ Up(g, 0)
      BY <2>1
    <2> QED
      BY <2>2
  <1>3. ASSUME NEW n \in Nat, n \in T PROVE n + 1 \in T
    <2>1. PICK g \in [Small(n) -> V] : Up(g, n)
      BY <1>3
    <2> DEFINE h == [s \in Small(n + 1) |-> IF s \in Small(n) THEN g[s]
                                            ELSE F[<<g[s \ {c[s]}], c[s]>>]]
    <2>2. ASSUME NEW s \in Small(n + 1), s # {}
          PROVE  s \ {c[s]} \in Small(n) /\ c[s] \in S /\ s \ {c[s]} \in Small(n + 1)
      <3>1. c[s] \in s /\ c[s] \in S
        BY <2>2
      <3>2. Cardinality(s \ {c[s]}) = Cardinality(s) - 1
        BY <1>1, <3>1, OneFewer
      <3>3. s \ {c[s]} \in SUBSET S /\ Cardinality(s) \in Nat /\ Cardinality(s) <= n + 1
        BY <1>1
      <3> QED
        BY <3>1, <3>2, <3>3
    <2>3. \A s \in Small(n) : s \in Small(n + 1)
      BY <1>1
    <2>4. {} \in Small(n)
      BY FS_EmptySet
    <2>5. ASSUME NEW s \in Small(n + 1)
          PROVE  /\ h[s] \in V
                 /\ h[s] = IF s = {} THEN base ELSE F[<<h[s \ {c[s]}], c[s]>>]
      <3>1. CASE s \in Small(n)
        <4>1. h[s] = g[s]
          BY <3>1
        <4>2. s # {} => h[s \ {c[s]}] = g[s \ {c[s]}]
          BY <2>2, <2>3
        <4>3. g[s] = IF s = {} THEN base ELSE F[<<g[s \ {c[s]}], c[s]>>]
          BY <2>1, <3>1
        <4>4. g[s] \in V
          BY <3>1
        <4> HIDE DEF h, Small
        <4> QED
          BY <4>1, <4>2, <4>3, <4>4
      <3>2. CASE s \notin Small(n)
        <4>1. s # {}
          BY <2>4, <3>2
        <4>2. s \ {c[s]} \in Small(n) /\ c[s] \in S /\ s \ {c[s]} \in Small(n + 1)
          BY <2>2, <4>1
        <4>3. h[s] = F[<<g[s \ {c[s]}], c[s]>>]
          BY <3>2
        <4>4. h[s \ {c[s]}] = g[s \ {c[s]}] /\ g[s \ {c[s]}] \in V
          BY <4>2
        <4> HIDE DEF h, Small
        <4> QED
          BY <4>1, <4>2, <4>3, <4>4
      <3> QED
        BY <3>1, <3>2
    <2>6. h \in [Small(n + 1) -> V]
      BY <2>5
    <2>7. Up(h, n + 1)
      BY <2>5
    <2> HIDE DEF h, Small, Up
    <2> QED
      BY <2>6, <2>7
  <1>4. Cardinality(S) \in T
    <2>1. Cardinality(S) \in Nat
      BY FS_CardinalityType
    <2> HIDE DEF T
    <2> QED
      BY <1>2, <1>3, <2>1, SetInduction
  <1>5. Small(Cardinality(S)) = SUBSET S
    BY <1>1
  <1> QED
    BY <1>4, <1>5 DEF IsFold

\* The partial sums of f exist, in the numbers its values are of.
LEMMA PartialSumsExist ==
    ASSUME NEW S, IsFiniteSet(S), NEW N \in {Nat, Int}, NEW f, \A x \in S : f[x] \in N
    PROVE  \E g \in [SUBSET S -> N] : PartialSums(f, g, S)
  <1>1. PICK F : F = [p \in N \X S |-> f[p[2]] + p[1]]
    OBVIOUS
  <1>2. PICK c : c = [s \in SUBSET S |-> Some(s)]
    OBVIOUS
  <1>3. F \in [N \X S -> N] /\ 0 \in N
    BY <1>1
  <1>4. \A s \in SUBSET S : s # {} => c[s] \in s
    BY <1>2, SomeFacts
  <1>5. PICK g \in [SUBSET S -> N] : IsFold(g, S, 0, F, c)
    BY <1>3, <1>4, FoldExists
  <1>6. ASSUME NEW s \in SUBSET S
        PROVE  g[s] = IF s = {} THEN 0 ELSE f[Some(s)] + g[s \ {Some(s)}]
    <2>1. CASE s = {}
      BY <1>5, <2>1 DEF IsFold
    <2>2. CASE s # {}
      <3>1. c[s] = Some(s) /\ c[s] \in S /\ s \ {c[s]} \in SUBSET S
        BY <1>2, <1>4, <2>2
      <3>2. g[s] = F[<<g[s \ {c[s]}], c[s]>>]
        BY <1>5, <2>2 DEF IsFold
      <3>3. F[<<g[s \ {c[s]}], c[s]>>] = f[c[s]] + g[s \ {c[s]}]
        BY <1>1, <3>1
      <3> QED
        BY <2>2, <3>1, <3>2, <3>3
    <2> QED
      BY <2>1, <2>2
  <1> QED
    BY <1>6 DEF PartialSums

\* Partial sums depend on the summands of the set only.
LEMMA PartialSumsAgree ==
    ASSUME NEW S, IsFiniteSet(S), NEW T \in SUBSET S,
           NEW f, NEW h, Agree(f, h, T),
           NEW g, PartialSums(f, g, T), NEW k, PartialSums(h, k, S)
    PROVE  g[T] = k[T]
  <1> DEFINE P == {n \in Nat : \A s \in SUBSET T : Cardinality(s) = n => g[s] = k[s]}
  <1>1. \A s \in SUBSET T : IsFiniteSet(s) /\ Cardinality(s) \in Nat /\ s \in SUBSET S
    BY FS_Subset, FS_CardinalityType
  <1>2. 0 \in P
    <2> SUFFICES ASSUME NEW s \in SUBSET T, Cardinality(s) = 0 PROVE g[s] = k[s]
      OBVIOUS
    <2>1. s = {} /\ s \in SUBSET S
      BY <1>1, FS_EmptySet
    <2> QED
      BY <2>1 DEF PartialSums
  <1>3. ASSUME NEW n \in Nat, n \in P PROVE n + 1 \in P
    <2> SUFFICES ASSUME NEW s \in SUBSET T, Cardinality(s) = n + 1 PROVE g[s] = k[s]
      OBVIOUS
    <2> DEFINE r == s \ {Some(s)}
    <2>1. s # {} /\ s \in SUBSET S
      BY <1>1, FS_EmptySet
    <2>2. Some(s) \in s /\ Some(s) \in T
      BY <2>1, SomeFacts
    <2>3. Cardinality(r) = n /\ r \in SUBSET T
      <3>1. IsFiniteSet(s)
        BY <1>1
      <3>2. Cardinality(s \ {Some(s)}) = Cardinality(s) - 1
        BY <2>2, <3>1, OneFewer, Zenon
      <3> QED
        BY <3>2
    <2>4. g[r] = k[r]
      BY <1>3, <2>3
    <2>5. g[s] = f[Some(s)] + g[r] /\ k[s] = h[Some(s)] + k[r]
      BY <2>1 DEF PartialSums
    <2>6. f[Some(s)] = h[Some(s)]
      BY <2>2 DEF Agree
    <2> QED
      BY <2>4, <2>5, <2>6
  <1> HIDE DEF P
  <1>4. Nat \subseteq P
    BY <1>2, <1>3, SetInduction
  <1> QED
    BY <1>1, <1>4 DEF P

\* The CHOOSE in MapThenSumSet finds partial sums.
LEMMA TallyIsPartialSum ==
    ASSUME NEW S, IsFiniteSet(S), NEW N \in {Nat, Int}, NEW f, \A x \in S : f[x] \in N
    PROVE  \E g \in [SUBSET S -> N] : PartialSums(f, g, S) /\ Tally(f, S) = g[S]
  <1> DEFINE Body(g) == [s \in SUBSET S |-> IF s = {} THEN 0
                             ELSE f[CHOOSE x \in s : TRUE] + g[s \ {CHOOSE x \in s : TRUE}]]
             h == CHOOSE g : g = Body(g)
  <1>1. Tally(f, S) = h[S]
    BY DEF Tally, MapThenSumSet, MapThenFoldSet
  <1>2. PICK g \in [SUBSET S -> N] : PartialSums(f, g, S)
    BY PartialSumsExist
  <1>3. g = Body(g)
    BY <1>2 DEF PartialSums, Some
  <1>4. h = Body(h)
    <2> HIDE DEF Body
    <2> QED
      BY <1>3
  <1>5. PartialSums(f, h, S)
    BY <1>4 DEF PartialSums, Some
  <1>6. PICK k : k = h
    OBVIOUS
  <1>7. PartialSums(f, k, S)
    BY <1>5, <1>6
  <1>8. k[S] = g[S]
    <2>1. S \in SUBSET S
      OBVIOUS
    <2>2. Agree(f, f, S)
      BY DEF Agree
    <2>3. PartialSums(f, g, S)
      BY <1>2
    <2> HIDE DEF h
    <2> QED
      BY <2>1, <2>2, <2>3, <1>7, PartialSumsAgree
  <1> HIDE DEF h
  <1> QED
    BY <1>1, <1>2, <1>6, <1>8

\* The order in which elements are taken does not matter.
LEMMA TakeAnyElement ==
    ASSUME NEW S, IsFiniteSet(S), NEW f, NEW g, IntegerSums(f, g, S), NEW e \in S
    PROVE  g[S] = f[e] + g[S \ {e}]
  <1>0. /\ \A x \in S : f[x] \in Int
        /\ g \in [SUBSET S -> Int] /\ PartialSums(f, g, S)
    BY DEF IntegerSums
  <1> DEFINE P == {n \in Nat : \A s \in SUBSET S : Cardinality(s) = n =>
                                  \A x \in s : g[s] = f[x] + g[s \ {x}]}
  <1>1. \A s \in SUBSET S : IsFiniteSet(s) /\ Cardinality(s) \in Nat
    BY FS_Subset, FS_CardinalityType
  <1>2. 0 \in P
    BY <1>1, FS_EmptySet
  <1>3. ASSUME NEW n \in Nat, n \in P PROVE n + 1 \in P
    <2> SUFFICES ASSUME NEW s \in SUBSET S, Cardinality(s) = n + 1, NEW x \in s
                 PROVE  g[s] = f[x] + g[s \ {x}]
      OBVIOUS
    <2> DEFINE y == Some(s)
    <2>1. y \in s /\ g[s] = f[y] + g[s \ {y}]
      BY <1>0, SomeFacts DEF PartialSums
    <2> HIDE DEF y
    <2>2. CASE x = y
      BY <2>1, <2>2
    <2>3. CASE x # y
      <3> DEFINE u == s \ {x}
                 v == s \ {y}
                 w == s \ {x, y}
      <3>1. /\ u \in SUBSET S /\ v \in SUBSET S /\ w \in SUBSET S
            /\ y \in u /\ x \in v /\ u \ {y} = w /\ v \ {x} = w
        BY <2>1, <2>3
      <3>2. Cardinality(u) = n /\ Cardinality(v) = n
        <4>1. IsFiniteSet(s)
          BY <1>1
        <4>2. Cardinality(s \ {x}) = Cardinality(s) - 1 /\ Cardinality(s \ {y}) = Cardinality(s) - 1
          BY <2>1, <4>1, OneFewer
        <4> QED
          BY <4>2
      <3>3. \A r \in SUBSET S : Cardinality(r) = n => \A z \in r : g[r] = f[z] + g[r \ {z}]
        BY <1>3
      <3> HIDE DEF u, v, w
      <3>4. g[u] = f[y] + g[w] /\ g[v] = f[x] + g[w]
        BY <3>1, <3>2, <3>3
      <3>5. f[x] \in Int /\ f[y] \in Int /\ g[u] \in Int /\ g[v] \in Int /\ g[w] \in Int
        BY <1>0, <2>1, <3>1
      <3>6. g[s] = f[y] + g[v]
        BY <2>1 DEF v
      <3>7. g[s] = f[x] + g[u]
        BY <3>4, <3>5, <3>6
      <3> QED
        BY <3>7 DEF u
    <2> QED
      BY <2>2, <2>3
  <1> HIDE DEF P
  <1>4. Nat \subseteq P
    BY <1>2, <1>3, SetInduction
  <1> QED
    BY <1>1, <1>4 DEF P

\* What a sum is: nothing for no element, one summand more for one element more.
LEMMA TallyOfNone == ASSUME NEW f PROVE Tally(f, {}) = 0
  <1>1. \A x \in {} : f[x] \in Int
    OBVIOUS
  <1>2. IsFiniteSet({})
    BY FS_EmptySet
  <1>3. PICK g \in [SUBSET {} -> Int] : PartialSums(f, g, {}) /\ Tally(f, {}) = g[{}]
    BY <1>1, <1>2, TallyIsPartialSum
  <1> QED
    BY <1>3 DEF PartialSums

\* A sum of natural numbers is one, a sum of integers is one.
LEMMA TallyType ==
    ASSUME NEW S, IsFiniteSet(S), NEW N \in {Nat, Int}, NEW f, \A x \in S : f[x] \in N
    PROVE  Tally(f, S) \in N
  <1>1. PICK g \in [SUBSET S -> N] : PartialSums(f, g, S) /\ Tally(f, S) = g[S]
    BY TallyIsPartialSum
  <1>2. S \in SUBSET S
    OBVIOUS
  <1> QED
    BY <1>1, <1>2

\* A sum depends on the summands of the set only.
LEMMA TallyAgrees ==
    ASSUME NEW S, IsFiniteSet(S), NEW f, NEW h, \A x \in S : f[x] \in Int /\ f[x] = h[x]
    PROVE  Tally(f, S) = Tally(h, S)
  <1>1. PICK g \in [SUBSET S -> Int] : PartialSums(f, g, S) /\ Tally(f, S) = g[S]
    BY TallyIsPartialSum
  <1>2. PICK k \in [SUBSET S -> Int] : PartialSums(h, k, S) /\ Tally(h, S) = k[S]
    <2>1. \A x \in S : h[x] \in Int
      OBVIOUS
    <2> QED
      BY <2>1, TallyIsPartialSum
  <1>3. S \in SUBSET S /\ Agree(f, h, S)
    BY DEF Agree
  <1> QED
    BY <1>1, <1>2, <1>3, PartialSumsAgree

\* One element more adds its summand.
LEMMA TallyGrows ==
    ASSUME NEW S, IsFiniteSet(S), NEW y, y \notin S, NEW f, \A x \in S \cup {y} : f[x] \in Int
    PROVE  Tally(f, S \cup {y}) = Tally(f, S) + f[y]
  <1>0. PICK U : U = S \cup {y}
    OBVIOUS
  <1>1. IsFiniteSet(U) /\ U \in SUBSET U /\ S \in SUBSET U /\ y \in U /\ U \ {y} = S
    BY <1>0, FS_AddElement
  <1>2. PICK g \in [SUBSET U -> Int] : PartialSums(f, g, U) /\ Tally(f, U) = g[U]
    BY <1>0, <1>1, TallyIsPartialSum
  <1>3. PICK k \in [SUBSET S -> Int] : PartialSums(f, k, S) /\ Tally(f, S) = k[S]
    BY TallyIsPartialSum
  <1>4. k[S] = g[S]
    <2>1. S \in SUBSET S /\ Agree(f, f, S)
      BY DEF Agree
    <2> QED
      BY <1>1, <1>2, <1>3, <2>1, PartialSumsAgree
  <1>5. g[U] = f[y] + g[U \ {y}]
    <2>1. IntegerSums(f, g, U)
      BY <1>0, <1>2 DEF IntegerSums
    <2> QED
      BY <1>1, <2>1, TakeAnyElement
  <1>6. f[y] \in Int /\ g[S] \in Int
    BY <1>0, <1>1, <1>2
  <1>7. Tally(f, U) = Tally(f, S) + f[y]
    <2>1. g[U] = f[y] + g[S]
      BY <1>1, <1>5
    <2> QED
      BY <1>2, <1>3, <1>4, <1>6, <2>1
  <1> QED
    BY <1>0, <1>7

\* Induction over a finite set: a family that has the empty set and, with a subset of S,
\* the subset with an element more, has S.
LEMMA SubsetInduction ==
    ASSUME NEW S, IsFiniteSet(S), NEW Q \in SUBSET (SUBSET S), {} \in Q,
           \A s \in Q : \A x \in S \ s : s \cup {x} \in Q
    PROVE  S \in Q
  <1> DEFINE P == {n \in Nat : \A s \in SUBSET S : Cardinality(s) = n => s \in Q}
  <1>1. \A s \in SUBSET S : IsFiniteSet(s) /\ Cardinality(s) \in Nat
    BY FS_Subset, FS_CardinalityType
  <1>2. 0 \in P
    BY <1>1, FS_EmptySet
  <1>3. ASSUME NEW n \in Nat, n \in P PROVE n + 1 \in P
    <2> SUFFICES ASSUME NEW s \in SUBSET S, Cardinality(s) = n + 1 PROVE s \in Q
      OBVIOUS
    <2>1. PICK x : x \in s
      BY FS_EmptySet
    <2>2. Cardinality(s \ {x}) = Cardinality(s) - 1
      BY <1>1, <2>1, OneFewer
    <2>3. s \ {x} \in SUBSET S /\ x \in S \ (s \ {x})
      BY <2>1
    <2>4. s \ {x} \in Q
      BY <1>3, <2>2, <2>3
    <2>5. (s \ {x}) \cup {x} \in Q
      BY <2>3, <2>4
    <2>6. (s \ {x}) \cup {x} = s
      BY <2>1
    <2> QED
      BY <2>5, <2>6
  <1> HIDE DEF P
  <1>4. Nat \subseteq P
    BY <1>2, <1>3, SetInduction
  <1> QED
    BY <1>1, <1>4 DEF P

\* Sums over two sets that have no element in common.
LEMMA TallyUnion ==
    ASSUME NEW S, IsFiniteSet(S), NEW U, IsFiniteSet(U), S \cap U = {},
           NEW f, \A x \in S \cup U : f[x] \in Int
    PROVE  Tally(f, S \cup U) = Tally(f, S) + Tally(f, U)
  <1> DEFINE Q == {u \in SUBSET U : Tally(f, S \cup u) = Tally(f, S) + Tally(f, u)}
  <1>0. Tally(f, S) \in Int
    BY TallyType
  <1>1. {} \in Q
    <2>1. S \cup {} = S
      OBVIOUS
    <2> QED
      BY <1>0, <2>1, TallyOfNone
  <1>2. ASSUME NEW u \in Q, NEW x \in U \ u PROVE u \cup {x} \in Q
    <2>1. IsFiniteSet(u) /\ IsFiniteSet(S \cup u)
      BY FS_Subset, FS_Union
    <2>2. x \notin S \cup u /\ x \notin u
      OBVIOUS
    <2>3. /\ \A y \in (S \cup u) \cup {x} : f[y] \in Int
          /\ \A y \in u \cup {x} : f[y] \in Int
          /\ \A y \in u : f[y] \in Int
      OBVIOUS
    <2>4. Tally(f, (S \cup u) \cup {x}) = Tally(f, S \cup u) + f[x]
      BY <2>1, <2>2, <2>3, TallyGrows
    <2>5. Tally(f, u \cup {x}) = Tally(f, u) + f[x]
      BY <2>1, <2>2, <2>3, TallyGrows
    <2>6. Tally(f, u) \in Int /\ f[x] \in Int
      BY <2>1, <2>3, TallyType
    <2>7. (S \cup u) \cup {x} = S \cup (u \cup {x})
      OBVIOUS
    <2>8. Tally(f, S \cup u) = Tally(f, S) + Tally(f, u)
      OBVIOUS
    <2>9. Tally(f, S \cup (u \cup {x})) = (Tally(f, S) + Tally(f, u)) + f[x]
      BY <2>4, <2>7, <2>8, Zenon
    <2>10. (Tally(f, S) + Tally(f, u)) + f[x] = Tally(f, S) + (Tally(f, u) + f[x])
      BY <1>0, <2>6
    <2>11. Tally(f, S \cup (u \cup {x})) = Tally(f, S) + Tally(f, u \cup {x})
      BY <2>5, <2>9, <2>10, Zenon
    <2> QED
      BY <2>11
  <1>3. Q \in SUBSET (SUBSET U)
    OBVIOUS
  <1>4. U \in Q
    <2> HIDE DEF Q
    <2> QED
      BY <1>1, <1>2, <1>3, SubsetInduction
  <1> QED
    BY <1>4

\* Sums of equal summands.
LEMMA TallyOfEqual ==
    ASSUME NEW S, IsFiniteSet(S), NEW n \in Int, NEW f, \A x \in S : f[x] = n
    PROVE  Tally(f, S) = n * Cardinality(S)
  <1> DEFINE Q == {u \in SUBSET S : Tally(f, u) = n * Cardinality(u)}
  <1>1. {} \in Q
    BY TallyOfNone, FS_EmptySet
  <1>2. ASSUME NEW u \in Q, NEW x \in S \ u PROVE u \cup {x} \in Q
    <2>1. IsFiniteSet(u)
      BY FS_Subset
    <2>2. \A y \in u \cup {x} : f[y] \in Int
      OBVIOUS
    <2>3. Tally(f, u \cup {x}) = Tally(f, u) + f[x]
      BY <2>1, <2>2, TallyGrows
    <2>4. Cardinality(u \cup {x}) = Cardinality(u) + 1 /\ Cardinality(u) \in Nat
      BY <2>1, FS_AddElement, FS_CardinalityType
    <2>5. \A m \in Nat : n * (m + 1) = n * m + n
      OBVIOUS
    <2>6. Tally(f, u) = n * Cardinality(u) /\ f[x] = n
      OBVIOUS
    <2>7. Tally(f, u \cup {x}) = n * Cardinality(u \cup {x})
      BY <2>3, <2>4, <2>5, <2>6
    <2> QED
      BY <2>7
  <1>3. Q \in SUBSET (SUBSET S)
    OBVIOUS
  <1>4. S \in Q
    <2> HIDE DEF Q
    <2> QED
      BY <1>1, <1>2, <1>3, SubsetInduction
  <1> QED
    BY <1>4

\* A sum over the images of S is the sum over S of the images' summands.
LEMMA TallyOfImages ==
    ASSUME NEW S, IsFiniteSet(S), NEW e, \A x, y \in S : e[x] = e[y] => x = y,
           NEW f, NEW h, \A x \in S : f[e[x]] \in Int /\ h[x] = f[e[x]]
    PROVE  Tally(f, {e[x] : x \in S}) = Tally(h, S)
  <1> DEFINE Im(u) == {e[x] : x \in u}
             Q == {u \in SUBSET S : IsFiniteSet(Im(u)) /\ Tally(f, Im(u)) = Tally(h, u)}
  <1>1. {} \in Q
    <2>1. Im({}) = {}
      OBVIOUS
    <2> QED
      BY <2>1, TallyOfNone, FS_EmptySet
  <1>2. ASSUME NEW u \in Q, NEW x \in S \ u PROVE u \cup {x} \in Q
    <2>1. IsFiniteSet(u) /\ IsFiniteSet(Im(u)) /\ u \in SUBSET S /\ Tally(f, Im(u)) = Tally(h, u)
      BY FS_Subset
    <2>2. /\ \A y \in Im(u) \cup {e[x]} : f[y] \in Int
          /\ \A y \in u \cup {x} : h[y] \in Int
          /\ e[x] \notin Im(u) /\ h[x] = f[e[x]]
      OBVIOUS
    <2>3. Im(u \cup {x}) = Im(u) \cup {e[x]}
      OBVIOUS
    <2> HIDE DEF Im
    <2>4. Tally(f, Im(u) \cup {e[x]}) = Tally(f, Im(u)) + f[e[x]]
      <3>1. PICK s, y : s = Im(u) /\ y = e[x]
        OBVIOUS
      <3>2. IsFiniteSet(s) /\ y \notin s /\ \A z \in s \cup {y} : f[z] \in Int
        BY <2>1, <2>2, <3>1
      <3>3. Tally(f, s \cup {y}) = Tally(f, s) + f[y]
        BY <3>2, TallyGrows, SMTT(30)
      <3> QED
        BY <3>1, <3>3
    <2>5. Tally(h, u \cup {x}) = Tally(h, u) + h[x]
      <3>1. IsFiniteSet(u) /\ x \notin u /\ \A y \in u \cup {x} : h[y] \in Int
        BY <2>1, <2>2
      <3> QED
        BY <3>1, TallyGrows, ZenonT(30)
    <2>6. IsFiniteSet(Im(u) \cup {e[x]})
      BY <2>1, FS_AddElement
    <2>7. Tally(f, Im(u \cup {x})) = Tally(h, u \cup {x}) /\ IsFiniteSet(Im(u \cup {x}))
      BY <2>1, <2>2, <2>3, <2>4, <2>5, <2>6
    <2>8. u \cup {x} \in SUBSET S
      BY <2>1
    <2> QED
      BY <2>7, <2>8
  <1>3. Q \in SUBSET (SUBSET S)
    OBVIOUS
  <1>4. S \in Q
    <2> HIDE DEF Q
    <2> QED
      BY <1>1, <1>2, <1>3, SubsetInduction
  <1> QED
    BY <1>4

===============================================================================
