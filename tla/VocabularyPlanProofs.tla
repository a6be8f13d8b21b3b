------------------------ MODULE VocabularyPlanProofs ------------------------
(***************************************************************************)
(* What planVocabulary (internal/storage/error_reasons.go) guarantees for  *)
(* every batch: it never hands out more slots than are free, and it leaves *)
(* none free while it folds a value.  And the facts about sums over finite *)
(* sets that the accounts of folded records need: the library's sum is     *)
(* shown to count a set, by an induction over finite sets that goes        *)
(* through a smallest counterexample.                                      *)
(***************************************************************************)
EXTENDS VocabularyPlan, FiniteSetTheorems, TLAPS

\* The position of a fresh value in the order planVocabulary sorts by.
Rank(values, known, counts, r) == Cardinality(Ahead(values, known, counts, r))

\* The first n naturals.
LEMMA NaturalsBelow ==
  ASSUME NEW n \in Nat
  PROVE  IsFiniteSet(0..(n - 1)) /\ Cardinality(0..(n - 1)) = n
<1>1. 0 \in Int /\ n - 1 \in Int
  OBVIOUS
<1>2. /\ IsFiniteSet(0..(n - 1))
      /\ Cardinality(0..(n - 1)) = IF 0 > n - 1 THEN 0 ELSE (n - 1) - 0 + 1
  BY <1>1, FS_Interval, Zenon
<1>3. (IF 0 > n - 1 THEN 0 ELSE (n - 1) - 0 + 1) = n
  OBVIOUS
<1> QED  BY <1>2, <1>3

\* The order is a strict total order.
LEMMA BeforeOrder ==
  ASSUME NEW counts, NEW a \in Int, NEW b \in Int, NEW c \in Int,
         counts[a] \in Nat, counts[b] \in Nat, counts[c] \in Nat
  PROVE  /\ ~ Before(counts, a, a)
         /\ Before(counts, a, b) /\ Before(counts, b, c) => Before(counts, a, c)
         /\ a = b \/ Before(counts, a, b) \/ Before(counts, b, a)
  BY DEF Before

\* A value sorted ahead of another has fewer values ahead of itself.
LEMMA RankMonotone ==
  ASSUME NEW values, IsFiniteSet(values), values \subseteq Int, NEW known,
         NEW counts, \A v \in values : counts[v] \in Nat,
         NEW a \in Fresh(values, known), NEW b \in Fresh(values, known),
         Before(counts, a, b)
  PROVE  Rank(values, known, counts, a) < Rank(values, known, counts, b)
<1> DEFINE A == Ahead(values, known, counts, a)
           B == Ahead(values, known, counts, b)
<1>1. A \in SUBSET B /\ a \in B /\ a \notin A
  <2>1. \A v \in Fresh(values, known) : v \in Int /\ counts[v] \in Nat
    BY Zenon DEF Fresh
  <2>2. ~ Before(counts, a, a)
    BY <2>1, BeforeOrder, Zenon
  <2>3. ASSUME NEW q \in A PROVE q \in B
    <3>1. q \in Fresh(values, known) /\ Before(counts, q, a)
      BY <2>3, Zenon DEF Ahead
    <3>2. Before(counts, q, b)
      BY <2>1, <3>1, BeforeOrder, Zenon
    <3> QED  BY <3>1, <3>2 DEF Ahead
  <2> QED  BY <2>2, <2>3 DEF Ahead
<1>2. IsFiniteSet(B)
  <2>1. B \in SUBSET values
    BY Zenon DEF Ahead, Fresh
  <2> QED  BY <2>1, FS_Subset
<1>3. /\ IsFiniteSet(A) /\ Cardinality(A) <= Cardinality(B)
      /\ Cardinality(B) = Cardinality(A) => B = A
  BY <1>1, <1>2, FS_Subset, Zenon
<1>4. Cardinality(A) \in Nat /\ Cardinality(B) \in Nat
  BY <1>2, <1>3, FS_CardinalityType, Zenon
<1> QED  BY <1>1, <1>3, <1>4 DEF Rank

\* Positions are below the number of fresh values, and no two are equal.
LEMMA RankInjective ==
  ASSUME NEW values, IsFiniteSet(values), values \subseteq Int, NEW known,
         NEW counts, \A v \in values : counts[v] \in Nat
  PROVE  LET F == Fresh(values, known)
         IN  /\ IsFiniteSet(F)
             /\ \A r \in F : Rank(values, known, counts, r) \in 0..(Cardinality(F) - 1)
             /\ \A a, b \in F : Rank(values, known, counts, a) = Rank(values, known, counts, b) => a = b
<1> DEFINE F == Fresh(values, known)
<1>1. IsFiniteSet(F) /\ F \subseteq values
  BY FS_Subset, Zenon DEF Fresh
<1>2. ASSUME NEW r \in F
      PROVE  Rank(values, known, counts, r) \in 0..(Cardinality(F) - 1)
  <2> DEFINE A == Ahead(values, known, counts, r)
  <2>1. A \in SUBSET F /\ r \notin A
    <3>1. r \in Int /\ counts[r] \in Nat
      BY <1>1, Zenon
    <3>2. ~ Before(counts, r, r)
      BY <3>1, BeforeOrder, Zenon
    <3> QED  BY <3>2 DEF Ahead
  <2>2. /\ IsFiniteSet(A) /\ Cardinality(A) <= Cardinality(F)
        /\ Cardinality(F) = Cardinality(A) => F = A
    BY <1>1, <2>1, FS_Subset, Zenon
  <2>3. Cardinality(A) \in Nat /\ Cardinality(F) \in Nat
    BY <1>1, <2>2, FS_CardinalityType, Zenon
  <2>4. Cardinality(A) # Cardinality(F)
    BY <2>1, <2>2, Zenon
  <2> QED  BY <2>2, <2>3, <2>4 DEF Rank
<1>3. ASSUME NEW a \in F, NEW b \in F,
             Rank(values, known, counts, a) = Rank(values, known, counts, b)
      PROVE  a = b
  <2>1. a \in Int /\ b \in Int /\ counts[a] \in Nat /\ counts[b] \in Nat
    BY <1>1, Zenon
  <2>2. a = b \/ Before(counts, a, b) \/ Before(counts, b, a)
    BY <2>1, BeforeOrder, Zenon
  <2> DEFINE ra == Rank(values, known, counts, a)
             rb == Rank(values, known, counts, b)
  <2>3. ra \in Int /\ rb \in Int /\ ra = rb
    BY <1>2, <1>3
  <2>4. Before(counts, a, b) => ra < rb
    BY RankMonotone, Zenon
  <2>5. Before(counts, b, a) => rb < ra
    BY RankMonotone, Zenon
  <2> HIDE DEF ra, rb
  <2> QED  BY <2>2, <2>3, <2>4, <2>5
<1> QED  BY <1>1, <1>2, <1>3

\* planVocabulary hands out at most room slots, none if room is not positive.
THEOREM PlanAddBound ==
  ASSUME NEW values, IsFiniteSet(values), values \subseteq Int, NEW known,
         NEW counts, \A v \in values : counts[v] \in Nat, NEW room \in Int
  PROVE  LET add == PlanAdd(values, known, counts, room)
         IN  /\ add \subseteq values \ known
             /\ IsFiniteSet(add)
             /\ room <= 0 => add = {}
             /\ room >= 0 => Cardinality(add) <= room
<1> DEFINE F == Fresh(values, known)
           A == PlanAdd(values, known, counts, room)
           rank == [r \in A |-> Rank(values, known, counts, r)]
<1>1. /\ IsFiniteSet(F)
      /\ \A r \in F : Rank(values, known, counts, r) \in 0..(Cardinality(F) - 1)
      /\ \A a, b \in F : Rank(values, known, counts, a) = Rank(values, known, counts, b) => a = b
  BY RankInjective, Zenon
<1>2. A \subseteq F /\ \A r \in A : Rank(values, known, counts, r) < room
  BY Zenon DEF PlanAdd, Rank
<1>3. IsFiniteSet(A)
  BY <1>1, <1>2, FS_Subset, Zenon
<1>4. room <= 0 => A = {}
  BY <1>1, <1>2
<1>5. ASSUME room >= 0 PROVE Cardinality(A) <= room
  <2>1. rank \in Injection(A, 0..(room - 1))
    BY <1>1, <1>2, <1>5 DEF Injection, IsInjective
  <2>2. IsFiniteSet(0..(room - 1)) /\ Cardinality(0..(room - 1)) = room
    BY <1>5, NaturalsBelow
  <2> QED  BY <2>1, <2>2, FS_Injection
<1> QED  BY <1>2, <1>3, <1>4, <1>5 DEF Fresh

\* planVocabulary folds a value only if it hands out every free slot.
THEOREM PlanAddFills ==
  ASSUME NEW values, IsFiniteSet(values), values \subseteq Int, NEW known,
         NEW counts, \A v \in values : counts[v] \in Nat, NEW room \in Int
  PROVE  LET add == PlanAdd(values, known, counts, room)
         IN  \/ values \ known \subseteq add
             \/ room < 0
             \/ Cardinality(add) = room
<1> DEFINE F == Fresh(values, known)
           A == PlanAdd(values, known, counts, room)
           n == Cardinality(F)
           rankF == [r \in F |-> Rank(values, known, counts, r)]
           rankA == [r \in A |-> Rank(values, known, counts, r)]
<1> SUFFICES ASSUME ~ (F \subseteq A), room >= 0 PROVE Cardinality(A) = room
  BY DEF Fresh
<1>1. /\ IsFiniteSet(F)
      /\ \A r \in F : Rank(values, known, counts, r) \in 0..(n - 1)
      /\ \A a, b \in F : Rank(values, known, counts, a) = Rank(values, known, counts, b) => a = b
  BY RankInjective, Zenon
<1>2. n \in Nat
  BY <1>1, FS_CardinalityType, Zenon
<1>3. /\ A \subseteq F /\ \A r \in A : Rank(values, known, counts, r) < room
      /\ \A r \in F : Rank(values, known, counts, r) < room => r \in A
  BY Zenon DEF PlanAdd, Rank
<1>4. room < n
  BY <1>1, <1>2, <1>3
<1>5. rankF \in Injection(F, 0..(n - 1))
  BY <1>1, Zenon DEF Injection, IsInjective
<1>6. IsFiniteSet(0..(n - 1)) /\ Cardinality(0..(n - 1)) = n
  BY <1>2, NaturalsBelow, Zenon
<1>7. rankF \in Surjection(F, 0..(n - 1))
  BY <1>5, <1>6, FS_Injection, Zenon
<1>8. \A k \in 0..(n - 1) : \E r \in F : Rank(values, known, counts, r) = k
  BY <1>7, Zenon DEF Surjection
<1>9. rankA \in Injection(A, 0..(room - 1))
  BY <1>1, <1>3 DEF Injection, IsInjective
<1>10. rankA \in Surjection(A, 0..(room - 1))
  <2>1. rankA \in [A -> 0..(room - 1)]
    BY <1>1, <1>3
  <2>2. ASSUME NEW k \in 0..(room - 1) PROVE \E r \in A : rankA[r] = k
    <3>1. PICK r \in F : Rank(values, known, counts, r) = k
      BY <1>2, <1>4, <1>8
    <3> QED  BY <1>3, <3>1
  <2> QED  BY <2>1, <2>2 DEF Surjection
<1>11. IsFiniteSet(0..(room - 1)) /\ Cardinality(0..(room - 1)) = room
  BY NaturalsBelow
<1> QED  BY <1>9, <1>10, <1>11, FS_Injection

\* Hence what is planned for a table, or part of it, fits within the limit.
LEMMA PlanFitsRoom ==
  ASSUME NEW T, IsFiniteSet(T), NEW limit \in Nat,
         NEW values, IsFiniteSet(values), values \subseteq Int, NEW known,
         NEW counts, \A v \in values : counts[v] \in Nat
  PROVE  LET new == PlanAdd(values, known, counts, limit - Cardinality(T))
         IN  /\ IsFiniteSet(new) /\ new \subseteq values
             /\ \A A \in SUBSET new : A = {} \/ Cardinality(T \cup A) <= limit
<1> DEFINE room == limit - Cardinality(T)
           new == PlanAdd(values, known, counts, room)
<1>1. Cardinality(T) \in Nat /\ room \in Int
  BY FS_CardinalityType
<1>2. /\ new \subseteq values \ known /\ IsFiniteSet(new)
      /\ room <= 0 => new = {}
      /\ room >= 0 => Cardinality(new) <= room
  <2> HIDE DEF room
  <2> QED  BY <1>1, PlanAddBound, Zenon
<1>3. ASSUME NEW A \in SUBSET new, A # {} PROVE Cardinality(T \cup A) <= limit
  <2> HIDE DEF new
  <2>1. /\ IsFiniteSet(A) /\ Cardinality(A) <= Cardinality(new)
        /\ Cardinality(A) \in Nat /\ Cardinality(new) \in Nat
    BY <1>2, FS_Subset, FS_CardinalityType, Zenon
  <2>2. ~ (room <= 0)
    BY <1>2, <1>3, Zenon
  <2>3. Cardinality(T \cup A) = Cardinality(T) + Cardinality(A) - Cardinality(T \cap A)
    BY <2>1, FS_Union, Zenon
  <2>4. IsFiniteSet(T \cap A)
    BY <2>1, FS_Intersection, Zenon
  <2>5. Cardinality(T \cap A) \in Nat
    BY <2>4, FS_CardinalityType, Zenon
  <2> QED  BY <1>1, <1>2, <2>1, <2>2, <2>3, <2>5
<1> QED  BY <1>2, <1>3, Zenon

-----------------------------------------------------------------------------
(* Facts about the tables.                                                 *)

\* A touch lists nothing and removes nothing.
LEMMA TouchedDomain ==
  ASSUME NEW t, NEW vs, NEW a, NEW b
  PROVE  DOMAIN Touched(t, vs, a, b) = DOMAIN t
  BY Zenon DEF Touched

\* An insert lists its values.
LEMMA InsertedDomain ==
  ASSUME NEW t, NEW vs, NEW a
  PROVE  DOMAIN Inserted(t, vs, a) = DOMAIN t \cup vs
  BY Zenon DEF Inserted

\* A sweep removes its values.
LEMMA WithoutDomain ==
  ASSUME NEW t, NEW vs
  PROVE  DOMAIN Without(t, vs) = DOMAIN t \ vs
  BY Zenon DEF Without, Restrict

\* At most, and at most again.
LEMMA AtMostTrans ==
  ASSUME NEW a \in Nat, NEW b \in Nat, NEW l \in Nat, a <= b, b <= l
  PROVE  a <= l
  OBVIOUS

\* Counts add up to a count.
LEMMA NatSum ==
  ASSUME NEW a \in Nat, NEW b \in Nat
  PROVE  a + b \in Nat
  OBVIOUS

\* What fits in a table still fits after values were removed from it.
LEMMA SmallerFits ==
  ASSUME NEW S, NEW T, NEW A, IsFiniteSet(S), IsFiniteSet(A), T \subseteq S
  PROVE  /\ IsFiniteSet(T) /\ Cardinality(T) \in Nat /\ Cardinality(S) \in Nat
         /\ Cardinality(T) <= Cardinality(S)
         /\ Cardinality(T \cup A) \in Nat /\ Cardinality(S \cup A) \in Nat
         /\ Cardinality(T \cup A) <= Cardinality(S \cup A)
<1>1. IsFiniteSet(T) /\ Cardinality(T) <= Cardinality(S)
  BY FS_Subset, Zenon
<1>2. IsFiniteSet(S \cup A)
  BY FS_Union, Zenon
<1>3. IsFiniteSet(T \cup A) /\ Cardinality(T \cup A) <= Cardinality(S \cup A)
  <2>1. T \cup A \in SUBSET (S \cup A)
    OBVIOUS
  <2> QED  BY <1>2, <2>1, FS_Subset
<1> QED  BY <1>1, <1>2, <1>3, FS_CardinalityType

-----------------------------------------------------------------------------
(* Sums over finite sets.                                                  *)

\* A nonempty collection of subsets of a finite set has a smallest member: what
\* an induction over finite sets comes down to.
LEMMA LeastSubset ==
  ASSUME NEW S, IsFiniteSet(S), NEW T \in SUBSET (SUBSET S), T # {}
  PROVE  \E x \in T : \A y \in T : ~ (y \subseteq x /\ y # x)
<1>1. FiniteSubsetsOf(S) = SUBSET S
  BY FS_FiniteSubsetsOfFinite, Zenon
<1>2. IsWellFoundedOn(StrictSubsetOrdering(S), SUBSET S)
  BY <1>1, FS_StrictSubsetOrderingWellFounded, Zenon
<1>3. PICK x \in T : \A y \in T : ~ (<<y, x>> \in StrictSubsetOrdering(S))
  BY <1>2, WFMin, Zenon
<1> QED  BY <1>3, Zenon DEF StrictSubsetOrdering

\* A set with f[x] elements for every x in S: its size is the sum of f over S.
Stack(f, S) == UNION {{x} \X (1..f[x]) : x \in S}

\* It is finite.
LEMMA StackFinite ==
  ASSUME NEW f, NEW S, IsFiniteSet(S), \A x \in S : f[x] \in Nat
  PROVE  IsFiniteSet(Stack(f, S))
<1> DEFINE g == [x \in S |-> {x} \X (1..f[x])]
           R == {{x} \X (1..f[x]) : x \in S}
<1>1. g \in Surjection(S, R)
  BY Zenon DEF Surjection
<1>2. IsFiniteSet(R)
  BY <1>1, FS_Surjection, Zenon
<1>3. ASSUME NEW x \in S PROVE IsFiniteSet({x} \X (1..f[x]))
  <2>1. IsFiniteSet({x})
    BY FS_Singleton, Zenon
  <2>2. IsFiniteSet(1..f[x])
    BY FS_Interval
  <2> QED  BY <2>1, <2>2, FS_Product, Zenon
<1>4. \A T \in R : IsFiniteSet(T)
  BY <1>3, Zenon
<1> QED  BY <1>2, <1>4, FS_UNION, Zenon DEF Stack

\* One element of S contributes its own value.
LEMMA StackRemove ==
  ASSUME NEW f, NEW S, IsFiniteSet(S), \A x \in S : f[x] \in Nat, NEW x \in S
  PROVE  Cardinality(Stack(f, S)) = f[x] + Cardinality(Stack(f, S \ {x}))
<1> DEFINE A == {x} \X (1..f[x])
           B == Stack(f, S \ {x})
<1>1. Stack(f, S) = A \cup B
  BY Zenon DEF Stack
<1>2. A \cap B = {}
  BY DEF Stack
<1>3. IsFiniteSet(S \ {x})
  BY FS_RemoveElement, Zenon
<1>4. IsFiniteSet(B)
  BY <1>3, StackFinite, Zenon
<1>5. IsFiniteSet({x}) /\ Cardinality({x}) = 1
  BY FS_Singleton, Zenon
<1>6. IsFiniteSet(1..f[x]) /\ Cardinality(1..f[x]) = f[x]
  BY FS_Interval
<1>7. IsFiniteSet(A) /\ Cardinality(A) = f[x]
  <2>1. IsFiniteSet(A) /\ Cardinality(A) = Cardinality({x}) * Cardinality(1..f[x])
    BY <1>5, <1>6, FS_Product, Zenon
  <2> QED  BY <2>1, <1>5, <1>6
<1>8. Cardinality(A \cup B) = Cardinality(A) + Cardinality(B) - Cardinality(A \cap B)
  BY <1>4, <1>7, FS_Union, Zenon
<1>9. Cardinality(A \cap B) = 0
  BY <1>2, FS_EmptySet, Zenon
<1>10. Cardinality(B) \in Nat
  BY <1>4, FS_CardinalityType, Zenon
<1>11. Cardinality(Stack(f, S)) = f[x] + Cardinality(B)
  <2> HIDE DEF A, B
  <2> QED  BY <1>1, <1>7, <1>8, <1>9, <1>10
<1> QED  BY <1>11, Zenon

\* The equation by which the library defines its sums.
Unfolds(f, S, g) ==
  g = [s \in SUBSET S |->
         IF s = {} THEN 0
         ELSE f[CHOOSE x \in s : TRUE] + g[s \ {CHOOSE x \in s : TRUE}]]

\* The sum of the library is a solution of that equation, if there is one.
LEMMA SumUnfolds ==
  ASSUME NEW f, NEW S
  PROVE  SumFunctionOnSet(f, S) = (CHOOSE g : Unfolds(f, S, g))[S]
  BY Zenon DEF SumFunctionOnSet, FoldFunctionOnSet, MapThenFoldSet, Unfolds

\* The size of the stack is a solution.
LEMMA StackUnfolds ==
  ASSUME NEW f, NEW S, IsFiniteSet(S), \A x \in S : f[x] \in Nat
  PROVE  Unfolds(f, S, [s \in SUBSET S |-> Cardinality(Stack(f, s))])
<1> DEFINE G == [s \in SUBSET S |-> Cardinality(Stack(f, s))]
           H == [s \in SUBSET S |->
                   IF s = {} THEN 0
                   ELSE f[CHOOSE x \in s : TRUE] + G[s \ {CHOOSE x \in s : TRUE}]]
<1>1. ASSUME NEW s \in SUBSET S PROVE G[s] = H[s]
  <2>1. CASE s = {}
    <3>1. Stack(f, s) = {}
      BY <2>1, Zenon DEF Stack
    <3> QED  BY <2>1, <3>1, FS_EmptySet
  <2>2. CASE s # {}
    <3> DEFINE c == CHOOSE x \in s : TRUE
    <3>1. c \in s
      BY <2>2, Zenon
    <3>2. IsFiniteSet(s)
      BY FS_Subset, Zenon
    <3> HIDE DEF c
    <3>3. Cardinality(Stack(f, s)) = f[c] + Cardinality(Stack(f, s \ {c}))
      BY <3>1, <3>2, StackRemove
    <3> USE DEF c
    <3>4. G[s] = f[c] + G[s \ {c}]
      BY <3>3, <3>1, Zenon
    <3> QED  BY <3>4, <2>2, Zenon
  <2> QED  BY <2>1, <2>2, Zenon
<1>2. G = H
  <2> HIDE DEF G, H
  <2>1. G = [s \in SUBSET S |-> G[s]] /\ H = [s \in SUBSET S |-> H[s]]
    BY DEF G, H
  <2> QED  BY <1>1, <2>1, Zenon
<1> QED  BY <1>2, Zenon DEF Unfolds

\* There is no other: two solutions agree on a smallest set they differ on.
LEMMA UnfoldsUnique ==
  ASSUME NEW f, NEW S, IsFiniteSet(S), NEW g, NEW h, Unfolds(f, S, g), Unfolds(f, S, h)
  PROVE  g[S] = h[S]
<1> SUFFICES ASSUME g[S] # h[S] PROVE FALSE
  OBVIOUS
<1> DEFINE D == {s \in SUBSET S : g[s] # h[s]}
<1>1. PICK s \in D : \A t \in D : ~ (t \subseteq s /\ t # s)
  <2>1. D \in SUBSET (SUBSET S) /\ D # {}
    OBVIOUS
  <2> HIDE DEF D
  <2> QED  BY <2>1, LeastSubset
<1> DEFINE c == CHOOSE x \in s : TRUE
<1>2. s # {}
  BY <1>1, Zenon DEF Unfolds
<1>3. c \in s
  BY <1>2, Zenon
<1>4. g[s \ {c}] = h[s \ {c}]
  BY <1>1, <1>3
<1>5. g[s] = f[c] + g[s \ {c}]
  BY <1>1, <1>2, Zenon DEF Unfolds
<1>6. h[s] = f[c] + h[s \ {c}]
  BY <1>1, <1>2, Zenon DEF Unfolds
<1> QED  BY <1>1, <1>4, <1>5, <1>6, Zenon

\* Hence a sum of naturals over a finite set counts a set.
LEMMA SumIsStack ==
  ASSUME NEW f, NEW S, IsFiniteSet(S), \A x \in S : f[x] \in Nat
  PROVE  SumFunctionOnSet(f, S) = Cardinality(Stack(f, S))
<1> DEFINE G == [s \in SUBSET S |-> Cardinality(Stack(f, s))]
           I == CHOOSE g : Unfolds(f, S, g)
<1>1. Unfolds(f, S, G)
  BY StackUnfolds, Zenon
<1>2. Unfolds(f, S, I)
  BY <1>1, Zenon
<1>3. I[S] = G[S]
  <2> HIDE DEF I, G
  <2> QED  BY <1>1, <1>2, UnfoldsUnique, Zenon
<1> QED  BY <1>3, SumUnfolds, Zenon

\* A sum of naturals is a natural; over no element it is 0.
LEMMA SumNat ==
  ASSUME NEW f, NEW S, IsFiniteSet(S), \A x \in S : f[x] \in Nat
  PROVE  /\ SumFunctionOnSet(f, S) \in Nat
         /\ S = {} => SumFunctionOnSet(f, S) = 0
<1>1. IsFiniteSet(Stack(f, S))
  BY StackFinite, Zenon
<1>2. SumFunctionOnSet(f, S) = Cardinality(Stack(f, S))
  BY SumIsStack, Zenon
<1>3. S = {} => Stack(f, S) = {}
  BY Zenon DEF Stack
<1> QED  BY <1>1, <1>2, <1>3, FS_CardinalityType, FS_EmptySet, Zenon

\* Functions that agree on a set have the same sum over it.
LEMMA SumAgrees ==
  ASSUME NEW f, NEW g, NEW S, IsFiniteSet(S),
         \A x \in S : f[x] \in Nat /\ g[x] = f[x]
  PROVE  SumFunctionOnSet(g, S) = SumFunctionOnSet(f, S)
<1>1. {{x} \X (1..g[x]) : x \in S} = {{x} \X (1..f[x]) : x \in S}
  OBVIOUS
<1>2. Stack(g, S) = Stack(f, S)
  BY <1>1, Zenon DEF Stack
<1>3. \A x \in S : g[x] \in Nat
  BY Zenon
<1> QED  BY <1>2, <1>3, SumIsStack, Zenon

\* Leaving an element out takes its own value away, and no other.
LEMMA SumLoses ==
  ASSUME NEW f, NEW g, NEW S, IsFiniteSet(S), NEW y \in S,
         \A x \in S : f[x] \in Nat, \A x \in S \ {y} : g[x] = f[x]
  PROVE  SumFunctionOnSet(f, S) = f[y] + SumFunctionOnSet(g, S \ {y})
<1>1. IsFiniteSet(S \ {y})
  BY FS_RemoveElement, Zenon
<1>2. /\ SumFunctionOnSet(f, S) = Cardinality(Stack(f, S))
      /\ SumFunctionOnSet(f, S \ {y}) = Cardinality(Stack(f, S \ {y}))
  BY <1>1, SumIsStack, Zenon
<1>3. Cardinality(Stack(f, S)) = f[y] + Cardinality(Stack(f, S \ {y}))
  BY StackRemove
<1>4. SumFunctionOnSet(g, S \ {y}) = SumFunctionOnSet(f, S \ {y})
  BY <1>1, SumAgrees
<1> QED  BY <1>2, <1>3, <1>4, Zenon

\* A new element adds its own value, and no other.
LEMMA SumGains ==
  ASSUME NEW f, NEW g, NEW S, IsFiniteSet(S), NEW y, y \notin S, g[y] \in Nat,
         \A x \in S : f[x] \in Nat /\ g[x] = f[x]
  PROVE  SumFunctionOnSet(g, S \cup {y}) = g[y] + SumFunctionOnSet(f, S)
<1> DEFINE T == S \cup {y}
<1>1. IsFiniteSet(T) /\ T \ {y} = S /\ y \in T
  BY FS_AddElement, Zenon
<1>2. \A x \in T : g[x] \in Nat
  BY Zenon
<1>3. \A x \in T \ {y} : f[x] = g[x]
  BY <1>1, Zenon
<1> HIDE DEF T
<1>4. SumFunctionOnSet(g, T) = g[y] + SumFunctionOnSet(f, T \ {y})
  BY <1>1, <1>2, <1>3, SumLoses
<1> QED  BY <1>1, <1>4, Zenon DEF T
=============================================================================
