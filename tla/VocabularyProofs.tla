-------------------------- MODULE VocabularyProofs --------------------------
(***************************************************************************)
(* The two caps of a vendor instrument, for any number of concurrent       *)
(* exports, any batches, any limits and any sweeps.                        *)
(***************************************************************************)
EXTENDS Vocabulary, VocabularyPlanProofs

\* The writers inside the transaction that took the advisory lock.
Planning(w) == pc[w] \in {"reread names", "reread labels", "plan names", "plan labels", "commit"}

\* The advisory lock is held exactly by the writer inside its transaction.
LockHeld == \A w \in Writers : Planning(w) <=> lock = w

\* A request in progress has a batch and limits.
RequestOK == \A w \in Writers : pc[w] # "idle" =>
  counts[w] \in Batches /\ limits[w].names \in NameLimits /\ limits[w].labels \in LabelLimits

\* The names a writer has planned to add still fit: only a sweep, which makes
\* room, can change the table before the commit.
NamePlanFits == \A w \in Writers : pc[w] \in {"plan labels", "commit"} =>
  /\ IsFiniteSet(addNames[w])
  /\ addNames[w] = {} \/ Cardinality(DOMAIN names \cup addNames[w]) <= limits[w].names

\* Under every name so do the labels it has planned to add, if any.
LabelPlanFits == \A w \in Writers : pc[w] = "commit" =>
  /\ IsFiniteSet(addLabels[w])
  /\ \A n \in Names :
       \/ LabelsUnder(addLabels[w], n) = {}
       \/ Cardinality(LabelsUnder(DOMAIN labels, n) \cup LabelsUnder(addLabels[w], n)) <= limits[w].labels

\* What a writer believes listed is listed, or was until a sweep.
AdmissionOK(w) ==
  /\ knownNames[w] \subseteq DOMAIN names \cup swept.names
  /\ knownLabels[w] \subseteq DOMAIN labels \cup swept.labels
  /\ pc[w] \notin {"plan labels", "commit", "insert"} => addNames[w] = {}
  /\ pc[w] \notin {"commit", "insert"} => addLabels[w] = {}
  /\ pc[w] = "insert" => /\ addNames[w] \subseteq DOMAIN names \cup swept.names
                         /\ addLabels[w] \subseteq DOMAIN labels \cup swept.labels
AdmittedListed == \A w \in Writers : AdmissionOK(w)

Finite == IsFiniteSet(DOMAIN names) /\ IsFiniteSet(DOMAIN labels)

\* The inductive invariant behind the two caps.
VocabularyInv ==
  /\ TypeOK /\ Finite /\ LockHeld /\ RequestOK /\ NamePlanFits /\ LabelPlanFits
  /\ LabelsCapped /\ AdmittedListed /\ StoredWasListed

-----------------------------------------------------------------------------
(* Facts about batches and labels.                                         *)

\* The labels under a name, of two sets of pairs together.
LEMMA LabelsUnderUnion ==
  ASSUME NEW P, NEW Q, NEW n
  PROVE  LabelsUnder(P \cup Q, n) = LabelsUnder(P, n) \cup LabelsUnder(Q, n)
  BY DEF LabelsUnder

\* Fewer pairs have fewer labels.
LEMMA LabelsUnderSubset ==
  ASSUME NEW P, NEW Q, P \subseteq Q, NEW n
  PROVE  LabelsUnder(P, n) \subseteq LabelsUnder(Q, n)
  BY Zenon DEF LabelsUnder

\* Finitely many pairs have finitely many labels under a name.
LEMMA LabelsUnderFinite ==
  ASSUME NEW P, IsFiniteSet(P), NEW n
  PROVE  IsFiniteSet(LabelsUnder(P, n))
<1> DEFINE U == {p \in P : p[1] = n}
           second == [k \in U |-> k[2]]
<1>1. IsFiniteSet(U)
  BY FS_Subset, Zenon
<1>2. second \in Surjection(U, LabelsUnder(P, n))
  BY Zenon DEF Surjection, LabelsUnder
<1> QED  BY <1>1, <1>2, FS_Surjection, Zenon

\* A batch is finite, names positive integers, and has its points counted.
LEMMA BatchShape ==
  ASSUME NEW c \in Batches
  PROVE  /\ IsFiniteSet(DOMAIN c) /\ DOMAIN c \subseteq Keys
         /\ \A k \in DOMAIN c : c[k] \in Nat
<1>1. IsFiniteSet(DOMAIN c) /\ DOMAIN c \subseteq Keys /\ c \in [DOMAIN c -> Nat \ {0}]
  BY BatchAssumption, Zenon
<1> QED  BY <1>1, Zenon

\* The names and the pairs of a batch.
LEMMA BatchNames ==
  ASSUME NEW c \in Batches
  PROVE  /\ NamesOf(c) \subseteq Names /\ Names \subseteq Int /\ IsFiniteSet(NamesOf(c))
         /\ \A n \in NamesOf(c) : NameCounts(c)[n] \in Nat
<1> USE BatchShape
<1>1. NamesOf(c) \subseteq Names
  BY Zenon DEF NamesOf, Keys
<1>2. Names \subseteq Int
  BY BatchAssumption
<1>3. IsFiniteSet(NamesOf(c))
  <2> DEFINE first == [k \in DOMAIN c |-> k[1]]
             all == {k[1] : k \in DOMAIN c}
  <2>1. first \in Surjection(DOMAIN c, all)
    BY Zenon DEF Surjection
  <2>2. IsFiniteSet(all)
    BY <2>1, FS_Surjection, Zenon
  <2> QED  BY <2>2, FS_Subset, Zenon DEF NamesOf
<1>4. ASSUME NEW n \in NamesOf(c) PROVE NameCounts(c)[n] \in Nat
  <2> DEFINE K == {k \in DOMAIN c : k[1] = n}
  <2>1. IsFiniteSet(K) /\ \A k \in K : c[k] \in Nat
    BY FS_Subset, Zenon
  <2>2. SumFunctionOnSet(c, K) \in Nat
    BY <2>1, SumNat, Zenon
  <2> QED  BY <2>2, Zenon DEF NameCounts
<1> QED  BY <1>1, <1>2, <1>3, <1>4, Zenon

\* The labels of a batch under one name.
LEMMA BatchLabels ==
  ASSUME NEW c \in Batches, NEW n
  PROVE  LET L == LabelsUnder(PairsOf(c), n)
         IN  /\ PairsOf(c) \subseteq Names \X Labels /\ IsFiniteSet(PairsOf(c))
             /\ L \subseteq Int /\ IsFiniteSet(L)
             /\ \A l \in L : LabelCounts(c, n)[l] \in Nat
<1> DEFINE L == LabelsUnder(PairsOf(c), n)
<1> USE BatchShape
<1>1. PairsOf(c) \subseteq DOMAIN c
  BY Zenon DEF PairsOf
<1>2. PairsOf(c) \subseteq Names \X Labels
  BY DEF PairsOf, Keys
<1>3. IsFiniteSet(PairsOf(c)) /\ IsFiniteSet(L)
  BY <1>1, FS_Subset, LabelsUnderFinite, Zenon
<1>4. L \subseteq Int
  <2>1. L \subseteq Labels
    BY <1>2 DEF LabelsUnder
  <2> QED  BY <2>1, BatchAssumption
<1>5. ASSUME NEW l \in L PROVE LabelCounts(c, n)[l] \in Nat
  <2>1. PICK k \in PairsOf(c) : k[1] = n /\ k[2] = l
    BY Zenon DEF LabelsUnder
  <2>2. k = <<n, l>>
    BY <1>2, <2>1
  <2>3. LabelCounts(c, n)[l] = c[k]
    BY <2>2, Zenon DEF LabelCounts
  <2> QED  BY <1>1, <2>3, Zenon
<1> QED  BY <1>2, <1>3, <1>4, <1>5, Zenon

\* The names a writer plans fit within its limit.
LEMMA NamesPlanned ==
  ASSUME NEW w \in Writers, counts[w] \in Batches, limits[w].names \in NameLimits, Finite
  PROVE  LET new == PlanAdd(NamesOf(counts[w]), knownNames[w], NameCounts(counts[w]),
                            limits[w].names - Cardinality(DOMAIN names))
         IN  /\ IsFiniteSet(new) /\ new \subseteq NamesOf(counts[w])
             /\ new = {} \/ Cardinality(DOMAIN names \cup new) <= limits[w].names
<1> DEFINE c == counts[w]
           new == PlanAdd(NamesOf(c), knownNames[w], NameCounts(c),
                          limits[w].names - Cardinality(DOMAIN names))
<1>1. limits[w].names \in Nat /\ IsFiniteSet(DOMAIN names)
  BY VocabularyAssumption, Zenon DEF Finite
<1>2. /\ NamesOf(c) \subseteq Int /\ IsFiniteSet(NamesOf(c))
      /\ \A n \in NamesOf(c) : NameCounts(c)[n] \in Nat
  BY BatchNames, Zenon
<1>3. /\ IsFiniteSet(new) /\ new \subseteq NamesOf(c)
      /\ \A A \in SUBSET new : A = {} \/ Cardinality(DOMAIN names \cup A) <= limits[w].names
  BY <1>1, <1>2, PlanFitsRoom, Zenon
<1>4. new \in SUBSET new
  BY Zenon
<1> QED  BY <1>3, <1>4, Zenon

\* Under every name, the labels a writer plans fit within its limit.
LEMMA LabelsPlanned ==
  ASSUME NEW w \in Writers, counts[w] \in Batches, limits[w].labels \in LabelLimits, Finite,
         NEW new, new = {k \in PairsOf(counts[w]) :
                           k[1] \in AdmittedNames(w) /\ k[2] \in LabelPlan(w, k[1])}
  PROVE  /\ IsFiniteSet(new) /\ new \subseteq PairsOf(counts[w])
         /\ \A n \in Names :
              \/ LabelsUnder(new, n) = {}
              \/ Cardinality(LabelsUnder(DOMAIN labels, n) \cup LabelsUnder(new, n)) <= limits[w].labels
<1> DEFINE c == counts[w]
<1>1. IsFiniteSet(new) /\ new \subseteq PairsOf(c)
  <2>1. IsFiniteSet(PairsOf(c))
    BY BatchLabels, Zenon
  <2>2. new \subseteq PairsOf(c)
    BY Zenon
  <2> QED  BY <2>1, <2>2, FS_Subset, Zenon
<1>2. ASSUME NEW n \in Names
      PROVE  \/ LabelsUnder(new, n) = {}
             \/ Cardinality(LabelsUnder(DOMAIN labels, n) \cup LabelsUnder(new, n)) <= limits[w].labels
  <2> DEFINE T == LabelsUnder(DOMAIN labels, n)
             A == LabelsUnder(new, n)
             L == LabelsUnder(PairsOf(c), n)
  <2>1. limits[w].labels \in Nat /\ IsFiniteSet(T)
    BY VocabularyAssumption, LabelsUnderFinite, Zenon DEF Finite
  <2>2. /\ L \subseteq Int /\ IsFiniteSet(L)
        /\ \A l \in L : LabelCounts(c, n)[l] \in Nat
    BY BatchLabels, Zenon
  <2>3. A \in SUBSET LabelPlan(w, n)
    <3>1. ASSUME NEW l \in A PROVE l \in LabelPlan(w, n)
      <4>1. PICK k \in new : k[1] = n /\ k[2] = l
        BY Zenon DEF LabelsUnder
      <4>2. k[2] \in LabelPlan(w, k[1])
        BY Zenon
      <4> QED  BY <4>1, <4>2, Zenon
    <3> QED  BY <3>1, Zenon
  <2>4. \A B \in SUBSET LabelPlan(w, n) : B = {} \/ Cardinality(T \cup B) <= limits[w].labels
    BY <2>1, <2>2, PlanFitsRoom, Zenon DEF LabelPlan
  <2> QED  BY <2>3, <2>4, Zenon
<1> QED  BY <1>1, <1>2, Zenon

-----------------------------------------------------------------------------
(* The invariant.                                                          *)

\* The vocabulary is empty at first.
LEMMA VocabularyInit == Init => VocabularyInv
<1> SUFFICES ASSUME Init PROVE VocabularyInv
  OBVIOUS
<1>1. DOMAIN names = {} /\ DOMAIN labels = {}
  BY Zenon DEF Init, Empty
<1>2. 0 \in 0..MaxTime /\ 0 \in 0..MaxRequests
  BY VocabularyAssumption
<1>3. TypeOK
  BY <1>1, <1>2, Zenon DEF Init, TypeOK, Points, NoLimits
<1>4. Finite
  BY <1>1, FS_EmptySet, Zenon DEF Finite
<1>5. LockHeld /\ RequestOK /\ NamePlanFits /\ LabelPlanFits
  BY VocabularyAssumption, Zenon DEF Init, LockHeld, Planning, RequestOK, NamePlanFits, LabelPlanFits
<1>6. LabelsCapped
  <2> SUFFICES ASSUME NEW n \in Names PROVE Cardinality(LabelsUnder(DOMAIN labels, n)) <= 0
    BY Zenon DEF LabelsCapped
  <2>1. LabelsUnder(DOMAIN labels, n) = {}
    BY <1>1, Zenon DEF LabelsUnder
  <2>2. Cardinality({}) = 0
    BY FS_EmptySet, Zenon
  <2> QED  BY <2>1, <2>2
<1>7. AdmittedListed /\ StoredWasListed
  BY Zenon DEF Init, AdmittedListed, AdmissionOK, StoredWasListed
<1> QED  BY <1>3, <1>4, <1>5, <1>6, <1>7, Zenon DEF VocabularyInv

\* A step that leaves the tables alone keeps what is said of them.
LEMMA TablesUnchanged ==
  ASSUME VocabularyInv, UNCHANGED <<names, labels>>
  PROVE  Finite' /\ LabelsCapped'
  BY Zenon DEF VocabularyInv, Finite, LabelsCapped

\* A writer's step leaves what the others have read and planned as it was.
LEMMA OthersAdmitted ==
  ASSUME AdmittedListed, NEW w \in Writers, AdmissionOK(w)',
         DOMAIN names' = DOMAIN names, DOMAIN labels' = DOMAIN labels, UNCHANGED swept,
         \A v \in Writers \ {w} :
           /\ pc'[v] = pc[v] /\ knownNames'[v] = knownNames[v] /\ knownLabels'[v] = knownLabels[v]
           /\ addNames'[v] = addNames[v] /\ addLabels'[v] = addLabels[v]
  PROVE  AdmittedListed'
<1> SUFFICES ASSUME NEW v \in Writers, v # w PROVE AdmissionOK(v)'
  BY Zenon DEF AdmittedListed
<1>1. AdmissionOK(v)
  BY Zenon DEF AdmittedListed
<1>2. /\ pc'[v] = pc[v] /\ knownNames'[v] = knownNames[v] /\ knownLabels'[v] = knownLabels[v]
      /\ addNames'[v] = addNames[v] /\ addLabels'[v] = addLabels[v]
  BY Zenon
<1> QED  BY <1>1, <1>2, Zenon DEF AdmissionOK

\* A batch begins with nothing admitted.
LEMMA BeginKeeps ==
  ASSUME VocabularyInv, NEW w \in Writers, NEW c \in Batches,
         NEW nl \in NameLimits, NEW ll \in LabelLimits, Begin(w, c, nl, ll)
  PROVE  VocabularyInv'
<1>1. /\ pc[w] = "idle" /\ pc'[w] \in {"insert", "read names"}
      /\ pc' = [pc EXCEPT ![w] = pc'[w]]
      /\ counts' = [counts EXCEPT ![w] = c]
      /\ limits' = [limits EXCEPT ![w] = [names |-> nl, labels |-> ll]]
      /\ at' = [at EXCEPT ![w] = now]
      /\ requests < MaxRequests /\ requests' = requests + 1
      /\ UNCHANGED <<names, labels, overflow, lock, knownNames, knownLabels, stale,
                     addNames, addLabels, stored, swept, folds, now>>
  BY Zenon DEF VocabularyInv, TypeOK, Begin, Goto, tables, reads, plans, history
<1>2. requests' \in 0..MaxRequests
  <2>1. requests \in 0..MaxRequests /\ requests < MaxRequests /\ requests' = requests + 1
    BY <1>1, Zenon DEF VocabularyInv, TypeOK
  <2>2. MaxRequests \in Nat
    BY VocabularyAssumption, Zenon
  <2> QED  BY <2>1, <2>2
<1> USE DEF VocabularyInv
<1>3. TypeOK'
  BY <1>1, <1>2, Zenon DEF TypeOK, Points
<1>4. Finite' /\ LabelsCapped'
  BY <1>1, TablesUnchanged, Zenon
<1>5. LockHeld'
  BY <1>1, Zenon DEF TypeOK, LockHeld, Planning
<1>6. RequestOK' /\ NamePlanFits' /\ LabelPlanFits'
  BY <1>1, Zenon DEF TypeOK, RequestOK, NamePlanFits, LabelPlanFits
<1>7. AdmittedListed' /\ StoredWasListed'
  <2>1. AdmittedListed'
    <3>1. AdmissionOK(w)
      BY Zenon DEF AdmittedListed
    <3>2. AdmissionOK(w)'
      BY <1>1, <3>1, Zenon DEF TypeOK, AdmissionOK
    <3>3. \A v \in Writers \ {w} :
            /\ pc'[v] = pc[v] /\ knownNames'[v] = knownNames[v] /\ knownLabels'[v] = knownLabels[v]
            /\ addNames'[v] = addNames[v] /\ addLabels'[v] = addLabels[v]
      BY <1>1, Zenon DEF TypeOK
    <3> QED  BY <1>1, <3>2, <3>3, OthersAdmitted, Zenon
  <2>2. StoredWasListed'
    BY <1>1, Zenon DEF StoredWasListed
  <2> QED  BY <2>1, <2>2, Zenon
<1> QED  BY <1>3, <1>4, <1>5, <1>6, <1>7, Zenon

\* Reads learn only what is listed.
LEMMA ReadKeeps ==
  ASSUME VocabularyInv, NEW w \in Writers, ReadNames(w) \/ ReadLabels(w)
  PROVE  VocabularyInv'
<1> USE DEF VocabularyInv
<1>1. /\ pc' = [pc EXCEPT ![w] = pc'[w]]
      /\ \/ pc[w] = "read names" /\ pc'[w] = "read labels"
         \/ pc[w] = "reread names" /\ pc'[w] = "reread labels"
         \/ pc[w] = "read labels" /\ pc'[w] \in {"lock", "touch names", "insert"}
         \/ pc[w] = "reread labels" /\ pc'[w] = "plan names"
      /\ knownNames' = [knownNames EXCEPT ![w] = knownNames'[w]]
      /\ knownLabels' = [knownLabels EXCEPT ![w] = knownLabels'[w]]
      /\ knownNames'[w] \subseteq DOMAIN names \/ knownNames'[w] = knownNames[w]
      /\ knownLabels'[w] \subseteq DOMAIN labels \/ knownLabels'[w] = knownLabels[w]
      /\ UNCHANGED <<names, labels, overflow, lock, addNames, addLabels, counts, limits, at,
                     stored, swept, folds, now, requests>>
  <2>1. CASE ReadNames(w)
    <3>1. /\ pc[w] \in {"read names", "reread names"}
          /\ pc' = [pc EXCEPT ![w] = IF pc[w] = "read names" THEN "read labels" ELSE "reread labels"]
          /\ knownNames' = [knownNames EXCEPT ![w] = NamesOf(counts[w]) \cap DOMAIN names]
          /\ UNCHANGED <<knownLabels, names, labels, overflow, lock, addNames, addLabels,
                         counts, limits, at, stored, swept, folds, now, requests>>
      BY <2>1, Zenon DEF ReadNames, Goto, tables, plans, batch, history
    <3> QED  BY <3>1, Zenon DEF TypeOK
  <2>2. CASE ReadLabels(w)
    <3>1. /\ pc[w] \in {"read labels", "reread labels"}
          /\ pc' = [pc EXCEPT ![w] = pc'[w]]
          /\ pc[w] = "reread labels" => pc'[w] = "plan names"
          /\ pc[w] # "reread labels" => pc'[w] \in {"lock", "touch names", "insert"}
          /\ knownLabels' = [knownLabels EXCEPT ![w] = PairsOf(counts[w]) \cap DOMAIN labels]
          /\ UNCHANGED <<knownNames, names, labels, overflow, lock, addNames, addLabels,
                         counts, limits, at, stored, swept, folds, now, requests>>
      BY <2>2, Zenon DEF TypeOK, ReadLabels, Goto, tables, plans, batch, history
    <3> QED  BY <3>1, Zenon DEF TypeOK
  <2> QED  BY <2>1, <2>2, Zenon
<1>2. stale' \in [Writers -> BOOLEAN]
  <2>1. ASSUME NEW b \in BOOLEAN, stale' = [stale EXCEPT ![w] = b]
        PROVE  stale' \in [Writers -> BOOLEAN]
    BY <2>1, Zenon DEF TypeOK
  <2>2. Stale(names, NamesOf(counts[w]), StaleBefore(w)) \in BOOLEAN
    BY Zenon DEF Stale
  <2> QED  BY <2>1, <2>2, Zenon DEF ReadNames, ReadLabels
<1>3. TypeOK'
  <2>1. knownNames' \in [Writers -> SUBSET Names] /\ knownLabels' \in [Writers -> SUBSET (Names \X Labels)]
    BY <1>1, Zenon DEF TypeOK
  <2>2. pc'[w] \in Points
    BY <1>1, Zenon DEF Points
  <2>3. pc' \in [Writers -> Points]
    BY <1>1, <2>2, Zenon DEF TypeOK
  <2> QED  BY <1>1, <1>2, <2>1, <2>3, Zenon DEF TypeOK
<1>4. Finite' /\ LabelsCapped'
  BY <1>1, TablesUnchanged, Zenon
<1>5. LockHeld'
  BY <1>1, Zenon DEF TypeOK, LockHeld, Planning
<1>6. RequestOK' /\ NamePlanFits' /\ LabelPlanFits'
  BY <1>1, Zenon DEF TypeOK, RequestOK, NamePlanFits, LabelPlanFits
<1>7. AdmittedListed'
  <2>1. \A v \in Writers \ {w} :
          /\ pc'[v] = pc[v] /\ knownNames'[v] = knownNames[v] /\ knownLabels'[v] = knownLabels[v]
          /\ addNames'[v] = addNames[v] /\ addLabels'[v] = addLabels[v]
    BY <1>1, Zenon DEF TypeOK
  <2>2. AdmissionOK(w)
    BY Zenon DEF AdmittedListed
  <2>3. /\ knownNames'[w] \subseteq DOMAIN names \cup swept.names
        /\ knownLabels'[w] \subseteq DOMAIN labels \cup swept.labels
    BY <1>1, <2>2, Zenon DEF AdmissionOK
  <2>4. pc'[w] \notin {"plan labels", "commit"} /\ addNames[w] = {} /\ addLabels[w] = {}
    BY <1>1, <2>2, Zenon DEF AdmissionOK
  <2>5. AdmissionOK(w)'
    BY <1>1, <2>3, <2>4, Zenon DEF AdmissionOK
  <2> QED  BY <1>1, <2>1, <2>5, OthersAdmitted, Zenon
<1>8. StoredWasListed'
  BY <1>1, Zenon DEF StoredWasListed
<1> QED  BY <1>3, <1>4, <1>5, <1>6, <1>7, <1>8, Zenon

\* The lock is free when a writer takes it.
LEMMA LockKeeps ==
  ASSUME VocabularyInv, NEW w \in Writers, Lock(w)
  PROVE  VocabularyInv'
<1> USE DEF VocabularyInv
<1>1. /\ pc[w] = "lock" /\ pc' = [pc EXCEPT ![w] = "reread names"]
      /\ lock = NoWriter /\ lock' = w
      /\ UNCHANGED <<names, labels, overflow, knownNames, knownLabels, stale, addNames, addLabels,
                     counts, limits, at, stored, swept, folds, now, requests>>
  BY Zenon DEF Lock, Goto, reads, plans, batch, history
<1>2. TypeOK'
  BY <1>1, Zenon DEF TypeOK, Points
<1>3. Finite' /\ LabelsCapped'
  BY <1>1, TablesUnchanged, Zenon
<1>4. LockHeld'
  BY <1>1, VocabularyAssumption, Zenon DEF TypeOK, LockHeld, Planning
<1>5. RequestOK' /\ NamePlanFits' /\ LabelPlanFits'
  BY <1>1, Zenon DEF TypeOK, RequestOK, NamePlanFits, LabelPlanFits
<1>6. AdmittedListed' /\ StoredWasListed'
  <2>1. AdmittedListed'
    <3>1. AdmissionOK(w)
      BY Zenon DEF AdmittedListed
    <3>2. AdmissionOK(w)'
      BY <1>1, <3>1, Zenon DEF TypeOK, AdmissionOK
    <3>3. \A v \in Writers \ {w} :
            /\ pc'[v] = pc[v] /\ knownNames'[v] = knownNames[v] /\ knownLabels'[v] = knownLabels[v]
            /\ addNames'[v] = addNames[v] /\ addLabels'[v] = addLabels[v]
      BY <1>1, Zenon DEF TypeOK
    <3> QED  BY <1>1, <3>2, <3>3, OthersAdmitted, Zenon
  <2>2. StoredWasListed'
    BY <1>1, Zenon DEF StoredWasListed
  <2> QED  BY <2>1, <2>2, Zenon
<1> QED  BY <1>2, <1>3, <1>4, <1>5, <1>6, Zenon

\* The names planned fit within the limit of their writer.
LEMMA PlanNamesKeeps ==
  ASSUME VocabularyInv, NEW w \in Writers, PlanNames(w)
  PROVE  VocabularyInv'
<1> DEFINE new == PlanAdd(NamesOf(counts[w]), knownNames[w], NameCounts(counts[w]),
                          limits[w].names - Cardinality(DOMAIN names))
<1> USE DEF VocabularyInv
<1>1. /\ pc[w] = "plan names" /\ pc' = [pc EXCEPT ![w] = "plan labels"]
      /\ addNames' = [addNames EXCEPT ![w] = new]
      /\ UNCHANGED <<names, labels, overflow, lock, knownNames, knownLabels, stale, addLabels,
                     counts, limits, at, stored, swept, folds, now, requests>>
  BY Zenon DEF PlanNames, Goto, tables, reads, batch, history
<1>2. counts[w] \in Batches /\ limits[w].names \in NameLimits
  BY <1>1, Zenon DEF RequestOK
<1>3. /\ IsFiniteSet(new) /\ new \subseteq NamesOf(counts[w])
      /\ new = {} \/ Cardinality(DOMAIN names \cup new) <= limits[w].names
  BY <1>2, NamesPlanned, Zenon
<1>4. NamesOf(counts[w]) \subseteq Names
  BY <1>2, BatchNames, Zenon
<1> HIDE DEF new
<1>5. TypeOK'
  BY <1>1, <1>3, <1>4, Zenon DEF TypeOK, Points
<1>6. Finite' /\ LabelsCapped'
  BY <1>1, TablesUnchanged, Zenon
<1>7. LockHeld' /\ RequestOK'
  BY <1>1, Zenon DEF TypeOK, LockHeld, Planning, RequestOK
<1>8. NamePlanFits' /\ LabelPlanFits'
  BY <1>1, <1>3, Zenon DEF TypeOK, NamePlanFits, LabelPlanFits
<1>9. AdmittedListed' /\ StoredWasListed'
  <2>1. AdmittedListed'
    <3>1. AdmissionOK(w)
      BY Zenon DEF AdmittedListed
    <3>2. AdmissionOK(w)'
      BY <1>1, <3>1, Zenon DEF TypeOK, AdmissionOK
    <3>3. \A v \in Writers \ {w} :
            /\ pc'[v] = pc[v] /\ knownNames'[v] = knownNames[v] /\ knownLabels'[v] = knownLabels[v]
            /\ addNames'[v] = addNames[v] /\ addLabels'[v] = addLabels[v]
      BY <1>1, Zenon DEF TypeOK
    <3> QED  BY <1>1, <3>2, <3>3, OthersAdmitted, Zenon
  <2>2. StoredWasListed'
    BY <1>1, Zenon DEF StoredWasListed
  <2> QED  BY <2>1, <2>2, Zenon
<1> QED  BY <1>5, <1>6, <1>7, <1>8, <1>9, Zenon

\* So do the labels.
LEMMA PlanLabelsKeeps ==
  ASSUME VocabularyInv, NEW w \in Writers, PlanLabels(w)
  PROVE  VocabularyInv'
<1> DEFINE new == {k \in PairsOf(counts[w]) : k[1] \in AdmittedNames(w) /\ k[2] \in LabelPlan(w, k[1])}
<1> USE DEF VocabularyInv
<1>1. /\ pc[w] = "plan labels" /\ pc' = [pc EXCEPT ![w] = "commit"]
      /\ addLabels' = [addLabels EXCEPT ![w] = new]
      /\ UNCHANGED <<names, labels, overflow, lock, knownNames, knownLabels, stale, addNames,
                     counts, limits, at, stored, swept, folds, now, requests>>
  BY Zenon DEF PlanLabels, Goto, tables, reads, batch, history
<1>2. counts[w] \in Batches /\ limits[w].labels \in LabelLimits
  BY <1>1, Zenon DEF RequestOK
<1>3. /\ IsFiniteSet(new) /\ new \subseteq PairsOf(counts[w])
      /\ \A n \in Names :
           \/ LabelsUnder(new, n) = {}
           \/ Cardinality(LabelsUnder(DOMAIN labels, n) \cup LabelsUnder(new, n)) <= limits[w].labels
  BY <1>2, LabelsPlanned, Zenon
<1>4. PairsOf(counts[w]) \subseteq Names \X Labels
  BY <1>2, BatchLabels, Zenon
<1> HIDE DEF new
<1>5. TypeOK'
  BY <1>1, <1>3, <1>4, Zenon DEF TypeOK, Points
<1>6. Finite' /\ LabelsCapped'
  BY <1>1, TablesUnchanged, Zenon
<1>7. LockHeld' /\ RequestOK'
  BY <1>1, Zenon DEF TypeOK, LockHeld, Planning, RequestOK
<1>8. NamePlanFits' /\ LabelPlanFits'
  BY <1>1, <1>3, Zenon DEF TypeOK, NamePlanFits, LabelPlanFits
<1>9. AdmittedListed' /\ StoredWasListed'
  <2>1. AdmittedListed'
    <3>1. AdmissionOK(w)
      BY Zenon DEF AdmittedListed
    <3>2. AdmissionOK(w)'
      BY <1>1, <3>1, Zenon DEF TypeOK, AdmissionOK
    <3>3. \A v \in Writers \ {w} :
            /\ pc'[v] = pc[v] /\ knownNames'[v] = knownNames[v] /\ knownLabels'[v] = knownLabels[v]
            /\ addNames'[v] = addNames[v] /\ addLabels'[v] = addLabels[v]
      BY <1>1, Zenon DEF TypeOK
    <3> QED  BY <1>1, <3>2, <3>3, OthersAdmitted, Zenon
  <2>2. StoredWasListed'
    BY <1>1, Zenon DEF StoredWasListed
  <2> QED  BY <2>1, <2>2, Zenon
<1> QED  BY <1>5, <1>6, <1>7, <1>8, <1>9, Zenon

\* A touch changes no domain.
LEMMA TouchKeeps ==
  ASSUME VocabularyInv, NEW w \in Writers, TouchNames(w) \/ TouchLabels(w)
  PROVE  VocabularyInv'
<1> USE DEF VocabularyInv
<1>1. /\ pc[w] \in {"touch names", "touch labels"}
      /\ pc' = [pc EXCEPT ![w] = pc'[w]] /\ pc'[w] \in {"touch labels", "insert"}
      /\ names' = Touched(names, NamesOf(counts[w]), at[w], StaleBefore(w)) \/ names' = names
      /\ labels' = Touched(labels, PairsOf(counts[w]), at[w], StaleBefore(w)) \/ labels' = labels
      /\ UNCHANGED <<overflow, lock, knownNames, knownLabels, stale, addNames, addLabels,
                     counts, limits, at, stored, swept, folds, now, requests>>
  BY Zenon DEF TypeOK, TouchNames, TouchLabels, Goto, reads, plans, batch, history
<1>2. DOMAIN names' = DOMAIN names /\ \A n \in DOMAIN names : names'[n] \in 0..MaxTime
  <2>1. CASE names' = names
    BY <2>1, Zenon DEF TypeOK
  <2>2. CASE names' = Touched(names, NamesOf(counts[w]), at[w], StaleBefore(w))
    BY <2>2, Zenon DEF TypeOK, Touched
  <2> QED  BY <1>1, <2>1, <2>2, Zenon
<1>3. DOMAIN labels' = DOMAIN labels /\ \A k \in DOMAIN labels : labels'[k] \in 0..MaxTime
  <2>1. CASE labels' = labels
    BY <2>1, Zenon DEF TypeOK
  <2>2. CASE labels' = Touched(labels, PairsOf(counts[w]), at[w], StaleBefore(w))
    BY <2>2, Zenon DEF TypeOK, Touched
  <2> QED  BY <1>1, <2>1, <2>2, Zenon
<1>4. TypeOK'
  BY <1>1, <1>2, <1>3, Zenon DEF TypeOK, Points
<1>5. Finite' /\ LabelsCapped'
  BY <1>2, <1>3, Zenon DEF Finite, LabelsCapped
<1>6. LockHeld' /\ RequestOK'
  BY <1>1, Zenon DEF TypeOK, LockHeld, Planning, RequestOK
<1>7. NamePlanFits' /\ LabelPlanFits'
  BY <1>1, <1>2, <1>3, Zenon DEF TypeOK, NamePlanFits, LabelPlanFits
<1>8. AdmittedListed' /\ StoredWasListed'
  <2>1. AdmittedListed'
    <3>1. AdmissionOK(w)
      BY Zenon DEF AdmittedListed
    <3>2. AdmissionOK(w)'
      BY <1>1, <1>2, <1>3, <3>1, Zenon DEF TypeOK, AdmissionOK
    <3>3. \A v \in Writers \ {w} :
            /\ pc'[v] = pc[v] /\ knownNames'[v] = knownNames[v] /\ knownLabels'[v] = knownLabels[v]
            /\ addNames'[v] = addNames[v] /\ addLabels'[v] = addLabels[v]
      BY <1>1, <1>2, <1>3, Zenon DEF TypeOK
    <3> QED  BY <1>1, <1>2, <1>3, <3>2, <3>3, OthersAdmitted, Zenon
  <2>2. StoredWasListed'
    BY <1>1, <1>2, <1>3, Zenon DEF StoredWasListed
  <2> QED  BY <2>1, <2>2, Zenon
<1> QED  BY <1>4, <1>5, <1>6, <1>7, <1>8, Zenon

\* What an insert and a touch leave in a table.
LEMMA InsertedTouched ==
  ASSUME NEW t, NEW add, NEW vs, NEW a, NEW b,
         a \in 0..MaxTime, \A v \in DOMAIN t : t[v] \in 0..MaxTime
  PROVE  LET u == Touched(Inserted(t, add, a), vs, a, b)
         IN  DOMAIN u = DOMAIN t \cup add /\ \A v \in DOMAIN u : u[v] \in 0..MaxTime
<1> DEFINE i == Inserted(t, add, a)
           u == Touched(i, vs, a, b)
<1>1. DOMAIN i = DOMAIN t \cup add /\ \A v \in DOMAIN i : i[v] \in 0..MaxTime
  BY Zenon DEF Inserted
<1> HIDE DEF i
<1>2. DOMAIN u = DOMAIN i /\ \A v \in DOMAIN u : u[v] \in 0..MaxTime
  BY <1>1, Zenon DEF Touched
<1> QED  BY <1>1, <1>2, Zenon DEF i

\* The commit lists what was planned, and releases the lock.
LEMMA CommitKeeps ==
  ASSUME VocabularyInv, NEW w \in Writers, Commit(w)
  PROVE  VocabularyInv'
<1> USE DEF VocabularyInv
<1>1. /\ pc[w] = "commit" /\ pc' = [pc EXCEPT ![w] = "insert"]
      /\ lock' = NoWriter
      /\ UNCHANGED <<knownNames, knownLabels, stale, addNames, addLabels,
                     counts, limits, at, stored, swept, folds, now, requests>>
  BY Zenon DEF Commit, Goto, reads, plans, batch, history
<1>2. /\ names' = Touched(Inserted(names, addNames[w], at[w]),
                          NamesOf(counts[w]), at[w], StaleBefore(w))
      /\ labels' = Touched(Inserted(labels, addLabels[w], at[w]),
                           PairsOf(counts[w]), at[w], StaleBefore(w))
  BY Zenon DEF Commit
<1>3. /\ DOMAIN names' = DOMAIN names \cup addNames[w]
      /\ \A n \in DOMAIN names' : names'[n] \in 0..MaxTime
      /\ DOMAIN labels' = DOMAIN labels \cup addLabels[w]
      /\ \A k \in DOMAIN labels' : labels'[k] \in 0..MaxTime
  <2>1. /\ at[w] \in 0..MaxTime
        /\ \A n \in DOMAIN names : names[n] \in 0..MaxTime
        /\ \A k \in DOMAIN labels : labels[k] \in 0..MaxTime
    BY Zenon DEF TypeOK
  <2> DEFINE N == Touched(Inserted(names, addNames[w], at[w]), NamesOf(counts[w]), at[w], StaleBefore(w))
             L == Touched(Inserted(labels, addLabels[w], at[w]), PairsOf(counts[w]), at[w], StaleBefore(w))
  <2>2. DOMAIN N = DOMAIN names \cup addNames[w] /\ \A n \in DOMAIN N : N[n] \in 0..MaxTime
    BY <2>1, InsertedTouched, Zenon
  <2>3. DOMAIN L = DOMAIN labels \cup addLabels[w] /\ \A k \in DOMAIN L : L[k] \in 0..MaxTime
    BY <2>1, InsertedTouched, Zenon
  <2>4. names' = N /\ labels' = L
    BY <1>2, Zenon
  <2> HIDE DEF N, L
  <2> QED  BY <2>2, <2>3, <2>4, Zenon
<1>4. counts[w] \in Batches /\ limits[w].labels \in LabelLimits
  BY <1>1, Zenon DEF RequestOK
<1>5. TypeOK'
  <2>1. DOMAIN names' \in SUBSET Names /\ DOMAIN labels' \in SUBSET (Names \X Labels)
    BY <1>3, Zenon DEF TypeOK
  <2> QED  BY <1>1, <1>3, <2>1, Zenon DEF TypeOK, Points
<1>6. Finite'
  <2>1. IsFiniteSet(addNames[w]) /\ IsFiniteSet(addLabels[w])
    BY <1>1, Zenon DEF NamePlanFits, LabelPlanFits
  <2>2. IsFiniteSet(DOMAIN names \cup addNames[w]) /\ IsFiniteSet(DOMAIN labels \cup addLabels[w])
    BY <2>1, FS_Union, Zenon DEF Finite
  <2> QED  BY <1>3, <2>2, Zenon DEF Finite
<1>7. LabelsCapped'
  <2> SUFFICES ASSUME NEW n \in Names
               PROVE  \E l \in LabelLimits \cup {0} : Cardinality(LabelsUnder(DOMAIN labels', n)) <= l
    BY Zenon DEF LabelsCapped
  <2>1. LabelsUnder(DOMAIN labels', n) = LabelsUnder(DOMAIN labels, n) \cup LabelsUnder(addLabels[w], n)
    BY <1>3, LabelsUnderUnion
  <2>2. CASE LabelsUnder(addLabels[w], n) = {}
    <3>1. LabelsUnder(DOMAIN labels', n) = LabelsUnder(DOMAIN labels, n)
      BY <2>1, <2>2, Zenon
    <3> QED  BY <3>1, Zenon DEF LabelsCapped
  <2>3. CASE LabelsUnder(addLabels[w], n) # {}
    <3>1. Cardinality(LabelsUnder(DOMAIN labels', n)) <= limits[w].labels
      BY <1>1, <2>1, <2>3, Zenon DEF LabelPlanFits
    <3> QED  BY <1>4, <3>1, Zenon
  <2> QED  BY <2>2, <2>3, Zenon
<1>8. lock = w /\ \A v \in Writers : v # w => ~ Planning(v)
  BY <1>1, Zenon DEF LockHeld, Planning
<1>9. LockHeld'
  BY <1>1, <1>8, VocabularyAssumption, Zenon DEF TypeOK, LockHeld, Planning
<1>10. RequestOK' /\ NamePlanFits' /\ LabelPlanFits'
  <2>1. \A v \in Writers : pc'[v] \notin {"plan labels", "commit"}
    BY <1>1, <1>8, Zenon DEF TypeOK, Planning
  <2> QED  BY <1>1, <2>1, Zenon DEF TypeOK, RequestOK, NamePlanFits, LabelPlanFits
<1>11. AdmittedListed'
  <2> SUFFICES ASSUME NEW v \in Writers PROVE AdmissionOK(v)'
    BY Zenon DEF AdmittedListed
  <2>1. AdmissionOK(v)
    BY Zenon DEF AdmittedListed
  <2>2. CASE v = w
    <3>1. pc'[v] = "insert"
      BY <1>1, <2>2, Zenon DEF TypeOK
    <3> QED  BY <1>1, <1>3, <2>1, <2>2, <3>1, Zenon DEF AdmissionOK
  <2>3. CASE v # w
    <3>1. pc'[v] = pc[v]
      BY <1>1, <2>3, Zenon DEF TypeOK
    <3> QED  BY <1>1, <1>3, <2>1, <3>1, Zenon DEF AdmissionOK
  <2> QED  BY <2>2, <2>3, Zenon
<1>12. StoredWasListed'
  BY <1>1, <1>3, Zenon DEF StoredWasListed
<1> QED  BY <1>5, <1>6, <1>7, <1>9, <1>10, <1>11, <1>12, Zenon

\* A writer that ends its batch has nothing read or planned any more.
LEMMA ForgetKeeps ==
  ASSUME VocabularyInv, NEW w \in Writers, Forget(w), UNCHANGED <<names, labels, swept, now, requests>>,
         lock' = (IF lock = w THEN NoWriter ELSE lock)
  PROVE  /\ stored' \in SUBSET Keys => TypeOK'
         /\ Finite' /\ LockHeld' /\ RequestOK' /\ NamePlanFits' /\ LabelPlanFits'
         /\ LabelsCapped' /\ AdmittedListed'
<1> USE DEF VocabularyInv
<1>1. /\ pc' = [pc EXCEPT ![w] = "idle"]
      /\ counts' = [counts EXCEPT ![w] = Empty]
      /\ limits' = [limits EXCEPT ![w] = NoLimits]
      /\ at' = [at EXCEPT ![w] = 0]
      /\ knownNames' = [knownNames EXCEPT ![w] = {}]
      /\ knownLabels' = [knownLabels EXCEPT ![w] = {}]
      /\ stale' = [stale EXCEPT ![w] = FALSE]
      /\ addNames' = [addNames EXCEPT ![w] = {}]
      /\ addLabels' = [addLabels EXCEPT ![w] = {}]
  BY Zenon DEF Forget, Goto
<1>2. ASSUME stored' \in SUBSET Keys PROVE TypeOK'
  <2>1. 0 \in 0..MaxTime
    BY VocabularyAssumption
  <2>2. /\ counts' \in [Writers -> Batches \cup {Empty}]
        /\ limits' \in [Writers -> [names : NameLimits \cup {0}, labels : LabelLimits \cup {0}]]
        /\ at' \in [Writers -> 0..MaxTime]
    BY <1>1, <2>1, Zenon DEF TypeOK, NoLimits
  <2>3. /\ pc' \in [Writers -> Points] /\ lock' \in Writers \cup {NoWriter}
        /\ stale' \in [Writers -> BOOLEAN]
    BY <1>1, Zenon DEF TypeOK, Points
  <2>4. /\ knownNames' \in [Writers -> SUBSET Names] /\ addNames' \in [Writers -> SUBSET Names]
        /\ knownLabels' \in [Writers -> SUBSET (Names \X Labels)]
        /\ addLabels' \in [Writers -> SUBSET (Names \X Labels)]
    BY <1>1, Zenon DEF TypeOK
  <2> QED  BY <1>2, <2>2, <2>3, <2>4, Zenon DEF TypeOK
<1>3. Finite' /\ LabelsCapped'
  BY TablesUnchanged, Zenon
<1>4. \A v \in Writers \ {w} :
        /\ pc'[v] = pc[v] /\ counts'[v] = counts[v] /\ limits'[v] = limits[v]
        /\ knownNames'[v] = knownNames[v] /\ knownLabels'[v] = knownLabels[v]
        /\ addNames'[v] = addNames[v] /\ addLabels'[v] = addLabels[v]
  BY <1>1, Zenon DEF TypeOK
<1>5. /\ pc'[w] = "idle" /\ knownNames'[w] = {} /\ knownLabels'[w] = {}
      /\ addNames'[w] = {} /\ addLabels'[w] = {}
  BY <1>1, Zenon DEF TypeOK
<1>6. LockHeld'
  BY <1>4, <1>5, VocabularyAssumption, Zenon DEF LockHeld, Planning
<1>7. RequestOK' /\ NamePlanFits' /\ LabelPlanFits'
  BY <1>4, <1>5, Zenon DEF RequestOK, NamePlanFits, LabelPlanFits
<1>8. AdmittedListed'
  <2>1. AdmissionOK(w)'
    BY <1>5, Zenon DEF AdmissionOK
  <2> QED  BY <1>4, <2>1, OthersAdmitted, Zenon
<1> QED  BY <1>2, <1>3, <1>6, <1>7, <1>8, Zenon

\* The points are stored as the admission says, or the export is rejected.
LEMMA EndKeeps ==
  ASSUME VocabularyInv, NEW w \in Writers, Insert(w) \/ Fail(w)
  PROVE  VocabularyInv'
<1> USE DEF VocabularyInv
<1>1. Forget(w) /\ UNCHANGED <<names, labels, swept, now, requests>>
  BY Zenon DEF Insert, Fail, tables
<1>2. lock' = IF lock = w THEN NoWriter ELSE lock
  <2>1. CASE Insert(w)
    <3>1. pc[w] = "insert" /\ lock' = lock
      BY <2>1, Zenon DEF Insert, tables
    <3>2. lock # w
      BY <3>1, Zenon DEF LockHeld, Planning
    <3> QED  BY <3>1, <3>2, Zenon
  <2>2. CASE Fail(w)
    BY <2>2, Zenon DEF Fail
  <2> QED  BY <2>1, <2>2, Zenon
<1>3. stored' \in SUBSET Keys /\ StoredWasListed'
  <2>1. CASE Fail(w)
    <3>1. stored' = stored
      BY <2>1, Zenon DEF Fail
    <3> QED  BY <1>1, <3>1, Zenon DEF TypeOK, StoredWasListed
  <2>2. CASE Insert(w)
    <3>1. pc[w] = "insert" /\ stored' = stored \cup {StoredAs(w, k) : k \in DOMAIN counts[w]}
      BY <2>2, Zenon DEF Insert
    <3>2. /\ AdmittedNames(w) \subseteq DOMAIN names \cup swept.names
          /\ AdmittedNames(w) \subseteq Names
          /\ AdmittedLabels(w) \subseteq DOMAIN labels \cup swept.labels
          /\ AdmittedLabels(w) \subseteq Names \X Labels
      <4>1. AdmissionOK(w)
        BY Zenon DEF AdmittedListed
      <4>2. /\ knownNames[w] \subseteq Names /\ addNames[w] \subseteq Names
            /\ knownLabels[w] \subseteq Names \X Labels /\ addLabels[w] \subseteq Names \X Labels
        BY Zenon DEF TypeOK
      <4> QED  BY <3>1, <4>1, <4>2, Zenon DEF AdmissionOK, AdmittedNames, AdmittedLabels
    <3>3. ASSUME NEW k \in DOMAIN counts[w], NEW s, s = StoredAs(w, k)
          PROVE  /\ s \in Keys
                 /\ s[1] \in DOMAIN names \cup swept.names \cup {Other}
                 /\ s[1] = Other => s[2] = NoLabel
                 /\ s[2] \notin {Other, NoLabel} => s \in DOMAIN labels \cup swept.labels
      <4>1. k \in Keys
        <5>1. counts[w] \in Batches
          BY <3>1, Zenon DEF RequestOK
        <5> QED  BY <5>1, BatchShape, Zenon
      <4>2. CASE k[1] \notin AdmittedNames(w)
        <5>1. s = <<Other, NoLabel>>
          BY <3>3, <4>2, Zenon DEF StoredAs
        <5> QED  BY <5>1 DEF Keys
      <4>3. CASE k[1] \in AdmittedNames(w)
        <5>1. k[1] # Other /\ k[1] \in DOMAIN names \cup swept.names /\ k[1] \in Names
          BY <3>2, <4>3, BatchAssumption, Zenon DEF Other
        <5>2. CASE k[2] \in {Other, NoLabel} \cup LabelsUnder(AdmittedLabels(w), k[1])
          <6>1. s = k
            BY <3>3, <4>3, <5>2, Zenon DEF StoredAs
          <6>2. ASSUME k[2] \in LabelsUnder(AdmittedLabels(w), k[1])
                PROVE  k \in DOMAIN labels \cup swept.labels
            <7>1. PICK p \in AdmittedLabels(w) : p[1] = k[1] /\ p[2] = k[2]
              BY <6>2, Zenon DEF LabelsUnder
            <7>2. p \in Names \X Labels
              BY <3>2, Zenon
            <7>3. p = k
              BY <4>1, <7>1, <7>2 DEF Keys
            <7> QED  BY <3>2, <7>3, Zenon
          <6> QED  BY <4>1, <5>1, <5>2, <6>1, <6>2, Zenon
        <5>3. CASE k[2] \notin {Other, NoLabel} \cup LabelsUnder(AdmittedLabels(w), k[1])
          <6>1. s = <<k[1], Other>>
            BY <3>3, <4>3, <5>3, Zenon DEF StoredAs
          <6>2. s[1] = k[1] /\ s[2] = Other /\ s \in Keys
            BY <5>1, <6>1 DEF Keys
          <6> QED  BY <5>1, <6>2, Zenon
        <5> QED  BY <5>2, <5>3, Zenon
      <4> QED  BY <4>2, <4>3, Zenon
    <3>4. stored' \in SUBSET Keys
      BY <3>1, <3>3, Zenon DEF TypeOK
    <3>5. StoredWasListed'
      BY <1>1, <3>1, <3>3, Zenon DEF StoredWasListed
    <3> QED  BY <3>4, <3>5, Zenon
  <2> QED  BY <2>1, <2>2, Zenon
<1> QED  BY <1>1, <1>2, <1>3, ForgetKeeps, Zenon

\* A sweep takes no lock, but only makes room.
LEMMA SweepKeeps ==
  ASSUME VocabularyInv, NEW days \in Retentions, Sweep(days)
  PROVE  VocabularyInv'
<1> USE DEF VocabularyInv
<1>1. UNCHANGED <<overflow, lock, knownNames, knownLabels, stale, addNames, addLabels,
                  counts, limits, at, stored, folds, now, pc, requests>>
  BY Zenon DEF Sweep, reads, plans, batch
<1>2. PICK gn \in SUBSET DOMAIN names, gl \in SUBSET DOMAIN labels :
        /\ names' = Without(names, gn) /\ labels' = Without(labels, gl)
        /\ swept' = [names |-> swept.names \cup gn, labels |-> swept.labels \cup gl]
  <2> DEFINE gn == Expired(names, now - days)
             gl == Expired(labels, now - days) \cup {k \in DOMAIN labels : k[1] \notin DOMAIN names \ gn}
  <2>1. gn \in SUBSET DOMAIN names /\ gl \in SUBSET DOMAIN labels
    BY Zenon DEF Expired
  <2>2. /\ names' = Without(names, gn) /\ labels' = Without(labels, gl)
        /\ swept' = [names |-> swept.names \cup gn, labels |-> swept.labels \cup gl]
    BY Zenon DEF Sweep
  <2> HIDE DEF gn, gl
  <2> QED  BY <2>1, <2>2, Zenon
<1>3. /\ DOMAIN names' = DOMAIN names \ gn /\ DOMAIN labels' = DOMAIN labels \ gl
      /\ swept'.names = swept.names \cup gn /\ swept'.labels = swept.labels \cup gl
  BY <1>2, WithoutDomain, Zenon
<1>4. /\ \A n \in DOMAIN names' : names'[n] = names[n]
      /\ \A k \in DOMAIN labels' : labels'[k] = labels[k]
  BY <1>2, Zenon DEF Without, Restrict
<1>5. /\ DOMAIN names' \subseteq DOMAIN names /\ DOMAIN labels' \subseteq DOMAIN labels
      /\ DOMAIN names \cup swept.names \subseteq DOMAIN names' \cup swept'.names
      /\ DOMAIN labels \cup swept.labels \subseteq DOMAIN labels' \cup swept'.labels
  BY <1>3, Zenon
<1>6. TypeOK'
  <2>1. swept' \in [names : SUBSET Names, labels : SUBSET (Names \X Labels)]
    <3>1. swept.names \subseteq Names /\ swept.labels \subseteq Names \X Labels
      BY Zenon DEF TypeOK
    <3>2. gn \subseteq Names /\ gl \subseteq Names \X Labels
      BY Zenon DEF TypeOK
    <3>3. swept.names \cup gn \in SUBSET Names /\ swept.labels \cup gl \in SUBSET (Names \X Labels)
      BY <3>1, <3>2, Zenon
    <3> QED  BY <1>2, <3>3
  <2> QED  BY <1>1, <1>4, <1>5, <2>1, Zenon DEF TypeOK
<1>7. Finite'
  BY <1>5, FS_Subset, Zenon DEF Finite
<1>8. LabelsCapped'
  <2> SUFFICES ASSUME NEW n \in Names
               PROVE  \E l \in LabelLimits \cup {0} : Cardinality(LabelsUnder(DOMAIN labels', n)) <= l
    BY Zenon DEF LabelsCapped
  <2> DEFINE T == LabelsUnder(DOMAIN labels', n)
             U == LabelsUnder(DOMAIN labels, n)
  <2>1. PICK l \in LabelLimits \cup {0} : Cardinality(U) <= l
    BY Zenon DEF LabelsCapped
  <2>2. T \subseteq U /\ IsFiniteSet(U)
    BY <1>5, LabelsUnderSubset, LabelsUnderFinite, Zenon DEF Finite
  <2> HIDE DEF T, U
  <2>3. /\ Cardinality(T) <= Cardinality(U)
        /\ Cardinality(T) \in Nat /\ Cardinality(U) \in Nat
    BY <2>2, FS_Subset, FS_CardinalityType, Zenon
  <2>4. l \in Nat
    BY VocabularyAssumption
  <2>5. Cardinality(T) <= l
    BY <2>1, <2>3, <2>4, AtMostTrans, Zenon
  <2> QED  BY <2>5, Zenon DEF T
<1>9. LockHeld' /\ RequestOK'
  BY <1>1, Zenon DEF LockHeld, Planning, RequestOK
<1>10. NamePlanFits'
  <2> SUFFICES ASSUME NEW w \in Writers, pc[w] \in {"plan labels", "commit"}
               PROVE  /\ IsFiniteSet(addNames[w])
                      /\ \/ addNames[w] = {}
                         \/ Cardinality(DOMAIN names' \cup addNames[w]) <= limits[w].names
    BY <1>1, Zenon DEF NamePlanFits
  <2>1. /\ IsFiniteSet(addNames[w])
        /\ addNames[w] = {} \/ Cardinality(DOMAIN names \cup addNames[w]) <= limits[w].names
    BY Zenon DEF NamePlanFits
  <2>2. /\ Cardinality(DOMAIN names' \cup addNames[w]) \in Nat
        /\ Cardinality(DOMAIN names \cup addNames[w]) \in Nat
        /\ Cardinality(DOMAIN names' \cup addNames[w]) <= Cardinality(DOMAIN names \cup addNames[w])
    BY <1>5, <2>1, SmallerFits, Zenon DEF Finite
  <2>3. limits[w].names \in Nat
    BY VocabularyAssumption, Zenon DEF RequestOK
  <2> QED  BY <2>1, <2>2, <2>3, AtMostTrans, Zenon
<1>11. LabelPlanFits'
  <2> SUFFICES ASSUME NEW w \in Writers, pc[w] = "commit", NEW n \in Names
               PROVE  /\ IsFiniteSet(addLabels[w])
                      /\ \/ LabelsUnder(addLabels[w], n) = {}
                         \/ Cardinality(LabelsUnder(DOMAIN labels', n) \cup LabelsUnder(addLabels[w], n))
                              <= limits[w].labels
    <3>1. \A w \in Writers : pc[w] = "commit" => IsFiniteSet(addLabels[w])
      BY Zenon DEF LabelPlanFits
    <3> QED  BY <1>1, <3>1, Zenon DEF LabelPlanFits
  <2> DEFINE T == LabelsUnder(DOMAIN labels', n)
             U == LabelsUnder(DOMAIN labels, n)
             A == LabelsUnder(addLabels[w], n)
  <2>1. IsFiniteSet(addLabels[w]) /\ (A = {} \/ Cardinality(U \cup A) <= limits[w].labels)
    BY Zenon DEF LabelPlanFits
  <2>2. T \subseteq U /\ IsFiniteSet(U) /\ IsFiniteSet(A)
    BY <1>5, <2>1, LabelsUnderSubset, LabelsUnderFinite, Zenon DEF Finite
  <2>3. limits[w].labels \in Nat
    BY VocabularyAssumption, Zenon DEF RequestOK
  <2> HIDE DEF T, U, A
  <2>4. /\ Cardinality(T \cup A) \in Nat /\ Cardinality(U \cup A) \in Nat
        /\ Cardinality(T \cup A) <= Cardinality(U \cup A)
    BY <2>2, SmallerFits, Zenon
  <2>5. A = {} \/ Cardinality(T \cup A) <= limits[w].labels
    BY <2>1, <2>3, <2>4, AtMostTrans, Zenon
  <2> QED  BY <2>1, <2>5, Zenon DEF T, A
<1>12. AdmittedListed'
  <2> SUFFICES ASSUME NEW w \in Writers PROVE AdmissionOK(w)'
    BY Zenon DEF AdmittedListed
  <2>1. AdmissionOK(w)
    BY Zenon DEF AdmittedListed
  <2> QED  BY <1>1, <1>5, <2>1, Zenon DEF AdmissionOK
<1>13. StoredWasListed'
  BY <1>1, <1>5, Zenon DEF StoredWasListed
<1> QED  BY <1>6, <1>7, <1>8, <1>9, <1>10, <1>11, <1>12, <1>13, Zenon

\* Neither the clock nor a stuttering step touches any of it.
LEMMA ClockKeeps ==
  ASSUME VocabularyInv, Tick \/ UNCHANGED vars
  PROVE  VocabularyInv'
<1>1. UNCHANGED <<names, labels, lock, pc, counts, limits, at, knownNames, knownLabels, stale,
                  addNames, addLabels, stored, swept, requests>>
  BY Zenon DEF Tick, vars, tables, reads, plans, batch, history
<1>2. now' \in 0..MaxTime
  <2>1. now \in 0..MaxTime /\ (now' = now \/ (now < MaxTime /\ now' = now + 1))
    BY Zenon DEF VocabularyInv, TypeOK, Tick, vars
  <2>2. MaxTime \in Nat
    BY VocabularyAssumption, Zenon
  <2> QED  BY <2>1, <2>2
<1> USE DEF VocabularyInv
<1>3. TypeOK'
  BY <1>1, <1>2, Zenon DEF TypeOK
<1>4. Finite' /\ LabelsCapped'
  BY <1>1, TablesUnchanged, Zenon
<1>5. LockHeld' /\ RequestOK' /\ NamePlanFits' /\ LabelPlanFits'
  BY <1>1, Zenon DEF LockHeld, Planning, RequestOK, NamePlanFits, LabelPlanFits
<1>6. AdmittedListed' /\ StoredWasListed'
  BY <1>1, Zenon DEF AdmittedListed, AdmissionOK, StoredWasListed
<1> QED  BY <1>3, <1>4, <1>5, <1>6, Zenon

\* Every step preserves the invariant.
LEMMA VocabularyNext == VocabularyInv /\ [Next]_vars => VocabularyInv'
<1> SUFFICES ASSUME VocabularyInv, [Next]_vars PROVE VocabularyInv'
  OBVIOUS
<1>1. ASSUME NEW w \in Writers, Step(w) PROVE VocabularyInv'
  BY <1>1, ReadKeeps, TouchKeeps, LockKeeps, PlanNamesKeeps, PlanLabelsKeeps, CommitKeeps, EndKeeps, Zenon
     DEF Step
<1>2. ASSUME NEW w \in Writers, Fail(w) PROVE VocabularyInv'
  BY <1>2, EndKeeps, Zenon
<1> QED  BY <1>1, <1>2, BeginKeeps, SweepKeeps, ClockKeeps, Zenon DEF Next, Quiescent

\* The tables of a vendor instrument, their lock, and the plans and admissions of
\* every batch of admit are consistent in every reachable state.
THEOREM VocabularyInvariance == Spec => []VocabularyInv
  BY VocabularyInit, VocabularyNext, PTL DEF Spec

-----------------------------------------------------------------------------
(* The refinement.                                                         *)

\* What each step does to the set of listed names.
LEMMA NamesStep ==
  ASSUME VocabularyInv, [Next]_vars
  PROVE  \/ \E w \in Writers : /\ pc[w] = "commit"
                               /\ DOMAIN names' = DOMAIN names \cup addNames[w]
         \/ DOMAIN names' \subseteq DOMAIN names
<1>1. ASSUME NEW w \in Writers, Commit(w)
      PROVE  pc[w] = "commit" /\ DOMAIN names' = DOMAIN names \cup addNames[w]
  <2> DEFINE inserted == Inserted(names, addNames[w], at[w])
  <2>1. pc[w] = "commit" /\ names' = Touched(inserted, NamesOf(counts[w]), at[w], StaleBefore(w))
    BY <1>1, Zenon DEF Commit
  <2>2. DOMAIN inserted = DOMAIN names \cup addNames[w]
    BY InsertedDomain, Zenon
  <2> HIDE DEF inserted
  <2> QED  BY <2>1, <2>2, Zenon DEF Touched
<1>2. ASSUME NEW w \in Writers, TouchNames(w) PROVE DOMAIN names' = DOMAIN names
  <2>1. names' = Touched(names, NamesOf(counts[w]), at[w], StaleBefore(w))
    BY <1>2, Zenon DEF TouchNames
  <2> QED  BY <2>1, Zenon DEF Touched
<1>3. ASSUME NEW days \in Retentions, Sweep(days) PROVE DOMAIN names' \subseteq DOMAIN names
  <2> DEFINE gone == Expired(names, now - days)
  <2>1. names' = Without(names, gone)
    BY <1>3, Zenon DEF Sweep
  <2>2. DOMAIN names' = DOMAIN names \ gone
    BY <2>1, Zenon DEF Without, Restrict
  <2> QED  BY <2>2, Zenon
<1>4. ASSUME NEW w \in Writers,
             \/ \E c \in Batches, nl \in NameLimits, ll \in LabelLimits : Begin(w, c, nl, ll)
             \/ ReadNames(w) \/ ReadLabels(w) \/ TouchLabels(w) \/ Lock(w)
             \/ PlanNames(w) \/ PlanLabels(w) \/ Insert(w) \/ Fail(w)
      PROVE  names' = names
  BY <1>4, Zenon DEF Begin, ReadNames, ReadLabels, TouchLabels, Lock, PlanNames, PlanLabels,
                     Insert, Fail, tables
<1>5. Tick \/ Quiescent \/ UNCHANGED vars => names' = names
  BY Zenon DEF Tick, Quiescent, vars, tables
<1> QED  BY <1>1, <1>2, <1>3, <1>4, <1>5, Zenon DEF Next, Step

\* The names of an instrument implement the capped set: whatever the interleaving
\* of exports, failures and sweeps, admit lets the table grow only to a size that
\* the name limit of the admitting batch allows.
THEOREM NamesRefineCappedSet == Spec => RefinesCappedSet
<1>1. Init => NameSet!Init
  BY Zenon DEF Init, NameSet!Init, Empty
<1>2. ASSUME VocabularyInv, [Next]_vars PROVE [NameSet!Next]_(DOMAIN names)
  <2>1. CASE DOMAIN names' \subseteq DOMAIN names
    BY <2>1, Zenon DEF NameSet!Next, NameSet!Evict
  <2>2. ASSUME NEW w \in Writers, pc[w] = "commit", DOMAIN names' = DOMAIN names \cup addNames[w]
        PROVE  [NameSet!Next]_(DOMAIN names)
    <3>1. CASE addNames[w] = {}
      BY <2>2, <3>1, Zenon
    <3>2. CASE addNames[w] # {}
      <4>1. limits[w].names \in NameLimits /\ Cardinality(DOMAIN names') <= limits[w].names
        BY <1>2, <2>2, <3>2, Zenon DEF VocabularyInv, RequestOK, NamePlanFits
      <4>2. NameSet!Cardinality(DOMAIN names') = Cardinality(DOMAIN names')
        BY Zenon DEF NameSet!Cardinality, Cardinality
      <4> QED  BY <2>2, <4>1, <4>2 DEF NameSet!Next, NameSet!Admit
    <3> QED  BY <3>1, <3>2, Zenon
  <2> QED  BY <1>2, <2>1, <2>2, NamesStep, Zenon
<1> QED  BY <1>1, <1>2, VocabularyInvariance, PTL DEF Spec, RefinesCappedSet, NameSet!Spec

-----------------------------------------------------------------------------
(* Every folded point is counted.                                          *)

\* The points a writer folds, by name or by label.
Folded(w) == FoldedNames(w) + FoldedLabels(w)

\* The writers that still have to store their batch, and what each folds.
Pending == {w \in Writers : pc[w] = "insert"}
FoldedBy == [w \in Writers |-> Folded(w)]

\* The counters are naturals.
CountersOK == /\ overflow \in [names : Nat, labels : Nat]
              /\ folds \in [stored : Nat, lost : Nat]

\* Everything the batch of a writer names is among what it has read.
AllKnown(w) == /\ NamesOf(counts[w]) \subseteq AdmittedNames(w)
               /\ PairsOf(counts[w]) \subseteq AdmittedLabels(w)

\* A writer that found everything listed folds nothing.
TouchKnown == \A w \in Writers : pc[w] \in {"touch names", "touch labels"} => AllKnown(w)

\* The inductive invariant behind OverflowAccounted.
FoldInv == CountersOK /\ TouchKnown /\ OverflowAccounted

\* A sum of counts over part of a finite set is a natural, and 0 if the part kept
\* is all of it.
LEMMA PlanFoldedNat ==
  ASSUME NEW values, IsFiniteSet(values), NEW kept, NEW c, \A v \in values : c[v] \in Nat
  PROVE  PlanFolded(values, kept, c) \in Nat /\ (values \subseteq kept => PlanFolded(values, kept, c) = 0)
<1> DEFINE out == values \ kept
<1>1. IsFiniteSet(out) /\ \A v \in out : c[v] \in Nat
  BY FS_Subset, Zenon
<1>2. values \subseteq kept => out = {}
  BY Zenon
<1>3. PlanFolded(values, kept, c) = SumFunctionOnSet(c, out)
  BY Zenon DEF PlanFolded
<1> HIDE DEF out
<1> QED  BY <1>1, <1>2, <1>3, SumNat, Zenon

\* The names a batch folds, and the labels under the names K it keeps.
LEMMA BatchFolds ==
  ASSUME NEW c \in Batches \cup {Empty}, NEW K, NEW L
  PROVE  LET n == PlanFolded(NamesOf(c), K, NameCounts(c))
             l == PlanFolded({k \in PairsOf(c) : k[1] \in K}, L, c)
         IN  /\ n \in Nat /\ l \in Nat
             /\ NamesOf(c) \subseteq K /\ PairsOf(c) \subseteq L => n = 0 /\ l = 0
<1> DEFINE P == {k \in PairsOf(c) : k[1] \in K}
<1>1. /\ IsFiniteSet(NamesOf(c)) /\ \A n \in NamesOf(c) : NameCounts(c)[n] \in Nat
      /\ IsFiniteSet(PairsOf(c)) /\ \A k \in PairsOf(c) : c[k] \in Nat
  <2>1. CASE c \in Batches
    <3>1. IsFiniteSet(NamesOf(c)) /\ \A n \in NamesOf(c) : NameCounts(c)[n] \in Nat
      BY <2>1, BatchNames, Zenon
    <3>2. IsFiniteSet(PairsOf(c))
      BY <2>1, BatchLabels, Zenon
    <3>3. \A k \in PairsOf(c) : c[k] \in Nat
      BY <2>1, BatchShape, Zenon DEF PairsOf
    <3> QED  BY <3>1, <3>2, <3>3, Zenon
  <2>2. CASE c = Empty
    <3>1. DOMAIN c = {}
      BY <2>2, Zenon DEF Empty
    <3>2. NamesOf(c) = {} /\ PairsOf(c) = {}
      BY <3>1, Zenon DEF NamesOf, PairsOf
    <3> QED  BY <3>2, FS_EmptySet, Zenon
  <2> QED  BY <2>1, <2>2, Zenon
<1>2. IsFiniteSet(P) /\ \A k \in P : c[k] \in Nat
  BY <1>1, FS_Subset, Zenon
<1>3. PairsOf(c) \subseteq L => P \subseteq L
  BY Zenon
<1> HIDE DEF P
<1>4. PlanFolded(P, L, c) \in Nat /\ (P \subseteq L => PlanFolded(P, L, c) = 0)
  BY <1>2, PlanFoldedNat, Zenon
<1>5. /\ PlanFolded(NamesOf(c), K, NameCounts(c)) \in Nat
      /\ NamesOf(c) \subseteq K => PlanFolded(NamesOf(c), K, NameCounts(c)) = 0
  BY <1>1, PlanFoldedNat, Zenon
<1> QED  BY <1>3, <1>4, <1>5, Zenon DEF P

\* What a writer folds is a natural number.
LEMMA FoldedNat ==
  ASSUME TypeOK, NEW w \in Writers
  PROVE  /\ FoldedNames(w) \in Nat /\ FoldedLabels(w) \in Nat /\ Folded(w) \in Nat
<1>1. FoldedNames(w) \in Nat /\ FoldedLabels(w) \in Nat
  BY BatchFolds, Zenon DEF TypeOK, FoldedNames, FoldedLabels
<1> QED  BY <1>1, NatSum, Zenon DEF Folded

\* The sum of what pending writers fold is a sum of naturals over a finite set.
LEMMA PendingSum ==
  ASSUME TypeOK
  PROVE  /\ IsFiniteSet(Pending)
         /\ \A w \in Pending : FoldedBy[w] \in Nat
         /\ SumFunctionOnSet(FoldedBy, Pending) \in Nat
<1>1. IsFiniteSet(Pending)
  BY VocabularyAssumption, FS_Subset, Zenon DEF Pending
<1>2. \A w \in Pending : FoldedBy[w] \in Nat
  BY FoldedNat, Zenon DEF Pending, FoldedBy
<1> QED  BY <1>1, <1>2, SumNat, Zenon

\* The account, with the names of this section.
LEMMA AccountIs ==
  OverflowAccounted <=> overflow.names + overflow.labels =
                          folds.stored + folds.lost + SumFunctionOnSet(FoldedBy, Pending)
  BY Zenon DEF OverflowAccounted, FoldedBy, Folded, Pending

\* A step that changes no counter and no pending batch keeps the account.
LEMMA AccountKept ==
  ASSUME TypeOK, OverflowAccounted, UNCHANGED <<overflow, folds>>, Pending' = Pending,
         \A v \in Pending : Folded(v)' = Folded(v)
  PROVE  OverflowAccounted'
<1>1. \A v \in Pending : FoldedBy[v] \in Nat /\ FoldedBy'[v] = FoldedBy[v]
  BY PendingSum, Zenon DEF FoldedBy, Pending
<1>2. SumFunctionOnSet(FoldedBy', Pending) = SumFunctionOnSet(FoldedBy, Pending)
  BY <1>1, PendingSum, SumAgrees, Zenon
<1>3. overflow.names + overflow.labels = folds.stored + folds.lost + SumFunctionOnSet(FoldedBy', Pending')
  BY <1>2, AccountIs, Zenon
<1> QED  BY <1>3, Zenon DEF OverflowAccounted, FoldedBy, Folded, Pending

\* A batch that becomes pending brings what it folds, if that was counted.
LEMMA AccountGains ==
  ASSUME TypeOK, CountersOK, OverflowAccounted, NEW w \in Writers, NEW n \in Nat,
         Folded(w)' = n, UNCHANGED folds,
         overflow'.names + overflow'.labels = overflow.names + overflow.labels + n,
         w \notin Pending, Pending' = Pending \cup {w},
         \A v \in Pending : Folded(v)' = Folded(v)
  PROVE  OverflowAccounted'
<1>1. \A v \in Pending : FoldedBy[v] \in Nat /\ FoldedBy'[v] = FoldedBy[v]
  BY PendingSum, Zenon DEF FoldedBy, Pending
<1>2. FoldedBy'[w] = n
  BY Zenon DEF FoldedBy
<1>3. SumFunctionOnSet(FoldedBy', Pending \cup {w}) = n + SumFunctionOnSet(FoldedBy, Pending)
  BY <1>1, <1>2, PendingSum, SumGains
<1>4. /\ SumFunctionOnSet(FoldedBy, Pending) \in Nat
      /\ folds.stored \in Nat /\ folds.lost \in Nat
  BY PendingSum, Zenon DEF CountersOK
<1>5. overflow.names + overflow.labels = folds.stored + folds.lost + SumFunctionOnSet(FoldedBy, Pending)
  BY AccountIs, Zenon
<1>6. overflow'.names + overflow'.labels =
        folds'.stored + folds'.lost + SumFunctionOnSet(FoldedBy', Pending')
  BY <1>3, <1>4, <1>5
<1> QED  BY <1>6, Zenon DEF OverflowAccounted, FoldedBy, Folded, Pending

\* A batch that is no longer pending was stored, or lost.
LEMMA AccountLoses ==
  ASSUME TypeOK, CountersOK, OverflowAccounted, NEW w \in Pending, UNCHANGED overflow,
         folds'.stored + folds'.lost = folds.stored + folds.lost + Folded(w),
         Pending' = Pending \ {w},
         \A v \in Pending \ {w} : Folded(v)' = Folded(v)
  PROVE  OverflowAccounted'
<1>1. /\ IsFiniteSet(Pending) /\ \A v \in Pending : FoldedBy[v] \in Nat
      /\ SumFunctionOnSet(FoldedBy, Pending) \in Nat
  BY PendingSum, Zenon
<1>2. \A v \in Pending \ {w} : FoldedBy'[v] = FoldedBy[v]
  BY Zenon DEF FoldedBy, Pending
<1>3. SumFunctionOnSet(FoldedBy, Pending) = FoldedBy[w] + SumFunctionOnSet(FoldedBy', Pending \ {w})
  BY <1>1, <1>2, SumLoses
<1>4. FoldedBy[w] = Folded(w) /\ Folded(w) \in Nat
  BY <1>1, Zenon DEF FoldedBy, Pending
<1>5. SumFunctionOnSet(FoldedBy', Pending \ {w}) \in Nat
  <2>1. IsFiniteSet(Pending \ {w}) /\ \A v \in Pending \ {w} : FoldedBy'[v] \in Nat
    BY <1>1, <1>2, FS_RemoveElement, Zenon
  <2> QED  BY <2>1, SumNat, Zenon
<1>6. overflow.names + overflow.labels = folds.stored + folds.lost + SumFunctionOnSet(FoldedBy, Pending)
  BY AccountIs, Zenon
<1>7. folds.stored \in Nat /\ folds.lost \in Nat
  BY Zenon DEF CountersOK
<1>8. overflow'.names + overflow'.labels =
        folds'.stored + folds'.lost + SumFunctionOnSet(FoldedBy', Pending')
  BY <1>3, <1>4, <1>5, <1>6, <1>7
<1> QED  BY <1>8, Zenon DEF OverflowAccounted, FoldedBy, Folded, Pending

\* What a writer folds depends on its own batch, reads and plan only.
LEMMA FoldedStays ==
  ASSUME NEW v \in Writers, counts'[v] = counts[v],
         knownNames'[v] = knownNames[v], knownLabels'[v] = knownLabels[v],
         addNames'[v] = addNames[v], addLabels'[v] = addLabels[v]
  PROVE  Folded(v)' = Folded(v) /\ (AllKnown(v)' <=> AllKnown(v))
<1>1. AdmittedNames(v)' = AdmittedNames(v)
  BY Zenon DEF AdmittedNames
<1>2. AdmittedLabels(v)' = AdmittedLabels(v)
  BY <1>1, Zenon DEF AdmittedLabels
<1>3. FoldedNames(v)' = FoldedNames(v)
  BY <1>1, Zenon DEF FoldedNames
<1>4. FoldedLabels(v)' = FoldedLabels(v)
  BY <1>1, <1>2, Zenon DEF FoldedLabels
<1> QED  BY <1>1, <1>2, <1>3, <1>4, Zenon DEF Folded, AllKnown

\* A step of a writer outside the write changes neither the counters nor a
\* pending batch; it makes its own pending only with nothing folded.
LEMMA OwnStepFold ==
  ASSUME TypeOK, TypeOK', CountersOK, OverflowAccounted, NEW w \in Writers, w \notin Pending,
         UNCHANGED <<overflow, folds>>,
         pc' = [pc EXCEPT ![w] = pc'[w]], pc'[w] = "insert" => AllKnown(w)',
         \A v \in Writers \ {w} : Folded(v)' = Folded(v)
  PROVE  CountersOK' /\ OverflowAccounted'
<1>0. \A v \in Writers \ {w} : pc'[v] = pc[v]
  BY Zenon DEF TypeOK
<1>1. /\ overflow.names \in Nat /\ overflow.labels \in Nat
      /\ CountersOK'
  BY Zenon DEF CountersOK
<1>2. \A v \in Pending : Folded(v)' = Folded(v)
  BY Zenon DEF Pending
<1>3. CASE pc'[w] = "insert"
  <2>1. /\ counts'[w] \in Batches \cup {Empty}
        /\ NamesOf(counts'[w]) \subseteq AdmittedNames(w)'
        /\ PairsOf(counts'[w]) \subseteq AdmittedLabels(w)'
    BY <1>3, Zenon DEF TypeOK, AllKnown
  <2>2. FoldedNames(w)' = 0 /\ FoldedLabels(w)' = 0
    BY <2>1, BatchFolds, Zenon DEF FoldedNames, FoldedLabels
  <2>3. Folded(w)' = 0
    BY <2>2 DEF Folded
  <2>4. Pending' = Pending \cup {w}
    BY <1>0, <1>3, Zenon DEF Pending
  <2>5. overflow'.names + overflow'.labels = overflow.names + overflow.labels + 0 /\ 0 \in Nat
    BY <1>1
  <2> QED  BY <1>1, <1>2, <2>3, <2>4, <2>5, AccountGains, Zenon
<1>4. CASE pc'[w] # "insert"
  <2>1. Pending' = Pending
    BY <1>0, <1>4, Zenon DEF Pending
  <2> QED  BY <1>1, <1>2, <2>1, AccountKept, Zenon
<1> QED  BY <1>3, <1>4

\* A batch begins, reads, takes the lock, plans or touches: nothing is counted.
LEMMA StartFold ==
  ASSUME TypeOK, TypeOK', FoldInv, NEW w \in Writers,
         \/ \E c \in Batches, nl \in NameLimits, ll \in LabelLimits : Begin(w, c, nl, ll)
         \/ ReadNames(w) \/ ReadLabels(w) \/ TouchNames(w) \/ TouchLabels(w) \/ Lock(w)
         \/ PlanNames(w) \/ PlanLabels(w)
  PROVE  FoldInv'
<1>1. CountersOK /\ TouchKnown /\ OverflowAccounted
  BY Zenon DEF FoldInv
<1>2. /\ w \notin Pending /\ UNCHANGED <<overflow, folds>>
      /\ pc' = [pc EXCEPT ![w] = pc'[w]]
      /\ \A v \in Writers \ {w} :
           /\ counts'[v] = counts[v]
           /\ knownNames'[v] = knownNames[v] /\ knownLabels'[v] = knownLabels[v]
           /\ addNames'[v] = addNames[v] /\ addLabels'[v] = addLabels[v]
  <2>1. ASSUME NEW c \in Batches, NEW nl \in NameLimits, NEW ll \in LabelLimits,
               Begin(w, c, nl, ll)
        PROVE  <1>2
    BY <2>1, Zenon DEF Begin, Goto, Pending, tables, reads, plans, history, TypeOK
  <2>2. CASE ReadNames(w) \/ ReadLabels(w)
    BY <2>2, Zenon DEF ReadNames, ReadLabels, Goto, Pending, tables, plans, batch, history, TypeOK
  <2>3. CASE TouchNames(w) \/ TouchLabels(w) \/ Lock(w)
    BY <2>3, Zenon DEF TouchNames, TouchLabels, Lock, Goto, Pending, reads, plans, batch, history, TypeOK
  <2>4. CASE PlanNames(w) \/ PlanLabels(w)
    <3>1. CASE PlanNames(w)
      BY <3>1, Zenon DEF PlanNames, Goto, Pending, tables, reads, batch, history, TypeOK
    <3>2. CASE PlanLabels(w)
      BY <3>2, Zenon DEF PlanLabels, Goto, Pending, tables, reads, batch, history, TypeOK
    <3> QED  BY <2>4, <3>1, <3>2, Zenon
  <2> QED  BY <2>1, <2>2, <2>3, <2>4, Zenon
<1>3. pc'[w] \in {"insert", "touch names", "touch labels"} => AllKnown(w)'
  <2>1. ASSUME NEW c \in Batches, NEW nl \in NameLimits, NEW ll \in LabelLimits,
               Begin(w, c, nl, ll)
        PROVE  <1>3
    <3>1. /\ pc'[w] = IF NamesOf(c) = {} THEN "insert" ELSE "read names"
          /\ counts'[w] = c
      BY <2>1, Zenon DEF Begin, Goto, TypeOK
    <3>2. CASE NamesOf(c) = {}
      BY <3>1, <3>2, Zenon DEF AllKnown, NamesOf, PairsOf
    <3>3. CASE NamesOf(c) # {}
      BY <3>1, <3>3, Zenon
    <3> QED  BY <3>2, <3>3, Zenon
  <2>2. CASE ReadLabels(w)
    <3>1. /\ pc'[w] \in {"insert", "touch names", "touch labels"} =>
               knownNames[w] = NamesOf(counts[w]) /\ PairsOf(counts[w]) \subseteq DOMAIN labels
          /\ knownLabels'[w] = PairsOf(counts[w]) \cap DOMAIN labels
          /\ counts'[w] = counts[w] /\ knownNames'[w] = knownNames[w]
      BY <2>2, Zenon DEF ReadLabels, Goto, TypeOK, batch
    <3>2. \A k \in PairsOf(counts[w]) : k[1] \in NamesOf(counts[w])
      BY Zenon DEF NamesOf, PairsOf
    <3> QED  BY <3>1, <3>2, Zenon DEF AllKnown, AdmittedNames, AdmittedLabels
  <2>3. CASE ReadNames(w) \/ Lock(w) \/ PlanNames(w) \/ PlanLabels(w)
    BY <2>3, Zenon DEF ReadNames, Lock, PlanNames, PlanLabels, Goto, TypeOK
  <2>4. CASE TouchNames(w) \/ TouchLabels(w)
    <3>1. /\ pc[w] \in {"touch names", "touch labels"}
          /\ UNCHANGED <<counts, knownNames, knownLabels, addNames, addLabels>>
      BY <2>4, Zenon DEF TouchNames, TouchLabels, reads, plans, batch
    <3>2. AllKnown(w)
      BY <1>1, <3>1, Zenon DEF TouchKnown
    <3> QED  BY <3>1, <3>2, FoldedStays, Zenon
  <2> QED  BY <2>1, <2>2, <2>3, <2>4, Zenon
<1>4. \A v \in Writers \ {w} : Folded(v)' = Folded(v) /\ (AllKnown(v)' <=> AllKnown(v))
  BY <1>2, FoldedStays, Zenon
<1>5. TouchKnown'
  <2> SUFFICES ASSUME NEW v \in Writers, pc'[v] \in {"touch names", "touch labels"}
               PROVE  AllKnown(v)'
    BY Zenon DEF TouchKnown
  <2>1. CASE v = w
    BY <1>3, <2>1, Zenon
  <2>2. CASE v # w
    BY <1>1, <1>2, <1>4, <2>2, Zenon DEF TouchKnown, TypeOK
  <2> QED  BY <2>1, <2>2, Zenon
<1>6. pc'[w] = "insert" => AllKnown(w)'
  BY <1>3, Zenon
<1>7. CountersOK' /\ OverflowAccounted'
  BY <1>1, <1>2, <1>4, <1>6, OwnStepFold, Zenon
<1> QED  BY <1>5, <1>7, Zenon DEF FoldInv

\* The commit counts what the batch folds, at the moment it becomes pending.
LEMMA CommitFold ==
  ASSUME TypeOK, FoldInv, NEW w \in Writers, Commit(w)
  PROVE  FoldInv'
<1>1. /\ pc[w] = "commit" /\ pc' = [pc EXCEPT ![w] = "insert"]
      /\ overflow' = [names |-> overflow.names + FoldedNames(w),
                      labels |-> overflow.labels + FoldedLabels(w)]
      /\ UNCHANGED <<counts, knownNames, knownLabels, addNames, addLabels, folds>>
  BY Zenon DEF Commit, Goto, reads, plans, batch, history
<1>2. /\ CountersOK /\ TouchKnown /\ OverflowAccounted
      /\ overflow.names \in Nat /\ overflow.labels \in Nat
  BY Zenon DEF FoldInv, CountersOK
<1>3. FoldedNames(w) \in Nat /\ FoldedLabels(w) \in Nat /\ Folded(w) \in Nat
  BY FoldedNat, Zenon
<1>4. \A v \in Writers : Folded(v)' = Folded(v) /\ (AllKnown(v)' <=> AllKnown(v))
  BY <1>1, FoldedStays, Zenon
<1>5. w \notin Pending /\ Pending' = Pending \cup {w}
  BY <1>1, Zenon DEF Pending, TypeOK
<1>6. /\ overflow'.names = overflow.names + FoldedNames(w)
      /\ overflow'.labels = overflow.labels + FoldedLabels(w)
  BY <1>1, Zenon
<1>7. overflow'.names + overflow'.labels = overflow.names + overflow.labels + Folded(w)
  <2>1. overflow'.names + overflow'.labels =
          overflow.names + overflow.labels + (FoldedNames(w) + FoldedLabels(w))
    BY <1>2, <1>3, <1>6
  <2> QED  BY <2>1, Zenon DEF Folded
<1>8. OverflowAccounted'
  BY <1>1, <1>2, <1>3, <1>4, <1>5, <1>7, AccountGains, Zenon DEF Pending
<1>9. TouchKnown'
  BY <1>1, <1>2, <1>4, Zenon DEF TouchKnown, TypeOK
<1>10. CountersOK'
  <2>1. overflow.names + FoldedNames(w) \in Nat /\ overflow.labels + FoldedLabels(w) \in Nat
    BY <1>2, <1>3, NatSum, Zenon
  <2> QED  BY <1>1, <1>2, <2>1, Zenon DEF CountersOK
<1> QED  BY <1>8, <1>9, <1>10, Zenon DEF FoldInv

\* A pending batch ends, stored or lost, and what it folded changes place.
LEMMA EndFold ==
  ASSUME TypeOK, FoldInv, NEW w \in Writers, Insert(w) \/ Fail(w)
  PROVE  FoldInv'
<1>1. CountersOK /\ TouchKnown /\ OverflowAccounted
  BY Zenon DEF FoldInv
<1>2. /\ Forget(w) /\ UNCHANGED overflow
      /\ pc[w] = "insert" =>
           \/ folds' = [folds EXCEPT !.stored = @ + FoldedNames(w) + FoldedLabels(w)]
           \/ folds' = [folds EXCEPT !.lost = @ + FoldedNames(w) + FoldedLabels(w)]
      /\ pc[w] # "insert" => folds' = folds
  BY Zenon DEF Insert, Fail, tables
<1>3. /\ pc' = [pc EXCEPT ![w] = "idle"]
      /\ \A v \in Writers \ {w} :
           /\ counts'[v] = counts[v]
           /\ knownNames'[v] = knownNames[v] /\ knownLabels'[v] = knownLabels[v]
           /\ addNames'[v] = addNames[v] /\ addLabels'[v] = addLabels[v]
  BY <1>2, Zenon DEF Forget, Goto, TypeOK
<1>4. \A v \in Writers \ {w} : Folded(v)' = Folded(v) /\ (AllKnown(v)' <=> AllKnown(v))
  BY <1>3, FoldedStays, Zenon
<1>5. TouchKnown'
  BY <1>1, <1>3, <1>4, Zenon DEF TouchKnown, TypeOK
<1>6. Pending' = Pending \ {w}
  BY <1>3, Zenon DEF Pending, TypeOK
<1>7. CASE pc[w] = "insert"
  <2>1. /\ FoldedNames(w) \in Nat /\ FoldedLabels(w) \in Nat
        /\ folds.stored \in Nat /\ folds.lost \in Nat /\ folds \in [stored : Nat, lost : Nat]
    BY <1>1, FoldedNat, Zenon DEF CountersOK
  <2>2. \/ folds'.stored = folds.stored + FoldedNames(w) + FoldedLabels(w) /\ folds'.lost = folds.lost
        \/ folds'.lost = folds.lost + FoldedNames(w) + FoldedLabels(w) /\ folds'.stored = folds.stored
    BY <1>2, <1>7, <2>1, Zenon
  <2>3. folds'.stored + folds'.lost = folds.stored + folds.lost + Folded(w)
    <3>1. folds'.stored + folds'.lost = folds.stored + folds.lost + (FoldedNames(w) + FoldedLabels(w))
      BY <2>1, <2>2
    <3> QED  BY <3>1, Zenon DEF Folded
  <2>4. CountersOK'
    <3>1. /\ folds.stored + FoldedNames(w) + FoldedLabels(w) \in Nat
          /\ folds.lost + FoldedNames(w) + FoldedLabels(w) \in Nat
      BY <2>1, NatSum, Zenon
    <3>2. folds' \in [stored : Nat, lost : Nat]
      BY <1>2, <1>7, <2>1, <3>1, Zenon
    <3> QED  BY <1>1, <1>2, <3>2, Zenon DEF CountersOK
  <2>5. w \in Pending
    BY <1>7, Zenon DEF Pending
  <2>6. OverflowAccounted'
    BY <1>1, <1>2, <1>4, <1>6, <2>3, <2>5, AccountLoses, Zenon DEF Pending
  <2> QED  BY <1>5, <2>4, <2>6, Zenon DEF FoldInv
<1>8. CASE pc[w] # "insert"
  <2>1. Pending' = Pending /\ \A v \in Pending : Folded(v)' = Folded(v)
    BY <1>4, <1>6, <1>8, Zenon DEF Pending
  <2>2. OverflowAccounted'
    BY <1>1, <1>2, <1>8, <2>1, AccountKept, Zenon
  <2>3. CountersOK'
    BY <1>1, <1>2, <1>8, Zenon DEF CountersOK
  <2> QED  BY <1>5, <2>2, <2>3, Zenon DEF FoldInv
<1> QED  BY <1>7, <1>8, Zenon

\* A sweep, the clock and a stuttering step leave batches and counters alone.
LEMMA OtherFold ==
  ASSUME TypeOK, FoldInv,
         Tick \/ UNCHANGED vars \/ \E days \in Retentions : Sweep(days)
  PROVE  FoldInv'
<1>1. UNCHANGED <<pc, counts, knownNames, knownLabels, addNames, addLabels, overflow, folds>>
  BY Zenon DEF Tick, vars, Sweep, tables, reads, plans, batch, history
<1>2. \A v \in Writers : Folded(v)' = Folded(v) /\ (AllKnown(v)' <=> AllKnown(v))
  BY <1>1, FoldedStays, Zenon
<1>3. Pending' = Pending /\ \A v \in Pending : Folded(v)' = Folded(v)
  BY <1>1, <1>2, Zenon DEF Pending
<1>4. OverflowAccounted'
  BY <1>1, <1>3, AccountKept, Zenon DEF FoldInv
<1>5. CountersOK' /\ TouchKnown'
  BY <1>1, <1>2, Zenon DEF FoldInv, CountersOK, TouchKnown
<1> QED  BY <1>4, <1>5, Zenon DEF FoldInv

\* For any number of concurrent exports, failures and sweeps, both caps of a
\* vendor instrument hold, a point is stored only under what was listed or under
\* "other", and the overflow counters are exactly the points folded.
THEOREM VocabularyFoldingAccounted == Spec => []FoldingAccounted
<1>1. Init => FoldInv
  <2> SUFFICES ASSUME Init PROVE FoldInv
    OBVIOUS
  <2>1. TypeOK
    BY VocabularyInit, Zenon DEF VocabularyInv
  <2>2. /\ Pending = {} /\ overflow = [names |-> 0, labels |-> 0]
        /\ folds = [stored |-> 0, lost |-> 0]
    BY Zenon DEF Init, Pending
  <2>3. SumFunctionOnSet(FoldedBy, Pending) = 0
    BY <2>1, <2>2, PendingSum, SumNat, Zenon
  <2>4. OverflowAccounted
    BY <2>2, <2>3, AccountIs
  <2>5. CountersOK
    BY <2>2 DEF CountersOK
  <2>6. TouchKnown
    BY Zenon DEF Init, TouchKnown
  <2> QED  BY <2>4, <2>5, <2>6, Zenon DEF FoldInv
<1>2. TypeOK /\ TypeOK' /\ FoldInv /\ [Next]_vars => FoldInv'
  BY StartFold, CommitFold, EndFold, OtherFold, Zenon DEF Next, Step, Quiescent
<1>3. VocabularyInv => TypeOK
  BY Zenon DEF VocabularyInv
<1>4. VocabularyInv /\ FoldInv => FoldingAccounted
  BY Zenon DEF VocabularyInv, FoldInv, FoldingAccounted
<1> QED  BY <1>1, <1>2, <1>3, <1>4, VocabularyInvariance, PTL DEF Spec
=============================================================================
