------------------------- MODULE ErrorReasonsProofs -------------------------
(***************************************************************************)
(* The cap on error reasons, for any number of concurrent exports, any     *)
(* batches, any limits and any sweeps.                                     *)
(***************************************************************************)
EXTENDS ErrorReasons, VocabularyPlanProofs

\* The writers inside the transaction that took the advisory lock.
InTransaction(w) == pc[w] \in {"reread", "plan", "commit"}

\* The advisory lock is held exactly by the writer inside its transaction.
LockHeld == \A w \in Writers : InTransaction(w) <=> lock = w

\* A request in progress has a batch and a limit.
RequestOK == \A w \in Writers :
  pc[w] # "idle" => counts[w] \in Batches /\ limit[w] \in Limits

\* What a planned insertion adds still fits, since only a sweep, which makes
\* room, can change the table before the commit.
PlanFits == \A w \in Writers : pc[w] = "commit" =>
  /\ IsFiniteSet(add[w])
  /\ add[w] = {} \/ Cardinality(DOMAIN reasons \cup add[w]) <= limit[w]

\* What a writer believes listed is listed, or was until a sweep.
AdmittedListed == \A w \in Writers :
  /\ known[w] \subseteq DOMAIN reasons \cup swept
  /\ pc[w] \notin {"commit", "insert"} => add[w] = {}
  /\ pc[w] = "insert" => add[w] \subseteq DOMAIN reasons \cup swept

Finite == IsFiniteSet(DOMAIN reasons)

IndInv ==
  /\ TypeOK /\ Finite /\ LockHeld /\ RequestOK /\ PlanFits /\ Capped
  /\ AdmittedListed /\ StoredWasListed

-----------------------------------------------------------------------------
(* Facts about a batch.                                                    *)

\* A batch names finitely many reasons, each on some records.
LEMMA BatchValues ==
  ASSUME NEW w \in Writers, counts[w] \in Batches
  PROVE  /\ IsFiniteSet(Values(w)) /\ Values(w) \subseteq Int
         /\ \A v \in Values(w) : counts[w][v] \in Nat
<1>1. IsFiniteSet(DOMAIN counts[w]) /\ counts[w] \in [DOMAIN counts[w] -> Nat \ {0}]
  BY ReasonsAssumption, Zenon
<1>2. IsFiniteSet(Values(w))
  BY <1>1, FS_Subset, Zenon DEF Values
<1>3. DOMAIN counts[w] \subseteq Int
  BY ReasonsAssumption DEF Other
<1> QED  BY <1>1, <1>2, <1>3 DEF Values

\* The plan of a writer fits within its limit.
LEMMA PlannedFits ==
  ASSUME NEW w \in Writers, counts[w] \in Batches, limit[w] \in Limits, Finite
  PROVE  LET new == PlanAdd(Values(w), known[w], counts[w], limit[w] - Cardinality(DOMAIN reasons))
         IN  /\ IsFiniteSet(new) /\ new \subseteq Values(w)
             /\ new = {} \/ Cardinality(DOMAIN reasons \cup new) <= limit[w]
<1> DEFINE new == PlanAdd(Values(w), known[w], counts[w], limit[w] - Cardinality(DOMAIN reasons))
<1>1. limit[w] \in Nat /\ IsFiniteSet(DOMAIN reasons)
  BY ReasonsAssumption, Zenon DEF Finite
<1>2. /\ IsFiniteSet(Values(w)) /\ Values(w) \subseteq Int
      /\ \A v \in Values(w) : counts[w][v] \in Nat
  BY BatchValues, Zenon
<1>3. /\ IsFiniteSet(new) /\ new \subseteq Values(w)
      /\ \A A \in SUBSET new : A = {} \/ Cardinality(DOMAIN reasons \cup A) <= limit[w]
  BY <1>1, <1>2, PlanFitsRoom, Zenon
<1>4. new \in SUBSET new
  BY Zenon
<1> QED  BY <1>3, <1>4, Zenon

-----------------------------------------------------------------------------
(* The invariant.                                                          *)

\* The vocabulary is empty at first.
LEMMA IndInit == Init => IndInv
<1> SUFFICES ASSUME Init PROVE IndInv
  OBVIOUS
<1>1. DOMAIN reasons = {} /\ DOMAIN Empty = {}
  BY Zenon DEF Init, Empty
<1>2. TypeOK
  BY <1>1, ClockAssumption DEF Init, TypeOK
<1>3. Finite /\ Capped
  BY <1>1, FS_EmptySet DEF Finite, Capped
<1>4. LockHeld /\ RequestOK /\ PlanFits
  BY ReasonsAssumption, Zenon DEF Init, LockHeld, InTransaction, RequestOK, PlanFits
<1>5. AdmittedListed /\ StoredWasListed
  BY Zenon DEF Init, AdmittedListed, StoredWasListed
<1> QED  BY <1>2, <1>3, <1>4, <1>5 DEF IndInv

\* A step of a writer that leaves the table alone, and only it, keeps what is
\* said of the table.
LEMMA TableUnchanged ==
  ASSUME IndInv, UNCHANGED reasons
  PROVE  Finite' /\ Capped'
  BY Zenon DEF IndInv, Finite, Capped

\* A batch begins with nothing admitted.
LEMMA BeginInv ==
  ASSUME IndInv, NEW w \in Writers, NEW c \in Batches, NEW l \in Limits, Begin(w, c, l)
  PROVE  IndInv'
<1> USE DEF IndInv, Begin, Goto, tables, history
<1>1. TypeOK'
  BY ReasonsAssumption, ClockAssumption DEF TypeOK
<1>2. Finite' /\ Capped'
  BY TableUnchanged, Zenon
<1>3. LockHeld'
  BY Zenon DEF TypeOK, LockHeld, InTransaction
<1>4. RequestOK' /\ PlanFits'
  BY Zenon DEF TypeOK, RequestOK, PlanFits
<1>5. AdmittedListed' /\ StoredWasListed'
  BY Zenon DEF TypeOK, AdmittedListed, StoredWasListed
<1> QED  BY <1>1, <1>2, <1>3, <1>4, <1>5

\* Reads learn only what is listed.
LEMMA ReadInv ==
  ASSUME IndInv, NEW w \in Writers, Read(w) \/ Reread(w)
  PROVE  IndInv'
<1> USE DEF IndInv, Read, Reread, Goto, tables, history
<1>1. TypeOK'
  <2>1. Values(w) \cap DOMAIN reasons \subseteq Reasons
    BY Zenon DEF TypeOK
  <2> QED  BY <2>1 DEF TypeOK
<1>2. Finite' /\ Capped'
  BY TableUnchanged, Zenon
<1>3. LockHeld'
  BY Zenon DEF TypeOK, LockHeld, InTransaction
<1>4. RequestOK' /\ PlanFits'
  BY Zenon DEF TypeOK, RequestOK, PlanFits
<1>5. AdmittedListed' /\ StoredWasListed'
  BY DEF TypeOK, AdmittedListed, StoredWasListed
<1> QED  BY <1>1, <1>2, <1>3, <1>4, <1>5

\* The lock is free when a writer takes it.
LEMMA LockInv ==
  ASSUME IndInv, NEW w \in Writers, Lock(w)
  PROVE  IndInv'
<1> USE DEF IndInv, Lock, Goto, locals, history
<1>1. TypeOK'
  BY Zenon DEF TypeOK
<1>2. Finite' /\ Capped'
  BY TableUnchanged, Zenon
<1>3. LockHeld'
  BY ReasonsAssumption, Zenon DEF TypeOK, LockHeld, InTransaction
<1>4. RequestOK' /\ PlanFits'
  BY Zenon DEF TypeOK, RequestOK, PlanFits
<1>5. AdmittedListed' /\ StoredWasListed'
  BY Zenon DEF TypeOK, AdmittedListed, StoredWasListed
<1> QED  BY <1>1, <1>2, <1>3, <1>4, <1>5

\* The plan fits within the limit of its writer.
LEMMA PlanInv ==
  ASSUME IndInv, NEW w \in Writers, Plan(w)
  PROVE  IndInv'
<1> DEFINE new == PlanAdd(Values(w), known[w], counts[w], limit[w] - Cardinality(DOMAIN reasons))
<1> USE DEF IndInv
<1>1. /\ pc[w] = "plan" /\ pc' = [pc EXCEPT ![w] = "commit"]
      /\ add' = [add EXCEPT ![w] = new]
      /\ UNCHANGED <<reasons, overflow, lock, counts, limit, at, known, history, now, requests>>
  BY Zenon DEF Plan, Goto, tables
<1>2. /\ IsFiniteSet(new) /\ new \subseteq Values(w)
      /\ new = {} \/ Cardinality(DOMAIN reasons \cup new) <= limit[w]
  BY <1>1, PlannedFits, Zenon DEF RequestOK
<1>3. Values(w) \subseteq Reasons
  BY <1>1, ReasonsAssumption, Zenon DEF RequestOK, Values
<1> HIDE DEF new
<1>4. TypeOK'
  BY <1>1, <1>2, <1>3, Zenon DEF TypeOK, history
<1>5. Finite' /\ Capped'
  BY <1>1, TableUnchanged, Zenon
<1>6. LockHeld'
  BY <1>1, Zenon DEF TypeOK, LockHeld, InTransaction
<1>7. RequestOK' /\ PlanFits'
  BY <1>1, <1>2, Zenon DEF TypeOK, RequestOK, PlanFits
<1>8. AdmittedListed' /\ StoredWasListed'
  BY <1>1, Zenon DEF TypeOK, AdmittedListed, StoredWasListed, history
<1> QED  BY <1>4, <1>5, <1>6, <1>7, <1>8

\* A touch changes no domain.
LEMMA TouchInv ==
  ASSUME IndInv, NEW w \in Writers, Touch(w)
  PROVE  IndInv'
<1> USE DEF IndInv
<1>1. /\ pc[w] = "touch" /\ pc' = [pc EXCEPT ![w] = "insert"]
      /\ reasons' = Touched(reasons, Values(w), at[w], StaleBefore(w))
      /\ UNCHANGED <<overflow, lock, counts, limit, at, known, add, history, now, requests>>
  BY Zenon DEF Touch, Goto, locals
<1>2. DOMAIN reasons' = DOMAIN reasons
  BY <1>1, TouchedDomain
<1>3. \A r \in DOMAIN reasons : reasons'[r] \in 0..MaxTime
  BY <1>1, Zenon DEF TypeOK, Touched
<1>4. TypeOK'
  BY <1>1, <1>2, <1>3, Zenon DEF TypeOK, history
<1>5. Finite' /\ Capped'
  BY <1>2, Zenon DEF Finite, Capped
<1>6. LockHeld'
  BY <1>1, Zenon DEF TypeOK, LockHeld, InTransaction
<1>7. RequestOK' /\ PlanFits'
  BY <1>1, <1>2, Zenon DEF TypeOK, RequestOK, PlanFits
<1>8. AdmittedListed' /\ StoredWasListed'
  BY <1>1, <1>2, Zenon DEF TypeOK, AdmittedListed, StoredWasListed, history
<1> QED  BY <1>4, <1>5, <1>6, <1>7, <1>8

\* The commit lists what was planned, and releases the lock.
LEMMA CommitInv ==
  ASSUME IndInv, NEW w \in Writers, Commit(w)
  PROVE  IndInv'
<1> DEFINE inserted == Inserted(reasons, add[w], at[w])
<1> USE DEF IndInv
<1>1. /\ pc[w] = "commit" /\ pc' = [pc EXCEPT ![w] = "insert"]
      /\ reasons' = Touched(inserted, Values(w), at[w], StaleBefore(w))
      /\ lock' = NoWriter
      /\ UNCHANGED <<counts, limit, at, known, add, history, now, requests>>
  BY Zenon DEF Commit, Goto, locals
<1>2. DOMAIN inserted = DOMAIN reasons \cup add[w] /\ DOMAIN reasons' = DOMAIN reasons \cup add[w]
  <2>1. DOMAIN inserted = DOMAIN reasons \cup add[w]
    BY InsertedDomain, Zenon
  <2> QED  BY <1>1, <2>1, TouchedDomain
<1>3. \A r \in DOMAIN reasons' : reasons'[r] \in 0..MaxTime
  <2>1. \A r \in DOMAIN inserted : inserted[r] \in 0..MaxTime
    BY <1>2, Zenon DEF TypeOK, Inserted
  <2> HIDE DEF inserted
  <2> QED  BY <1>1, <1>2, <2>1 DEF TypeOK, Touched
<1>4. TypeOK'
  BY <1>1, <1>2, <1>3, Zenon DEF TypeOK, history
<1>5. Finite'
  <2>1. IsFiniteSet(DOMAIN reasons) /\ IsFiniteSet(add[w])
    BY <1>1, Zenon DEF Finite, PlanFits
  <2>2. IsFiniteSet(DOMAIN reasons \cup add[w])
    BY <2>1, FS_Union, Zenon
  <2> QED  BY <1>2, <2>2, Zenon DEF Finite
<1>6. Capped'
  <2>1. CASE add[w] = {}
    BY <1>2, <2>1, Zenon DEF Capped
  <2>2. CASE add[w] # {}
    BY <1>1, <1>2, <2>2, Zenon DEF Capped, PlanFits, RequestOK
  <2> QED  BY <2>1, <2>2
<1>7. lock = w /\ \A v \in Writers : v # w => ~ InTransaction(v)
  BY <1>1, Zenon DEF LockHeld, InTransaction
<1>8. LockHeld'
  BY <1>1, <1>7, ReasonsAssumption, Zenon DEF TypeOK, LockHeld, InTransaction
<1>9. RequestOK' /\ PlanFits'
  BY <1>1, <1>7, Zenon DEF TypeOK, RequestOK, PlanFits, InTransaction
<1>10. AdmittedListed' /\ StoredWasListed'
  BY <1>1, <1>2 DEF TypeOK, AdmittedListed, StoredWasListed, history
<1> QED  BY <1>4, <1>5, <1>6, <1>8, <1>9, <1>10

\* The rows go in as the admission says.
LEMMA InsertInv ==
  ASSUME IndInv, NEW w \in Writers, Insert(w)
  PROVE  IndInv'
<1> USE DEF IndInv
<1>1. /\ pc[w] = "insert"
      /\ stored' = stored \cup {StoredAs(w, r) : r \in DOMAIN counts[w]}
      /\ Forget(w)
      /\ UNCHANGED <<reasons, overflow, lock, swept, now, requests>>
  BY Zenon DEF Insert, tables
<1>2. {StoredAs(w, r) : r \in DOMAIN counts[w]} \subseteq Admitted(w) \cup {Other}
  BY Zenon DEF StoredAs
<1>3. Admitted(w) \subseteq DOMAIN reasons \cup swept /\ Admitted(w) \subseteq Reasons
  BY <1>1, Zenon DEF Admitted, AdmittedListed, TypeOK
<1>4. TypeOK'
  BY <1>1, <1>2, <1>3, ClockAssumption DEF TypeOK, Forget, Goto
<1>5. Finite' /\ Capped'
  BY <1>1, TableUnchanged, Zenon
<1>6. LockHeld'
  BY <1>1, Zenon DEF TypeOK, LockHeld, InTransaction, Forget, Goto
<1>7. RequestOK' /\ PlanFits'
  BY <1>1, Zenon DEF TypeOK, RequestOK, PlanFits, Forget, Goto
<1>8. AdmittedListed'
  BY <1>1, Zenon DEF TypeOK, AdmittedListed, Forget, Goto
<1>9. StoredWasListed'
  BY <1>1, <1>2, <1>3, Zenon DEF StoredWasListed
<1> QED  BY <1>4, <1>5, <1>6, <1>7, <1>8, <1>9

\* A failed writer leaves the table alone and releases the lock.
LEMMA FailInv ==
  ASSUME IndInv, NEW w \in Writers, Fail(w)
  PROVE  IndInv'
<1> USE DEF IndInv
<1>1. /\ pc[w] # "idle"
      /\ lock' = IF lock = w THEN NoWriter ELSE lock
      /\ Forget(w)
      /\ UNCHANGED <<reasons, overflow, stored, swept, now, requests>>
  BY Zenon DEF Fail
<1>2. TypeOK'
  BY <1>1, ClockAssumption DEF TypeOK, Forget, Goto
<1>3. Finite' /\ Capped'
  BY <1>1, TableUnchanged, Zenon
<1>4. LockHeld'
  BY <1>1, ReasonsAssumption DEF TypeOK, LockHeld, InTransaction, Forget, Goto
<1>5. RequestOK' /\ PlanFits'
  BY <1>1, Zenon DEF TypeOK, RequestOK, PlanFits, Forget, Goto
<1>6. AdmittedListed' /\ StoredWasListed'
  BY <1>1, Zenon DEF TypeOK, AdmittedListed, StoredWasListed, Forget, Goto
<1> QED  BY <1>2, <1>3, <1>4, <1>5, <1>6

\* A sweep takes no lock, but only makes room.
LEMMA SweepInv ==
  ASSUME IndInv, NEW days \in Retentions, Sweep(days)
  PROVE  IndInv'
<1> DEFINE gone == Expired(reasons, now - days)
<1> USE DEF IndInv
<1>1. /\ reasons' = Without(reasons, gone)
      /\ swept' = swept \cup gone
      /\ UNCHANGED <<overflow, lock, counts, limit, at, known, add, stored, now, pc, requests>>
  BY Zenon DEF Sweep, locals
<1>2. gone \subseteq DOMAIN reasons /\ DOMAIN reasons' = DOMAIN reasons \ gone
  BY <1>1, WithoutDomain, Zenon DEF Expired
<1>3. \A r \in DOMAIN reasons' : reasons'[r] = reasons[r]
  BY <1>1, <1>2, Zenon DEF Without, Restrict
<1> HIDE DEF gone
<1>4. TypeOK'
  BY <1>1, <1>2, <1>3, Zenon DEF TypeOK
<1>5. Finite'
  BY <1>2, FS_Subset, Zenon DEF Finite
<1>6. Capped'
  <2>1. PICK l \in Limits \cup {0} : Cardinality(DOMAIN reasons) <= l
    BY Zenon DEF Capped
  <2>2. /\ Cardinality(DOMAIN reasons') <= Cardinality(DOMAIN reasons)
        /\ Cardinality(DOMAIN reasons') \in Nat /\ Cardinality(DOMAIN reasons) \in Nat
    BY <1>2, FS_EmptySet, SmallerFits, Zenon DEF Finite
  <2>3. Cardinality(DOMAIN reasons') <= l
    BY <2>1, <2>2, ReasonsAssumption
  <2> QED  BY <2>3 DEF Capped
<1>7. LockHeld' /\ RequestOK'
  BY <1>1, Zenon DEF LockHeld, InTransaction, RequestOK
<1>8. PlanFits'
  <2> SUFFICES ASSUME NEW w \in Writers, pc[w] = "commit"
               PROVE  /\ IsFiniteSet(add[w])
                      /\ add[w] = {} \/ Cardinality(DOMAIN reasons' \cup add[w]) <= limit[w]
    BY <1>1, Zenon DEF PlanFits
  <2>1. /\ IsFiniteSet(add[w])
        /\ add[w] = {} \/ Cardinality(DOMAIN reasons \cup add[w]) <= limit[w]
    BY Zenon DEF PlanFits
  <2>2. /\ Cardinality(DOMAIN reasons' \cup add[w]) \in Nat
        /\ Cardinality(DOMAIN reasons \cup add[w]) \in Nat
        /\ Cardinality(DOMAIN reasons' \cup add[w]) <= Cardinality(DOMAIN reasons \cup add[w])
    BY <1>2, <2>1, SmallerFits, Zenon DEF Finite
  <2>3. limit[w] \in Nat
    BY ReasonsAssumption, Zenon DEF RequestOK
  <2> QED  BY <2>1, <2>2, <2>3
<1>9. AdmittedListed' /\ StoredWasListed'
  BY <1>1, <1>2, Zenon DEF AdmittedListed, StoredWasListed
<1> QED  BY <1>4, <1>5, <1>6, <1>7, <1>8, <1>9

\* Neither the clock nor a stuttering step touches any of it.
LEMMA OtherInv ==
  ASSUME IndInv, Tick \/ UNCHANGED vars
  PROVE  IndInv'
<1>1. /\ UNCHANGED <<reasons, lock, counts, limit, at, known, add, stored, swept, pc, requests>>
      /\ now' \in 0..MaxTime
  BY ClockAssumption DEF IndInv, TypeOK, Tick, vars, tables, locals, history
<1> QED  BY <1>1 DEF IndInv, TypeOK, Finite, LockHeld, InTransaction, RequestOK, PlanFits,
                     Capped, AdmittedListed, StoredWasListed

\* Every step preserves the invariant.
LEMMA IndNext == IndInv /\ [Next]_vars => IndInv'
  BY BeginInv, ReadInv, LockInv, PlanInv, TouchInv, CommitInv, InsertInv, FailInv,
     SweepInv, OtherInv, Zenon DEF Next, Step, Quiescent

\* The vocabulary table, its lock, and the plan and admissions of every batch of
\* AdmitErrorReasons are consistent in every reachable state.
THEOREM Invariance == Spec => []IndInv
  BY IndInit, IndNext, PTL DEF Spec

\* AdmitErrorReasons keeps the vocabulary within the largest limit in force,
\* for every interleaving of exports, failures and sweeps.
THEOREM ReasonsCapped == Spec => []Capped
<1>1. IndInv => Capped
  BY Zenon DEF IndInv
<1> QED  BY <1>1, Invariance, PTL

\* No record is stored under a reason the vocabulary never listed.
THEOREM ReasonsStoredWereListed == Spec => []StoredWasListed
<1>1. IndInv => StoredWasListed
  BY Zenon DEF IndInv
<1> QED  BY <1>1, Invariance, PTL

-----------------------------------------------------------------------------
(* The refinement and the action properties.                               *)

\* What each step does to the set of listed reasons.
LEMMA ListedStep ==
  ASSUME IndInv, [Next]_vars
  PROVE  \/ \E w \in Writers : /\ Commit(w) /\ pc[w] = "commit"
                               /\ DOMAIN reasons' = DOMAIN reasons \cup add[w]
         \/ DOMAIN reasons' \subseteq DOMAIN reasons
<1>1. ASSUME NEW w \in Writers, Commit(w)
      PROVE  pc[w] = "commit" /\ DOMAIN reasons' = DOMAIN reasons \cup add[w]
  <2> DEFINE inserted == Inserted(reasons, add[w], at[w])
  <2>1. pc[w] = "commit" /\ reasons' = Touched(inserted, Values(w), at[w], StaleBefore(w))
    BY <1>1, Zenon DEF Commit
  <2>2. DOMAIN inserted = DOMAIN reasons \cup add[w]
    BY InsertedDomain, Zenon
  <2> HIDE DEF inserted
  <2> QED  BY <2>1, <2>2, TouchedDomain
<1>2. ASSUME NEW w \in Writers, Touch(w) PROVE DOMAIN reasons' = DOMAIN reasons
  BY <1>2, TouchedDomain DEF Touch
<1>3. ASSUME NEW days \in Retentions, Sweep(days) PROVE DOMAIN reasons' \subseteq DOMAIN reasons
  <2> DEFINE gone == Expired(reasons, now - days)
  <2>1. reasons' = Without(reasons, gone)
    BY <1>3, Zenon DEF Sweep
  <2>2. DOMAIN reasons' = DOMAIN reasons \ gone
    BY <2>1, WithoutDomain, Zenon
  <2> QED  BY <2>2
<1>4. ASSUME NEW w \in Writers,
             \/ \E c \in Batches, l \in Limits : Begin(w, c, l)
             \/ Read(w) \/ Lock(w) \/ Reread(w) \/ Plan(w) \/ Insert(w) \/ Fail(w)
      PROVE  reasons' = reasons
  BY <1>4, Zenon DEF Begin, Read, Lock, Reread, Plan, Insert, Fail, tables
<1>5. Tick \/ Quiescent \/ UNCHANGED vars => reasons' = reasons
  BY Zenon DEF Tick, Quiescent, vars, tables
<1> QED  BY <1>1, <1>2, <1>3, <1>4, <1>5 DEF Next, Step

\* The vocabulary implements the capped set: whatever the interleaving, it
\* grows only to a size that the limit of the admitting batch allows.
THEOREM ErrorReasonsRefinesCappedSet == Spec => RefinesCappedSet
<1>1. Init => Vocabulary!Init
  BY Zenon DEF Init, Vocabulary!Init, Empty
<1>2. ASSUME IndInv, [Next]_vars PROVE [Vocabulary!Next]_(DOMAIN reasons)
  <2>1. CASE DOMAIN reasons' \subseteq DOMAIN reasons
    BY <2>1, Zenon DEF Vocabulary!Next, Vocabulary!Evict
  <2>2. ASSUME NEW w \in Writers, pc[w] = "commit", DOMAIN reasons' = DOMAIN reasons \cup add[w]
        PROVE  [Vocabulary!Next]_(DOMAIN reasons)
    <3>1. CASE add[w] = {}
      BY <2>2, <3>1, Zenon
    <3>2. CASE add[w] # {}
      <4>1. limit[w] \in Limits /\ Cardinality(DOMAIN reasons') <= limit[w]
        BY <1>2, <2>2, <3>2, Zenon DEF IndInv, RequestOK, PlanFits
      <4>2. Vocabulary!Cardinality(DOMAIN reasons') = Cardinality(DOMAIN reasons')
        BY Zenon DEF Vocabulary!Cardinality, Cardinality
      <4> QED  BY <2>2, <4>1, <4>2 DEF Vocabulary!Next, Vocabulary!Admit
    <3> QED  BY <3>1, <3>2
  <2> QED  BY <1>2, <2>1, <2>2, ListedStep
<1> QED  BY <1>1, <1>2, Invariance, PTL DEF Spec, RefinesCappedSet, Vocabulary!Spec

\* last_seen never moves back, whatever the order in which the batches that
\* stamp it finish.
THEOREM ReasonsLastSeenForward == Spec => LastSeenForward
<1> DEFINE Forward == \A r \in DOMAIN reasons \cap DOMAIN reasons' : reasons[r] <= reasons'[r]
<1>1. ASSUME IndInv, [Next]_vars PROVE Forward
  <2>1. ASSUME NEW w \in Writers, NEW t, NEW r \in DOMAIN t, t[r] \in Int
        PROVE  t[r] <= Touched(t, Values(w), at[w], StaleBefore(w))[r]
    <3>1. at[w] \in Int /\ TouchInterval \in Nat
      BY <1>1, ClockAssumption DEF IndInv, TypeOK
    <3> QED  BY <2>1, <3>1 DEF Touched, StaleBefore
  <2>2. \A r \in DOMAIN reasons : reasons[r] \in Int
    BY <1>1 DEF IndInv, TypeOK
  <2>3. ASSUME NEW w \in Writers, Touch(w) PROVE Forward
    BY <2>1, <2>2, <2>3, Zenon DEF Touch
  <2>4. ASSUME NEW w \in Writers, Commit(w) PROVE Forward
    <3> DEFINE inserted == Inserted(reasons, add[w], at[w])
    <3>1. \A r \in DOMAIN reasons : r \in DOMAIN inserted /\ inserted[r] = reasons[r]
      BY Zenon DEF Inserted
    <3>2. reasons' = Touched(inserted, Values(w), at[w], StaleBefore(w))
      BY <2>4, Zenon DEF Commit
    <3> HIDE DEF inserted
    <3> QED  BY <2>1, <2>2, <3>1, <3>2
  <2>5. ASSUME NEW days \in Retentions, Sweep(days) PROVE Forward
    BY <2>2, <2>5 DEF Sweep, Without, Restrict
  <2>6. ASSUME reasons' = reasons PROVE Forward
    BY <2>2, <2>6
  <2>7. ASSUME NEW w \in Writers,
               \/ \E c \in Batches, l \in Limits : Begin(w, c, l)
               \/ Read(w) \/ Lock(w) \/ Reread(w) \/ Plan(w) \/ Insert(w) \/ Fail(w)
        PROVE  reasons' = reasons
    BY <2>7, Zenon DEF Begin, Read, Lock, Reread, Plan, Insert, Fail, tables
  <2>8. Tick \/ Quiescent \/ UNCHANGED vars => reasons' = reasons
    BY Zenon DEF Tick, Quiescent, vars, tables
  <2> HIDE DEF Forward
  <2> QED  BY <1>1, <2>3, <2>4, <2>5, <2>6, <2>7, <2>8 DEF Next, Step
<1> QED  BY <1>1, Invariance, PTL DEF Spec, LastSeenForward

-----------------------------------------------------------------------------
(* No slot stays free while a record is folded.                            *)

\* The read under the lock stays complete until the commit: nobody else can
\* list a reason meanwhile.
KnownCurrent == \A w \in Writers :
  pc[w] \in {"plan", "commit"} => Values(w) \cap DOMAIN reasons \subseteq known[w]

\* Nothing of its batch is listed behind the back of a writer that holds the lock.
LEMMA KnownNext == IndInv /\ KnownCurrent /\ [Next]_vars => KnownCurrent'
<1> SUFFICES ASSUME IndInv, KnownCurrent, [Next]_vars,
                    NEW w \in Writers, pc'[w] \in {"plan", "commit"}
             PROVE  Values(w)' \cap DOMAIN reasons' \subseteq known'[w]
  BY Zenon DEF KnownCurrent
<1> USE DEF IndInv
<1>1. CASE \E v \in Writers : Commit(v)
  <2>1. PICK v \in Writers : Commit(v)
    BY <1>1, Zenon
  <2>2. pc[v] = "commit" /\ pc' = [pc EXCEPT ![v] = "insert"]
    BY <2>1, Zenon DEF Commit, Goto
  <2>3. InTransaction(v) /\ InTransaction(w) /\ v # w
    BY <2>2, Zenon DEF TypeOK, InTransaction
  <2> QED  BY <2>3 DEF LockHeld
<1>2. CASE DOMAIN reasons' \subseteq DOMAIN reasons
  <2>1. CASE \E v \in Writers : Reread(v)
    <3>1. PICK v \in Writers : Reread(v)
      BY <2>1, Zenon
    <3>2. /\ pc[v] = "reread" /\ pc' = [pc EXCEPT ![v] = "plan"]
          /\ known' = [known EXCEPT ![v] = Values(v) \cap DOMAIN reasons]
          /\ UNCHANGED <<reasons, counts>>
      BY <3>1, Zenon DEF Reread, Goto, tables
    <3>3. CASE v = w
      BY <3>2, <3>3, Zenon DEF TypeOK, Values
    <3>4. CASE v # w
      BY <3>2, <3>4, Zenon DEF TypeOK, Values, KnownCurrent
    <3> QED  BY <3>3, <3>4
  <2>2. CASE ~ \E v \in Writers : Reread(v)
    <3>1. pc[w] \in {"plan", "commit"} /\ counts'[w] = counts[w] /\ known'[w] = known[w]
      <4>1. ASSUME NEW v \in Writers,
                   \/ \E c \in Batches, l \in Limits : Begin(v, c, l)
                   \/ Read(v) \/ Touch(v) \/ Lock(v) \/ Plan(v)
            PROVE  /\ pc[w] \in {"plan", "commit"}
                   /\ counts'[w] = counts[w] /\ known'[w] = known[w]
        BY <4>1 DEF TypeOK, Begin, Read, Touch, Lock, Plan, Goto, locals
      <4>2. ASSUME NEW v \in Writers, Commit(v) \/ Insert(v) \/ Fail(v)
            PROVE  /\ pc[w] \in {"plan", "commit"}
                   /\ counts'[w] = counts[w] /\ known'[w] = known[w]
        BY <4>2, Zenon DEF TypeOK, Commit, Insert, Fail, Forget, Goto, locals
      <4>3. ASSUME Tick \/ Quiescent \/ UNCHANGED vars \/ \E days \in Retentions : Sweep(days)
            PROVE  UNCHANGED <<pc, counts, known>>
        BY <4>3, Zenon DEF Tick, Quiescent, vars, locals, Sweep
      <4> QED  BY <2>2, <4>1, <4>2, <4>3 DEF Next, Step
    <3> QED  BY <1>2, <3>1 DEF KnownCurrent, Values
  <2> QED  BY <2>1, <2>2
<1> QED  BY <1>1, <1>2, ListedStep

\* planVocabulary folds a record only if the vocabulary is full together with
\* what the batch adds.
THEOREM ReasonsFoldOnlyWhenFull == Spec => FoldsOnlyWhenFull
<1> DEFINE Full == \A w \in Writers : pc[w] = "plan" /\ pc'[w] = "commit" =>
                     \/ Values(w) \subseteq known[w] \cup add'[w]
                     \/ Cardinality(DOMAIN reasons \cup add'[w]) >= limit[w]
<1>1. Init => KnownCurrent
  BY Zenon DEF Init, KnownCurrent
<1>2. ASSUME IndInv, KnownCurrent, [Next]_vars PROVE Full
  <2> SUFFICES ASSUME NEW w \in Writers, pc[w] = "plan", pc'[w] = "commit",
                      ~ (Values(w) \subseteq known[w] \cup add'[w])
               PROVE  Cardinality(DOMAIN reasons \cup add'[w]) >= limit[w]
    OBVIOUS
  <2> USE DEF IndInv
  <2> DEFINE room == limit[w] - Cardinality(DOMAIN reasons)
             new == PlanAdd(Values(w), known[w], counts[w], room)
  <2>1. Plan(w)
    <3>1. ASSUME NEW v \in Writers,
                 \/ \E c \in Batches, l \in Limits : Begin(v, c, l)
                 \/ Read(v) \/ Touch(v) \/ Lock(v) \/ Reread(v) \/ Commit(v)
                 \/ Insert(v) \/ Fail(v)
          PROVE  FALSE
      BY <1>2, <3>1, Zenon DEF TypeOK, Begin, Read, Touch, Lock, Reread, Commit, Insert, Fail, Forget, Goto
    <3>2. ASSUME NEW v \in Writers, Plan(v) PROVE v = w
      BY <1>2, <3>2, Zenon DEF TypeOK, Plan, Goto
    <3>3. ASSUME Tick \/ Quiescent \/ UNCHANGED vars \/ \E days \in Retentions : Sweep(days)
          PROVE  FALSE
      BY <3>3, Zenon DEF Tick, Quiescent, vars, Sweep
    <3> QED  BY <1>2, <3>1, <3>2, <3>3 DEF Next, Step
  <2>2. add'[w] = new
    BY <1>2, <2>1, Zenon DEF Plan, TypeOK
  <2>3. counts[w] \in Batches /\ limit[w] \in Limits /\ limit[w] \in Nat
    BY <1>2, ReasonsAssumption, Zenon DEF RequestOK
  <2>4. Cardinality(DOMAIN reasons) \in Nat /\ room \in Int
    BY <1>2, <2>3, FS_CardinalityType DEF Finite
  <2>5. /\ IsFiniteSet(Values(w)) /\ Values(w) \subseteq Int
        /\ \A v \in Values(w) : counts[w][v] \in Nat
    BY <2>3, BatchValues, Zenon
  <2>6. \/ Values(w) \ known[w] \subseteq new \/ room < 0 \/ Cardinality(new) = room
    BY <2>4, <2>5, PlanAddFills, Zenon
  <2>7. IsFiniteSet(new) /\ new \subseteq Values(w) \ known[w]
    BY <2>4, <2>5, PlanAddBound
  <2> HIDE DEF new
  <2>8. DOMAIN reasons \cap new = {}
    BY <1>2, <2>7, Zenon DEF KnownCurrent
  <2>9. Cardinality(new) \in Nat
    BY <2>7, FS_CardinalityType, Zenon
  <2>10. Cardinality(DOMAIN reasons \cup new) = Cardinality(DOMAIN reasons) + Cardinality(new)
    <3>1. Cardinality(DOMAIN reasons \cup new) =
            Cardinality(DOMAIN reasons) + Cardinality(new) - Cardinality(DOMAIN reasons \cap new)
      BY <1>2, <2>7, FS_Union, Zenon DEF Finite
    <3>2. Cardinality(DOMAIN reasons \cap new) = 0
      BY <2>8, FS_EmptySet, Zenon
    <3> QED  BY <2>4, <2>9, <3>1, <3>2
  <2> QED  BY <2>2, <2>3, <2>4, <2>6, <2>9, <2>10
<1> QED  BY <1>1, <1>2, KnownNext, Invariance, PTL DEF Spec, FoldsOnlyWhenFull

-----------------------------------------------------------------------------
(* last_seen follows the uses.                                             *)

\* An export stamps a time within its own span.
Timely == \A w \in Writers : pc[w] # "idle" => at[w] <= now /\ now <= at[w] + MaxSpan

\* Uses are in the past.
UsesPast ==
  /\ DOMAIN lastUse \subseteq Reasons
  /\ \A r \in DOMAIN lastUse : lastUse[r] \in Nat /\ lastUse[r] <= now

\* A batch admits only what it looks up.
AdmitsOwn == \A w \in Writers :
  /\ Admitted(w) \subseteq Values(w)
  /\ pc[w] \in {"idle", "read"} => Admitted(w) = {}

\* The reason's last_seen is recent enough for a use at time t.
Recent(r, t) == t <= reasons[r] + TouchInterval + MaxSpan

\* What is about to be stored has been touched, or was recent.
AboutToUse == \A w \in Writers : pc[w] = "insert" =>
  \A r \in Admitted(w) \cap DOMAIN reasons : Recent(r, at[w])

\* The inductive invariant behind LastSeenTracksUse.
UseInv == Timely /\ UsesPast /\ AdmitsOwn /\ AboutToUse /\ LastSeenTracksUse

\* The times are numbers.
LEMMA Times ==
  ASSUME TypeOK
  PROVE  /\ now \in Nat /\ TouchInterval \in Nat /\ MaxSpan \in Nat
         /\ \A w \in Writers : at[w] \in Nat
         /\ \A r \in DOMAIN reasons : reasons[r] \in Nat
  BY ClockAssumption DEF TypeOK

\* A touch or a commit moves no last_seen back, lists no reason with a time
\* older than an export may last, and leaves the reasons of its batch recent.
LEMMA TableMoves ==
  ASSUME IndInv, Timely, NEW w \in Writers, Touch(w) \/ Commit(w)
  PROVE  /\ \A r \in DOMAIN reasons : r \in DOMAIN reasons' /\ reasons[r] <= reasons'[r]
         /\ \A r \in DOMAIN reasons' : reasons'[r] \in Nat
         /\ \A r \in DOMAIN reasons' \ DOMAIN reasons : now <= reasons'[r] + MaxSpan
         /\ \A r \in Values(w) \cap DOMAIN reasons' : at[w] <= reasons'[r] + TouchInterval
<1> USE Times DEF IndInv
<1>1. at[w] <= now /\ now <= at[w] + MaxSpan
  BY Zenon DEF Timely, Touch, Commit
<1>2. CASE Touch(w)
  BY <1>1, <1>2 DEF Touch, Touched, StaleBefore
<1>3. CASE Commit(w)
  <2> DEFINE t == Inserted(reasons, add[w], at[w])
  <2>1. /\ \A r \in DOMAIN reasons : r \in DOMAIN t /\ t[r] = reasons[r]
        /\ \A r \in DOMAIN t : t[r] \in Nat
        /\ \A r \in DOMAIN t \ DOMAIN reasons : t[r] = at[w]
    BY Zenon DEF Inserted
  <2>2. reasons' = Touched(t, Values(w), at[w], StaleBefore(w))
    BY <1>3, Zenon DEF Commit
  <2> HIDE DEF t
  <2> QED  BY <1>1, <2>1, <2>2 DEF Touched, StaleBefore
<1> QED  BY <1>2, <1>3

\* Then a use of the past that was recent still is.
LEMMA RecentStays ==
  ASSUME IndInv, Timely, NEW w \in Writers, Touch(w) \/ Commit(w),
         NEW r \in DOMAIN reasons', NEW t \in Nat, t <= now, r \in DOMAIN reasons => Recent(r, t)
  PROVE  Recent(r, t)'
<1>1. now \in Nat /\ TouchInterval \in Nat /\ MaxSpan \in Nat /\ reasons'[r] \in Nat
  BY Times, TableMoves, Zenon DEF IndInv
<1>2. CASE r \in DOMAIN reasons
  <2>1. reasons[r] \in Nat /\ reasons[r] <= reasons'[r]
    BY <1>2, Times, TableMoves, Zenon DEF IndInv
  <2> QED  BY <1>1, <1>2, <2>1 DEF Recent
<1>3. CASE r \notin DOMAIN reasons
  <2>1. now <= reasons'[r] + MaxSpan
    BY <1>3, TableMoves, Zenon
  <2> QED  BY <1>1, <2>1 DEF Recent
<1> QED  BY <1>2, <1>3

\* A step that leaves the table and the uses alone keeps what is said of both.
LEMMA UsesUnchanged ==
  ASSUME UseInv, UNCHANGED <<reasons, lastUse, now>>
  PROVE  UsesPast' /\ LastSeenTracksUse'
  BY Zenon DEF UseInv, UsesPast, LastSeenTracksUse

\* A batch begins at the present time and has admitted nothing yet.
LEMMA BeginUse ==
  ASSUME IndInv, UseInv, NEW w \in Writers, NEW c \in Batches, NEW l \in Limits, Begin(w, c, l)
  PROVE  UseInv'
<1>1. /\ pc[w] = "idle" /\ pc' = [pc EXCEPT ![w] = IF DOMAIN c \subseteq {Other} THEN "insert" ELSE "read"]
      /\ at' = [at EXCEPT ![w] = now] /\ counts' = [counts EXCEPT ![w] = c]
      /\ UNCHANGED <<reasons, lastUse, now, known, add>>
  BY Zenon DEF Begin, Goto, tables, history
<1> USE DEF IndInv, TypeOK, UseInv
<1>2. Admitted(w) = {} /\ Admitted(w)' = {}
  BY <1>1, Zenon DEF AdmitsOwn, Admitted
<1>3. Timely'
  BY <1>1, Times DEF Timely
<1>4. AdmitsOwn'
  BY <1>1, <1>2 DEF AdmitsOwn, Admitted, Values
<1>5. AboutToUse'
  BY <1>1, <1>2, Zenon DEF AboutToUse, Admitted, Recent
<1> QED  BY <1>1, <1>3, <1>4, <1>5, UsesUnchanged

\* A batch that goes on without a touch has read that none is needed.
LEMMA ReadUse ==
  ASSUME IndInv, UseInv, NEW w \in Writers, Read(w) \/ Reread(w)
  PROVE  UseInv'
<1>1. /\ pc[w] \in {"read", "reread"}
      /\ pc' = [pc EXCEPT ![w] = pc'[w]] /\ pc'[w] \in {"lock", "touch", "insert", "plan"}
      /\ pc'[w] = "insert" => ~ Stale(reasons, Values(w), StaleBefore(w))
      /\ known' = [known EXCEPT ![w] = Values(w) \cap DOMAIN reasons]
      /\ UNCHANGED <<reasons, lastUse, now, counts, at, add>>
  BY Zenon DEF Read, Reread, Goto, tables, history, IndInv, TypeOK
<1> USE DEF IndInv, TypeOK, UseInv
<1>2. add[w] = {}
  BY <1>1, Zenon DEF AdmittedListed
<1>3. Timely'
  BY <1>1, Zenon DEF Timely
<1>4. AdmitsOwn'
  BY <1>1, <1>2 DEF AdmitsOwn, Admitted, Values
<1>5. AboutToUse'
  <2> SUFFICES ASSUME NEW v \in Writers, pc'[v] = "insert", NEW r \in Admitted(v)' \cap DOMAIN reasons
               PROVE  Recent(r, at[v])
    BY <1>1, Zenon DEF AboutToUse, Recent
  <2>1. CASE v = w
    <3>1. r \in Values(w) \cap DOMAIN reasons
      BY <1>1, <1>2, <2>1, Zenon DEF Admitted
    <3>2. ~ (reasons[r] < at[w] - TouchInterval)
      BY <1>1, <2>1, <3>1, Zenon DEF Stale, StaleBefore
    <3> QED  BY <2>1, <3>1, <3>2, Times DEF Recent
  <2>2. CASE v # w
    BY <1>1, <2>2, Zenon DEF AboutToUse, Admitted
  <2> QED  BY <2>1, <2>2
<1> QED  BY <1>1, <1>3, <1>4, <1>5, UsesUnchanged

\* Taking the lock and planning touch no row; a plan adds values of the batch.
LEMMA LockPlanUse ==
  ASSUME IndInv, UseInv, NEW w \in Writers, Lock(w) \/ Plan(w)
  PROVE  UseInv'
<1>1. /\ pc[w] \in {"lock", "plan"}
      /\ pc' = [pc EXCEPT ![w] = pc'[w]] /\ pc'[w] \in {"reread", "commit"}
      /\ \A v \in Writers \ {w} : add'[v] = add[v]
      /\ UNCHANGED <<reasons, lastUse, now, counts, at, known>>
  BY Zenon DEF Lock, Plan, Goto, tables, locals, history, IndInv, TypeOK
<1>2. add'[w] \subseteq Values(w)
  <2>1. CASE Lock(w)
    BY <2>1, Zenon DEF Lock, locals, UseInv, AdmitsOwn, Admitted
  <2>2. CASE Plan(w)
    <3> DEFINE new == PlanAdd(Values(w), known[w], counts[w], limit[w] - Cardinality(DOMAIN reasons))
    <3>1. add'[w] = new
      BY <2>2, Zenon DEF Plan, IndInv, TypeOK
    <3>2. new \subseteq Values(w)
      BY <1>1, PlannedFits, Zenon DEF IndInv, RequestOK
    <3> QED  BY <3>1, <3>2
  <2> QED  BY <2>1, <2>2
<1> USE DEF IndInv, TypeOK, UseInv
<1>3. Timely'
  BY <1>1, Zenon DEF Timely
<1>4. AdmitsOwn'
  BY <1>1, <1>2, Zenon DEF AdmitsOwn, Admitted, Values
<1>5. AboutToUse'
  BY <1>1, Zenon DEF AboutToUse, Admitted, Recent
<1> QED  BY <1>1, <1>3, <1>4, <1>5, UsesUnchanged

\* Touch and Commit leave the batch's own reasons recent, and others' so.
LEMMA StampUse ==
  ASSUME IndInv, UseInv, NEW w \in Writers, Touch(w) \/ Commit(w)
  PROVE  UseInv'
<1>1. /\ pc[w] # "idle" /\ pc' = [pc EXCEPT ![w] = "insert"]
      /\ UNCHANGED <<lastUse, now, counts, at, known, add>>
  BY Zenon DEF Touch, Commit, Goto, locals, history
<1> USE DEF UseInv
<1>2. Timely'
  BY <1>1, Zenon DEF Timely, IndInv, TypeOK
<1>3. UsesPast'
  BY <1>1, Zenon DEF UsesPast
<1>4. AdmitsOwn'
  BY <1>1, Zenon DEF AdmitsOwn, Admitted, Values, IndInv, TypeOK
<1>5. AboutToUse'
  <2> SUFFICES ASSUME NEW v \in Writers, pc'[v] = "insert", NEW r \in Admitted(v) \cap DOMAIN reasons'
               PROVE  Recent(r, at[v])'
    BY <1>1, Zenon DEF AboutToUse, Admitted
  <2>1. CASE v = w
    <3>1. r \in Values(w)
      BY <2>1, Zenon DEF AdmitsOwn
    <3>2. at[w] <= reasons'[r] + TouchInterval /\ reasons'[r] \in Nat
      BY <3>1, TableMoves, Zenon
    <3>3. at[w] \in Nat /\ TouchInterval \in Nat /\ MaxSpan \in Nat
      BY Times, Zenon DEF IndInv
    <3> QED  BY <1>1, <2>1, <3>2, <3>3 DEF Recent
  <2>2. CASE v # w
    <3>1. pc[v] = "insert" /\ at[v] \in Nat /\ at[v] <= now /\ (r \in DOMAIN reasons => Recent(r, at[v]))
      BY <1>1, <2>2, Times, Zenon DEF IndInv, TypeOK, Timely, AboutToUse
    <3>2. \A t \in Nat : t = at[v] => Recent(r, t)'
      BY <3>1, RecentStays, Zenon
    <3> QED  BY <1>1, <3>1, <3>2 DEF Recent
  <2> QED  BY <2>1, <2>2
<1>6. LastSeenTracksUse'
  <2> SUFFICES ASSUME NEW r \in DOMAIN reasons' \cap DOMAIN lastUse
               PROVE  lastUse[r] <= reasons'[r] + TouchInterval + MaxSpan
    BY <1>1, Zenon DEF LastSeenTracksUse
  <2>1. /\ lastUse[r] \in Nat /\ lastUse[r] <= now
        /\ r \in DOMAIN reasons => Recent(r, lastUse[r])
    BY Zenon DEF UsesPast, LastSeenTracksUse, Recent
  <2>2. \A t \in Nat : t = lastUse[r] => Recent(r, t)'
    BY <2>1, RecentStays, Zenon
  <2> QED  BY <2>1, <2>2 DEF Recent
<1> QED  BY <1>2, <1>3, <1>4, <1>5, <1>6

\* A use is recorded of reasons that are recent.
LEMMA InsertUse ==
  ASSUME IndInv, UseInv, NEW w \in Writers, Insert(w)
  PROVE  UseInv'
<1>1. /\ pc[w] = "insert"
      /\ lastUse' = [r \in DOMAIN lastUse \cup Admitted(w) |->
           IF r \in Admitted(w) /\ (r \notin DOMAIN lastUse \/ lastUse[r] < at[w])
           THEN at[w] ELSE lastUse[r]]
      /\ Forget(w) /\ UNCHANGED <<reasons, now>>
  BY Zenon DEF Insert, tables
<1> USE Times DEF IndInv, UseInv
<1>2. at[w] \in Nat /\ at[w] <= now /\ Admitted(w) \subseteq Reasons
  BY <1>1, Zenon DEF Timely, Admitted, TypeOK
<1>3. Timely' /\ AdmitsOwn' /\ AboutToUse'
  <2>1. Timely'
    BY <1>1, Zenon DEF Timely, Forget, Goto, TypeOK
  <2>2. AdmitsOwn'
    BY <1>1, Zenon DEF AdmitsOwn, Admitted, Values, Forget, Goto, TypeOK
  <2>3. AboutToUse'
    BY <1>1, Zenon DEF AboutToUse, Admitted, Recent, Forget, Goto, TypeOK
  <2> QED  BY <2>1, <2>2, <2>3
<1>4. UsesPast'
  BY <1>1, <1>2, Zenon DEF UsesPast
<1>5. LastSeenTracksUse'
  <2> SUFFICES ASSUME NEW r \in DOMAIN reasons, r \in DOMAIN lastUse'
               PROVE  lastUse'[r] <= reasons[r] + TouchInterval + MaxSpan
    BY <1>1, Zenon DEF LastSeenTracksUse
  <2>1. CASE r \in Admitted(w) /\ (r \notin DOMAIN lastUse \/ lastUse[r] < at[w])
    BY <1>1, <2>1, Zenon DEF AboutToUse, Recent
  <2>2. CASE ~ (r \in Admitted(w) /\ (r \notin DOMAIN lastUse \/ lastUse[r] < at[w]))
    BY <1>1, <2>2, Zenon DEF LastSeenTracksUse
  <2> QED  BY <2>1, <2>2
<1> QED  BY <1>3, <1>4, <1>5

\* A failed export forgets its batch.
LEMMA FailUse ==
  ASSUME IndInv, UseInv, NEW w \in Writers, Fail(w)
  PROVE  UseInv'
<1>1. pc[w] # "idle" /\ Forget(w) /\ UNCHANGED <<reasons, lastUse, now>>
  BY Zenon DEF Fail
<1> USE DEF IndInv, TypeOK, UseInv
<1>2. Timely'
  BY <1>1, Zenon DEF Timely, Forget, Goto
<1>3. AdmitsOwn'
  BY <1>1 DEF AdmitsOwn, Admitted, Values, Forget, Goto
<1>4. AboutToUse'
  BY <1>1, Zenon DEF AboutToUse, Admitted, Recent, Forget, Goto
<1> QED  BY <1>1, <1>2, <1>3, <1>4, UsesUnchanged

\* A sweep takes rows away and moves no last_seen.
LEMMA SweepUse ==
  ASSUME IndInv, UseInv, NEW days \in Retentions, Sweep(days)
  PROVE  UseInv'
<1>1. /\ DOMAIN reasons' \subseteq DOMAIN reasons
      /\ \A r \in DOMAIN reasons' : reasons'[r] = reasons[r]
      /\ UNCHANGED <<lastUse, now, counts, at, known, add, pc>>
  BY Zenon DEF Sweep, Without, Restrict, locals
<1> USE DEF UseInv
<1>2. Timely' /\ UsesPast' /\ AdmitsOwn'
  BY <1>1, Zenon DEF Timely, UsesPast, AdmitsOwn, Admitted, Values
<1>3. AboutToUse' /\ LastSeenTracksUse'
  BY <1>1, Zenon DEF AboutToUse, Admitted, Recent, LastSeenTracksUse
<1> QED  BY <1>2, <1>3

\* Time passes only within the span of every export.
LEMMA TickUse ==
  ASSUME IndInv, UseInv, Tick \/ UNCHANGED vars
  PROVE  UseInv'
<1>1. /\ UNCHANGED <<reasons, lastUse, counts, at, known, add, pc>>
      /\ now' \in Nat /\ now <= now'
      /\ \A w \in Writers : pc[w] # "idle" => now' <= at[w] + MaxSpan
  BY Times DEF Tick, vars, tables, locals, history, IndInv, UseInv, Timely
<1> USE Times DEF IndInv, UseInv
<1>2. Timely' /\ UsesPast'
  BY <1>1 DEF Timely, UsesPast
<1>3. AdmitsOwn' /\ AboutToUse' /\ LastSeenTracksUse'
  BY <1>1, Zenon DEF AdmitsOwn, AboutToUse, Admitted, Values, Recent, LastSeenTracksUse
<1> QED  BY <1>2, <1>3

\* For any number of exports, any touch interval, windows and span: last_seen
\* trails the latest stored use of a listed reason by at most the touch
\* interval and the time an export may last (AdmitErrorReasons).
THEOREM ReasonsLastSeenTracksUse == Spec => []LastSeenTracksUse
<1>1. Init => UseInv
  <2> SUFFICES ASSUME Init PROVE UseInv
    OBVIOUS
  <2>1. DOMAIN lastUse = {} /\ (\A w \in Writers : pc[w] = "idle" /\ Admitted(w) = {})
    BY Zenon DEF Init, Empty, Admitted
  <2> QED
    BY <2>1, Zenon DEF UseInv, Timely, UsesPast, AdmitsOwn, AboutToUse, LastSeenTracksUse
<1>2. IndInv /\ UseInv /\ [Next]_vars => UseInv'
  BY BeginUse, ReadUse, LockPlanUse, StampUse, InsertUse, FailUse, SweepUse, TickUse, Zenon
     DEF Next, Step, Quiescent
<1>3. UseInv => LastSeenTracksUse
  BY Zenon DEF UseInv
<1> QED  BY <1>1, <1>2, <1>3, Invariance, PTL DEF Spec

-----------------------------------------------------------------------------
(* Every folded record is counted.                                         *)

\* The writers that still have to store their batch.
Pending == {w \in Writers : pc[w] = "insert"}

\* What each writer folds.
FoldedBy == [w \in Writers |-> FoldedCount(w)]

\* The counters are naturals.
CountersOK == overflow \in Nat /\ folds \in [stored : Nat, lost : Nat]

\* A writer that found everything listed folds nothing.
TouchKnown == \A w \in Writers : pc[w] = "touch" => Values(w) \subseteq Admitted(w)

\* The inductive invariant behind FoldingAccounted.
FoldInv == CountersOK /\ TouchKnown /\ OverflowAccounted

\* A batch folds a natural number of its records; a batch admitted as a whole,
\* none.
LEMMA BatchFolds ==
  ASSUME NEW c \in Batches \cup {Empty}, NEW kept
  PROVE  LET n == PlanFolded(DOMAIN c \ {Other}, kept, c)
         IN  n \in Nat /\ (DOMAIN c \ {Other} \subseteq kept => n = 0)
<1> DEFINE folded == (DOMAIN c \ {Other}) \ kept
<1>1. IsFiniteSet(DOMAIN c) /\ \A v \in DOMAIN c : c[v] \in Nat
  <2>1. CASE c \in Batches
    <3>1. IsFiniteSet(DOMAIN c) /\ c \in [DOMAIN c -> Nat \ {0}]
      BY <2>1, ReasonsAssumption, Zenon
    <3> QED  BY <3>1, Zenon
  <2>2. CASE c = Empty
    <3>1. DOMAIN c = {}
      BY <2>2, Zenon DEF Empty
    <3> QED  BY <3>1, FS_EmptySet, Zenon
  <2> QED  BY <2>1, <2>2, Zenon
<1>2. IsFiniteSet(folded) /\ \A v \in folded : c[v] \in Nat
  BY <1>1, FS_Subset, Zenon
<1>3. DOMAIN c \ {Other} \subseteq kept => folded = {}
  BY Zenon
<1>4. PlanFolded(DOMAIN c \ {Other}, kept, c) = SumFunctionOnSet(c, folded)
  BY Zenon DEF PlanFolded
<1> HIDE DEF folded
<1> QED  BY <1>2, <1>3, <1>4, SumNat, Zenon

\* So does a writer.
LEMMA FoldedNat ==
  ASSUME TypeOK, NEW w \in Writers
  PROVE  FoldedCount(w) \in Nat
  BY BatchFolds, Zenon DEF TypeOK, FoldedCount, Values

\* The sum of what pending writers fold is a sum of naturals over a finite set.
LEMMA PendingSum ==
  ASSUME TypeOK
  PROVE  /\ IsFiniteSet(Pending)
         /\ \A w \in Pending : FoldedBy[w] \in Nat
         /\ SumFunctionOnSet(FoldedBy, Pending) \in Nat
<1>1. IsFiniteSet(Pending)
  BY WritersAssumption, FS_Subset, Zenon DEF Pending
<1>2. \A w \in Pending : FoldedBy[w] \in Nat
  BY FoldedNat, Zenon DEF Pending, FoldedBy
<1> QED  BY <1>1, <1>2, SumNat, Zenon

\* The account, with the names of this section.
LEMMA AccountIs ==
  OverflowAccounted <=> overflow = folds.stored + folds.lost + SumFunctionOnSet(FoldedBy, Pending)
  BY Zenon DEF OverflowAccounted, FoldedBy, Pending

\* A step that changes no counter and no pending batch keeps the account.
LEMMA AccountKept ==
  ASSUME TypeOK, OverflowAccounted, UNCHANGED <<overflow, folds>>, Pending' = Pending,
         \A v \in Pending : FoldedCount(v)' = FoldedCount(v)
  PROVE  OverflowAccounted'
<1>1. \A v \in Pending : FoldedBy[v] \in Nat /\ FoldedBy'[v] = FoldedBy[v]
  BY PendingSum, Zenon DEF FoldedBy, Pending
<1>2. SumFunctionOnSet(FoldedBy', Pending) = SumFunctionOnSet(FoldedBy, Pending)
  BY <1>1, PendingSum, SumAgrees, Zenon
<1> QED  BY <1>2, Zenon DEF OverflowAccounted, FoldedBy, Pending

\* A batch that becomes pending brings what it folds, if that was counted.
LEMMA AccountGains ==
  ASSUME TypeOK, CountersOK, OverflowAccounted, NEW w \in Writers, NEW n \in Nat,
         FoldedCount(w)' = n, overflow' = overflow + n, UNCHANGED folds,
         w \notin Pending, Pending' = Pending \cup {w},
         \A v \in Pending : FoldedCount(v)' = FoldedCount(v)
  PROVE  OverflowAccounted'
<1>1. \A v \in Pending : FoldedBy[v] \in Nat /\ FoldedBy'[v] = FoldedBy[v]
  BY PendingSum, Zenon DEF FoldedBy, Pending
<1>2. FoldedBy'[w] = n
  BY Zenon DEF FoldedBy
<1>3. SumFunctionOnSet(FoldedBy', Pending \cup {w}) = n + SumFunctionOnSet(FoldedBy, Pending)
  BY <1>1, <1>2, PendingSum, SumGains
<1>4. /\ SumFunctionOnSet(FoldedBy, Pending) \in Nat
      /\ folds.stored \in Nat /\ folds.lost \in Nat /\ overflow \in Nat
  BY PendingSum, Zenon DEF CountersOK
<1>5. overflow = folds.stored + folds.lost + SumFunctionOnSet(FoldedBy, Pending)
  BY AccountIs, Zenon
<1>6. overflow' = folds'.stored + folds'.lost + SumFunctionOnSet(FoldedBy', Pending')
  BY <1>3, <1>4, <1>5
<1> QED  BY <1>6, Zenon DEF OverflowAccounted, FoldedBy, Pending

\* A batch that is no longer pending was stored, or lost.
LEMMA AccountLoses ==
  ASSUME TypeOK, CountersOK, OverflowAccounted, NEW w \in Pending, UNCHANGED overflow,
         folds'.stored + folds'.lost = folds.stored + folds.lost + FoldedCount(w),
         Pending' = Pending \ {w},
         \A v \in Pending \ {w} : FoldedCount(v)' = FoldedCount(v)
  PROVE  OverflowAccounted'
<1>1. /\ IsFiniteSet(Pending) /\ \A v \in Pending : FoldedBy[v] \in Nat
      /\ SumFunctionOnSet(FoldedBy, Pending) \in Nat
  BY PendingSum, Zenon
<1>2. \A v \in Pending \ {w} : FoldedBy'[v] = FoldedBy[v]
  BY Zenon DEF FoldedBy, Pending
<1>3. SumFunctionOnSet(FoldedBy, Pending) = FoldedBy[w] + SumFunctionOnSet(FoldedBy', Pending \ {w})
  BY <1>1, <1>2, SumLoses
<1>4. FoldedBy[w] = FoldedCount(w) /\ FoldedCount(w) \in Nat
  BY <1>1, Zenon DEF FoldedBy, Pending
<1>5. SumFunctionOnSet(FoldedBy', Pending \ {w}) \in Nat
  <2>1. IsFiniteSet(Pending \ {w}) /\ \A v \in Pending \ {w} : FoldedBy'[v] \in Nat
    BY <1>1, <1>2, FS_RemoveElement, Zenon
  <2> QED  BY <2>1, SumNat, Zenon
<1>6. overflow = folds.stored + folds.lost + SumFunctionOnSet(FoldedBy, Pending)
  BY AccountIs, Zenon
<1>7. folds.stored \in Nat /\ folds.lost \in Nat
  BY Zenon DEF CountersOK
<1>8. overflow' = folds'.stored + folds'.lost + SumFunctionOnSet(FoldedBy', Pending')
  BY <1>3, <1>4, <1>5, <1>6, <1>7
<1> QED  BY <1>8, Zenon DEF OverflowAccounted, FoldedBy, Pending

\* What a writer folds depends on its own batch, reads and plan only.
LEMMA FoldedStays ==
  ASSUME NEW v \in Writers,
         counts'[v] = counts[v], known'[v] = known[v], add'[v] = add[v]
  PROVE  FoldedCount(v)' = FoldedCount(v)
  BY Zenon DEF FoldedCount, Values, Admitted

\* A step of a writer outside the write changes neither the counters nor a
\* pending batch; it makes its own pending only with nothing folded.
LEMMA OwnStepFold ==
  ASSUME IndInv, FoldInv, NEW w \in Writers, w \notin Pending,
         TypeOK', UNCHANGED <<overflow, folds>>,
         pc' = [pc EXCEPT ![w] = pc'[w]], pc'[w] = "insert" => Values(w)' \subseteq Admitted(w)',
         \A v \in Writers \ {w} :
           counts'[v] = counts[v] /\ known'[v] = known[v] /\ add'[v] = add[v]
  PROVE  CountersOK' /\ OverflowAccounted'
<1>1. TypeOK /\ CountersOK /\ OverflowAccounted /\ overflow \in Nat
  BY Zenon DEF IndInv, FoldInv, CountersOK
<1>2. \A v \in Pending : FoldedCount(v)' = FoldedCount(v)
  BY FoldedStays, Zenon DEF Pending
<1>3. CountersOK'
  BY <1>1, Zenon DEF CountersOK
<1>4. CASE pc'[w] = "insert"
  <2>1. counts'[w] \in Batches \cup {Empty} /\ Values(w)' \subseteq Admitted(w)'
    BY <1>4, Zenon DEF TypeOK
  <2>2. FoldedCount(w)' = 0
    BY <2>1, BatchFolds, Zenon DEF FoldedCount, Values
  <2>3. Pending' = Pending \cup {w}
    BY <1>1, <1>4, Zenon DEF Pending, TypeOK
  <2>4. overflow' = overflow + 0 /\ 0 \in Nat
    BY <1>1
  <2> QED  BY <1>1, <1>2, <1>3, <2>2, <2>3, <2>4, AccountGains, Zenon
<1>5. CASE pc'[w] # "insert"
  <2>1. Pending' = Pending
    BY <1>1, <1>5, Zenon DEF Pending, TypeOK
  <2> QED  BY <1>1, <1>2, <1>3, <2>1, AccountKept, Zenon
<1> QED  BY <1>4, <1>5

\* A batch begins, reads, takes the lock, plans or touches: nothing is counted.
LEMMA StartFold ==
  ASSUME IndInv, IndInv', FoldInv, NEW w \in Writers,
         \/ \E c \in Batches, l \in Limits : Begin(w, c, l)
         \/ Read(w) \/ Lock(w) \/ Reread(w) \/ Plan(w) \/ Touch(w)
  PROVE  FoldInv'
<1>1. TypeOK /\ TypeOK' /\ TouchKnown
  BY Zenon DEF IndInv, FoldInv
<1>2. /\ w \notin Pending /\ UNCHANGED <<overflow, folds>>
      /\ pc' = [pc EXCEPT ![w] = pc'[w]]
      /\ \A v \in Writers \ {w} :
           counts'[v] = counts[v] /\ known'[v] = known[v] /\ add'[v] = add[v]
  <2>1. ASSUME NEW c \in Batches, NEW l \in Limits, Begin(w, c, l) PROVE <1>2
    BY <1>1, <2>1, Zenon DEF Begin, Goto, Pending, tables, history, TypeOK
  <2>2. CASE Read(w) \/ Lock(w) \/ Reread(w)
    BY <1>1, <2>2, Zenon DEF Read, Lock, Reread, Goto, Pending, tables, locals, history, TypeOK
  <2>3. CASE Plan(w) \/ Touch(w)
    BY <1>1, <2>3, Zenon DEF Plan, Touch, Goto, Pending, tables, locals, history, TypeOK
  <2> QED  BY <2>1, <2>2, <2>3, Zenon
<1>3. pc'[w] \in {"insert", "touch"} => Values(w)' \subseteq Admitted(w)'
  <2>1. ASSUME NEW c \in Batches, NEW l \in Limits, Begin(w, c, l) PROVE <1>3
    <3>1. /\ pc'[w] = IF DOMAIN c \subseteq {Other} THEN "insert" ELSE "read"
          /\ counts'[w] = c
      BY <1>1, <2>1, Zenon DEF Begin, Goto, TypeOK
    <3>2. CASE DOMAIN c \subseteq {Other}
      BY <3>1, <3>2, Zenon DEF Values
    <3>3. CASE ~ (DOMAIN c \subseteq {Other})
      BY <3>1, <3>3, Zenon
    <3> QED  BY <3>2, <3>3, Zenon
  <2>2. CASE Read(w)
    <3>1. /\ pc'[w] \in {"insert", "touch"} => Values(w) \subseteq DOMAIN reasons
          /\ known'[w] = Values(w) \cap DOMAIN reasons /\ counts'[w] = counts[w]
      BY <1>1, <2>2, Zenon DEF Read, Goto, TypeOK
    <3> QED  BY <3>1, Zenon DEF Values, Admitted
  <2>3. CASE Lock(w) \/ Reread(w) \/ Plan(w)
    BY <1>1, <2>3, Zenon DEF Lock, Reread, Plan, Goto, TypeOK
  <2>4. CASE Touch(w)
    <3>1. pc[w] = "touch" /\ UNCHANGED <<counts, known, add>>
      BY <2>4, Zenon DEF Touch, locals
    <3> QED  BY <1>1, <3>1, Zenon DEF TouchKnown, Values, Admitted
  <2> QED  BY <2>1, <2>2, <2>3, <2>4, Zenon
<1>4. TouchKnown'
  <2> SUFFICES ASSUME NEW v \in Writers, pc'[v] = "touch" PROVE Values(v)' \subseteq Admitted(v)'
    BY Zenon DEF TouchKnown
  <2>1. CASE v = w
    BY <1>3, <2>1, Zenon
  <2>2. CASE v # w
    BY <1>1, <1>2, <2>2, Zenon DEF TouchKnown, Values, Admitted, TypeOK
  <2> QED  BY <2>1, <2>2, Zenon
<1>5. pc'[w] = "insert" => Values(w)' \subseteq Admitted(w)'
  BY <1>3, Zenon
<1>6. CountersOK' /\ OverflowAccounted'
  BY <1>1, <1>2, <1>5, OwnStepFold, Zenon
<1> QED  BY <1>4, <1>6, Zenon DEF FoldInv

\* The commit counts what the batch folds, at the moment it becomes pending.
LEMMA CommitFold ==
  ASSUME IndInv, FoldInv, NEW w \in Writers, Commit(w)
  PROVE  FoldInv'
<1>1. /\ pc[w] = "commit" /\ pc' = [pc EXCEPT ![w] = "insert"]
      /\ overflow' = overflow + FoldedCount(w)
      /\ UNCHANGED <<counts, known, add, folds>>
  BY Zenon DEF Commit, Goto, locals, history
<1>2. TypeOK /\ CountersOK /\ TouchKnown /\ OverflowAccounted /\ overflow \in Nat
  BY Zenon DEF IndInv, FoldInv, CountersOK
<1>3. FoldedCount(w) \in Nat
  BY <1>2, FoldedNat, Zenon
<1>4. \A v \in Writers : FoldedCount(v)' = FoldedCount(v)
  BY <1>1, FoldedStays, Zenon
<1>5. w \notin Pending /\ Pending' = Pending \cup {w}
  BY <1>1, <1>2, Zenon DEF Pending, TypeOK
<1>6. OverflowAccounted'
  BY <1>1, <1>2, <1>3, <1>4, <1>5, AccountGains, Zenon DEF Pending
<1>7. TouchKnown'
  BY <1>1, <1>2, Zenon DEF TouchKnown, Values, Admitted, TypeOK
<1>8. CountersOK'
  BY <1>1, <1>2, <1>3 DEF CountersOK
<1> QED  BY <1>6, <1>7, <1>8, Zenon DEF FoldInv

\* A pending batch ends, stored or lost, and what it folded changes place.
LEMMA EndFold ==
  ASSUME IndInv, FoldInv, NEW w \in Writers, Insert(w) \/ Fail(w)
  PROVE  FoldInv'
<1>1. TypeOK /\ CountersOK /\ TouchKnown /\ OverflowAccounted
  BY Zenon DEF IndInv, FoldInv
<1>2. /\ Forget(w) /\ UNCHANGED overflow
      /\ pc[w] = "insert" =>
           \/ folds' = [folds EXCEPT !.stored = @ + FoldedCount(w)]
           \/ folds' = [folds EXCEPT !.lost = @ + FoldedCount(w)]
      /\ pc[w] # "insert" => folds' = folds
  BY Zenon DEF Insert, Fail, tables
<1>3. /\ pc' = [pc EXCEPT ![w] = "idle"]
      /\ \A v \in Writers \ {w} :
           counts'[v] = counts[v] /\ known'[v] = known[v] /\ add'[v] = add[v]
  BY <1>1, <1>2, Zenon DEF Forget, Goto, TypeOK
<1>4. \A v \in Writers \ {w} : FoldedCount(v)' = FoldedCount(v)
  BY <1>3, FoldedStays, Zenon
<1>5. TouchKnown'
  BY <1>1, <1>3, Zenon DEF TouchKnown, Values, Admitted, TypeOK
<1>6. Pending' = Pending \ {w}
  BY <1>1, <1>3, Zenon DEF Pending, TypeOK
<1>7. CASE pc[w] = "insert"
  <2>1. FoldedCount(w) \in Nat
    BY <1>1, FoldedNat, Zenon
  <2>2. CountersOK' /\ folds'.stored + folds'.lost = folds.stored + folds.lost + FoldedCount(w)
    BY <1>1, <1>2, <1>7, <2>1 DEF CountersOK
  <2>3. w \in Pending
    BY <1>7, Zenon DEF Pending
  <2>4. OverflowAccounted'
    BY <1>1, <1>2, <1>4, <1>6, <2>2, <2>3, AccountLoses, Zenon DEF Pending
  <2> QED  BY <1>5, <2>2, <2>4, Zenon DEF FoldInv
<1>8. CASE pc[w] # "insert"
  <2>1. Pending' = Pending /\ \A v \in Pending : FoldedCount(v)' = FoldedCount(v)
    BY <1>4, <1>6, <1>8, Zenon DEF Pending
  <2>2. OverflowAccounted'
    BY <1>1, <1>2, <1>8, <2>1, AccountKept, Zenon
  <2>3. CountersOK'
    BY <1>1, <1>2, <1>8, Zenon DEF CountersOK
  <2> QED  BY <1>5, <2>2, <2>3, Zenon DEF FoldInv
<1> QED  BY <1>7, <1>8, Zenon

\* A sweep, the clock and a stuttering step leave batches and counters alone.
LEMMA OtherFold ==
  ASSUME IndInv, FoldInv,
         Tick \/ UNCHANGED vars \/ \E days \in Retentions : Sweep(days)
  PROVE  FoldInv'
<1>1. UNCHANGED <<pc, counts, known, add, overflow, folds>>
  BY Zenon DEF Tick, vars, Sweep, tables, locals, history
<1>2. Pending' = Pending /\ \A v \in Pending : FoldedCount(v)' = FoldedCount(v)
  BY <1>1, FoldedStays, Zenon DEF Pending
<1>3. OverflowAccounted'
  BY <1>1, <1>2, AccountKept, Zenon DEF IndInv, FoldInv
<1> QED  BY <1>1, <1>3, Zenon DEF FoldInv, CountersOK, TouchKnown, Values, Admitted

\* For any number of concurrent exports, failures and sweeps: the overflow that
\* AdmitErrorReasons counts is exactly the records stored as "other", or lost
\* after they were counted, and no unlisted reason is stored.
THEOREM ReasonsFoldingAccounted == Spec => []FoldingAccounted
<1>1. Init => FoldInv
  <2> SUFFICES ASSUME Init PROVE FoldInv
    OBVIOUS
  <2>1. TypeOK
    BY IndInit, Zenon DEF IndInv
  <2>2. Pending = {} /\ overflow = 0 /\ folds.stored = 0 /\ folds.lost = 0
    BY Zenon DEF Init, Pending
  <2>3. SumFunctionOnSet(FoldedBy, Pending) = 0
    BY <2>1, <2>2, PendingSum, SumNat, Zenon
  <2>4. OverflowAccounted
    BY <2>2, <2>3, AccountIs
  <2>5. CountersOK /\ TouchKnown
    BY DEF Init, CountersOK, TouchKnown
  <2> QED  BY <2>4, <2>5, Zenon DEF FoldInv
<1>2. IndInv /\ IndInv' /\ FoldInv /\ [Next]_vars => FoldInv'
  BY StartFold, CommitFold, EndFold, OtherFold, Zenon DEF Next, Step, Quiescent
<1>3. IndInv /\ FoldInv => FoldingAccounted
  BY Zenon DEF IndInv, FoldInv, FoldingAccounted
<1> QED  BY <1>1, <1>2, <1>3, Invariance, PTL DEF Spec
=============================================================================
