--------------------------- MODULE VocabularyPlan ---------------------------
(***************************************************************************)
(* What every capped vocabulary of internal/storage shares: the choice of  *)
(* the values that get the free slots (planVocabulary) and the SQL         *)
(* statements that change a vocabulary table.                              *)
(*                                                                         *)
(* A value is represented by its rank in Go's string order, a positive     *)
(* integer, so that "then by name" is "<"; the reserved value "other" is   *)
(* 0.  A table is a function from the listed values to their last_seen.    *)
(***************************************************************************)
EXTENDS Integers, FiniteSets, Functions

Other == 0

\* The values of a batch that the table does not list.
Fresh(values, known) == values \ known

\* sort.SliceStable over sorted names: most frequent first, then by name.
Before(counts, a, b) ==
  \/ counts[a] > counts[b]
  \/ counts[a] = counts[b] /\ a < b

\* The fresh values that precede r in that order.
Ahead(values, known, counts, r) ==
  {q \in Fresh(values, known) : Before(counts, q, r)}

\* planVocabulary's add: the first room fresh values.
PlanAdd(values, known, counts, room) ==
  {r \in Fresh(values, known) :
      Cardinality(Ahead(values, known, counts, r)) < room}

\* planVocabulary's folded: the records that carry none of the kept values.
PlanFolded(values, kept, counts) == SumFunctionOnSet(counts, values \ kept)

-----------------------------------------------------------------------------
(* The statements.                                                         *)

\* INSERT ... ON CONFLICT DO NOTHING
Inserted(table, values, at) ==
  [v \in DOMAIN table \cup values |->
      IF v \in DOMAIN table THEN table[v] ELSE at]

\* UPDATE ... SET last_seen = at WHERE ... last_seen < staleBefore
Touched(table, values, at, staleBefore) ==
  [v \in DOMAIN table |->
      IF v \in values /\ table[v] < staleBefore THEN at ELSE table[v]]

\* Whether some of the values was last seen before staleBefore.
Stale(table, values, staleBefore) ==
  \E v \in values \cap DOMAIN table : table[v] < staleBefore

\* The values DELETE ... WHERE last_seen < cutoff removes, and what is left.
Expired(table, cutoff) == {v \in DOMAIN table : table[v] < cutoff}
Without(table, values) == Restrict(table, DOMAIN table \ values)
=============================================================================
