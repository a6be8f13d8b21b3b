------------------------------ MODULE CappedSet ------------------------------
(***************************************************************************)
(* What a capped vocabulary promises, whatever the interleaving of batches *)
(* and sweeps: a set of listed values that starts empty, that grows only   *)
(* to a size some limit in force allows, and that otherwise only shrinks.  *)
(***************************************************************************)
EXTENDS Integers, FiniteSets

CONSTANT Limits

VARIABLE listed

Init == listed = {}

\* A batch takes free slots: the set stays within that batch's limit.
Admit == \E limit \in Limits :
  /\ listed \subseteq listed'
  /\ Cardinality(listed') <= limit

\* A sweep frees slots.
Evict == listed' \subseteq listed

Next == Admit \/ Evict

Spec == Init /\ [][Next]_listed
=============================================================================
