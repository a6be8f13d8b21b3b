-------------------------- MODULE BoundedStaleness --------------------------
(***************************************************************************)
(* What an in-memory cache in front of Postgres promises: what it answers  *)
(* for a key is what the database said at some moment less than Bound ago. *)
(* The truth changes at will, and nobody tells the cache.                  *)
(***************************************************************************)
EXTENDS Integers

CONSTANTS
  Keys, Answers,
  Bound          \* [Keys -> [Answers -> Nat]]

VARIABLES
  truth,         \* [Keys -> Answers]: what the database says
  ended,         \* [Keys -> partial function]: when an answer last ceased to hold
  now,
  served         \* what this step answers, for which key

vars == <<truth, ended, now, served>>

\* The answer held at some moment less than d ago.
HeldWithin(k, a, d) ==
  truth[k] = a \/ (a \in DOMAIN ended[k] /\ now - ended[k][a] < d)

Noted(old, a, t) == [b \in DOMAIN old \cup {a} |-> IF b = a THEN t ELSE old[b]]

NoAnswer == [key |-> "none"]

Init ==
  /\ truth \in [Keys -> Answers]
  /\ ended = [k \in Keys |-> [a \in {} |-> 0]]
  /\ now = 0
  /\ served = NoAnswer

Change ==
  /\ truth' \in [Keys -> Answers]
  /\ ended' = [k \in Keys |->
       IF truth'[k] = truth[k] THEN ended[k] ELSE Noted(ended[k], truth[k], now)]
  /\ served' = NoAnswer
  /\ UNCHANGED now

Serve(k, a) ==
  /\ HeldWithin(k, a, Bound[k][a])
  /\ served' = [key |-> k, answer |-> a]
  /\ UNCHANGED <<truth, ended, now>>

Tick == now' = now + 1 /\ served' = NoAnswer /\ UNCHANGED <<truth, ended>>

Silent == served' = NoAnswer /\ UNCHANGED <<truth, ended, now>>

Next == Change \/ Tick \/ Silent \/ \E k \in Keys, a \in Answers : Serve(k, a)

Spec == Init /\ [][Next]_vars
=============================================================================
