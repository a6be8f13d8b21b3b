----------------------------- MODULE MCCatalogs ------------------------------
(***************************************************************************)
(* Two CLIs with catalogs of up to two metrics, one of them a ratio of the *)
(* other that becomes a counter, and files that are not valid; two         *)
(* concurrent applies and two concurrent saves.                            *)
(***************************************************************************)
EXTENDS Catalogs, TLC

CONSTANTS a1, a2, p1, p2, e1, e2

CONSTANTS Count, Rate, Share, Untitled

Counter == [kind |-> "counter", dims |-> {"os"}, operands |-> {}, sound |-> TRUE]

Ratio(operands) == [kind |-> "ratio", dims |-> {}, operands |-> operands, sound |-> TRUE]

\* Rate is the runs on one os to the sessions; Share is a ratio of builtins.
MCMeaning ==
  Count :> Counter
  @@ Rate :> Ratio({[metric |-> "runs", where |-> {"os"}, agg |-> FALSE]})
  @@ Share :> Ratio({})
  @@ Untitled :> [Counter EXCEPT !.sound = FALSE]

MCFiles ==
  {[service |-> "cli", metrics |-> m] :
     m \in {("runs" :> Count), ("rate" :> Count), ("runs" :> Count @@ "rate" :> Rate),
            ("rate" :> Rate), ("runs" :> Share @@ "rate" :> Rate), ("runs" :> Untitled)}}
  \cup {[service |-> "other", metrics |-> ("runs" :> Share)]}

Card(m, t) == [metric |-> m, card_type |-> t]

MCLayouts ==
  {[service |-> "cli", cards |-> c] :
     c \in {<<>>, <<Card("runs", "kpi")>>, <<Card("rate", "breakdown"), Card("rate", "reach")>>}}

Symmetry == Permutations(Appliers) \cup Permutations(Savers) \cup Permutations(Exports)
=============================================================================
