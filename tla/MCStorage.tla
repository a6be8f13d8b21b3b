----------------------------- MODULE MCStorage -----------------------------
(***************************************************************************)
(* The vocabulary of a vendor instrument and the queries of the metrics    *)
(* API on a small instance.  A behaviour follows one of: the admission of  *)
(* names and labels; the raw logs of one query; the rollups as hours pass; *)
(* the answers on a vendor's metric; a ratio of two of them.  None of them *)
(* reads the state of another.                                             *)
(*                                                                         *)
(* The batches compete for the last name and for the last label of a name; *)
(* one of them has unlabelled points and points sent as "other".           *)
(***************************************************************************)
EXTENDS Vocabulary, Journeys, CommandStats, Ratios, TLC

CONSTANTS
  ShortRows,  \* bound: rows of starts and errors
  Parts       \* the parts followed, of those named in MCInit

VARIABLE followed

MCBatches ==
  {<<1, 1>> :> 1,
   <<1, 2>> :> 1 @@ <<2, NoLabel>> :> 2,
   <<1, 1>> :> 1 @@ <<1, 2>> :> 1 @@ <<2, 1>> :> 1 @@ <<Other, 1>> :> 1}

MCRuns ==
  [id : 1..2, install : {1}, time : 0..3, command : {1}, failed : {TRUE, FALSE}]
  \cup [id : {1}, install : {2}, time : {1}, command : {1}, failed : {TRUE}]
  \cup [id : {3}, install : {1}, time : {0, 2, 4}, command : {2, NoCommand}, failed : {TRUE}]
MCStarts == [id : {1}, install : 1..3, time : 0..5]
MCErrors ==
  [id : {1}, install : 1..2, time : {0}, fp : 1..3, tier : 0..2]
  \cup [id : {1}, install : {1}, time : {1, 2}, fp : {1}, tier : {2}]
MCEdges == <<2, 3>>

MCSpans ==
  [id : {1}, hour : {0}, command : {1}, code : {0, 1, Null}]
  \cup [id : {1}, hour : {0}, command : {2}, code : {0}]
  \cup [id : {2}, hour : 1..4, command : {1}, code : {1}]
MCAttempts == [id : {1}, hour : {0, 5}]

Point(t, label, seen, extremes) ==
  [time |-> t, metric |-> "vendor", label |-> label, install |-> 1, seen |-> seen,
   sums |-> TRUE, extremes |-> extremes]
Event(t, metric, label, i) ==
  [time |-> t, metric |-> metric, label |-> label, install |-> i, seen |-> <<>>,
   sums |-> FALSE, extremes |-> FALSE]
\* With <<9, 1>>, the values <<5, 5>> leave a bucket empty after the first rank.
VendorPoints ==
  {Point(1, label, <<1>>, TRUE) : label \in {None, OtherLabel, "k" :> 2 @@ "l" :> 1}}
  \cup {Point(0, "k" :> 1, seen, TRUE) : seen \in {<<2, 5>>, <<5, 5>>}}
  \cup {Point(2, "k" :> 1, seen, TRUE) : seen \in {<<0>>, <<9, 1>>}}
  \cup {Point(2, "k" :> 1, seen, FALSE) : seen \in {<<0>>, <<5>>, <<2, 9>>}}
  \cup {[Point(1, "k" :> 1, <<-1>>, TRUE) EXCEPT !.sums = FALSE]}
RatioPoints ==
  {Point(0, "k" :> 1, <<2>>, TRUE), Point(2, OtherLabel, <<1, 2>>, TRUE),
   [Point(2, "k" :> 1, <<2>>, TRUE) EXCEPT !.sums = FALSE]}
  \cup {Event(0, "session", None, 1)} \cup {Event(2, "session", None, i) : i \in {1, 2, None}}
  \cup {Event(0, "command", "k" :> c, 1) : c \in 1..2}
MCPoints == VendorPoints \cup RatioPoints
\* With these all points are there before the first statement.
ZeroBounds == <<0, 4, 6>>
MCBounds == {<<1, 4, 6>>, ZeroBounds}

Share(num, where, den) ==
  [num |-> [kind |-> num, where |-> where], den |-> [kind |-> den, where |-> None]]
MCRatioMetrics ==
  {Share("count", 1, "count"), Share("sum", 1, "count"), Share("active_installs", None, "sessions"),
   Share("command_invocations", 1, "command_invocations"), Share("sum", None, "active_installs")}

mcVars == <<vars, journeyVars, rollupVars, seriesVars, followed>>

MCInit ==
  /\ followed \in Parts \cap {"names", "runs", "starts", "errors", "hours", "vendor", "ratio"}
  /\ Init /\ JourneysInit /\ RollupsInit
  /\ SeriesInit(IF followed = "ratio" THEN {RatioPlan} ELSE {SeriesPlan})
  /\ followed # "errors" => ceiling = 0
  /\ followed # "vendor" => bounds # ZeroBounds

NamesStep ==
  followed = "names" /\ Next /\ UNCHANGED <<journeyVars, rollupVars, seriesVars, followed>>

JourneyStep ==
  /\ followed \in {"runs", "starts", "errors"} /\ JourneysNext
  /\ table' \subseteq CASE followed = "runs" -> Runs
                        [] followed = "starts" -> Starts
                        [] followed = "errors" -> Errors
  /\ followed # "errors" => ceiling' = ceiling
  /\ followed # "runs" => Cardinality(table') <= ShortRows
  /\ UNCHANGED <<vars, rollupVars, seriesVars, followed>>

RollupStep ==
  /\ followed = "hours" /\ RollupsNext
  /\ attempts' # {} => Cardinality(sent') <= 1
  /\ UNCHANGED <<vars, journeyVars, seriesVars, followed>>

SeriesStep ==
  /\ followed \in {"vendor", "ratio"} /\ SeriesNext
  /\ bounds = ZeroBounds /\ DOMAIN read # {} => recorded' = recorded
  /\ recorded' \subseteq IF followed = "ratio" THEN RatioPoints ELSE VendorPoints
  /\ UNCHANGED <<vars, journeyVars, rollupVars, followed>>

MCNext == NamesStep \/ JourneyStep \/ RollupStep \/ SeriesStep

MCSpec == MCInit /\ [][MCNext]_mcVars /\ Fairness /\ RollupsFairness
=============================================================================
