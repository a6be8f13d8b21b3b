------------------------------ MODULE MCTables ------------------------------
(***************************************************************************)
(* The tables an ingest process keeps beside the telemetry.  A behaviour   *)
(* follows one of two parts, neither of which reads the state of the       *)
(* other.                                                                  *)
(*                                                                         *)
(* Installs: two installs, three batches out of time order, one of them    *)
(* for both installs, and a version that does not parse.                   *)
(* Reasons: batches that compete for the last slot, one that carries       *)
(* "other" literally, and processes that disagree on the limit.            *)
(***************************************************************************)
EXTENDS Installs, ErrorReasons, TLC

CONSTANT Parts  \* the parts followed, of those named in MCInit

VARIABLE followed

Session(k, t, v, m) == [event |-> "session", install |-> k, at |-> t, version |-> v,
                        method |-> m, exit |-> None, names |-> {}]
Completed(k, t, v, x) == [event |-> "completed", install |-> k, at |-> t, version |-> v,
                          method |-> None, exit |-> x, names |-> {}]
Used(e, k, t, n) == [event |-> e, install |-> k, at |-> t, version |-> None,
                     method |-> None, exit |-> None, names |-> n]

SemverOrder == ("1.0" :> 1) @@ ("2.0" :> 2)
VersionNames == {"1.0", "2.0", "dev"}

MixedBatches == {
  <<Completed(1, 3, "2.0", 0), Session(2, 1, "dev", "brew"), Used("feature", 1, 3, {"f"}),
    Used("feature", 1, 2, {"f"})>>,
  <<Completed(1, 2, "1.0", 1), Session(1, 1, None, "apt"), Used("feature", 1, 1, {"f"})>>,
  <<Session(2, 4, "2.0", None), Completed(1, 4, "2.0", 0)>>,
  <<Used("flag", None, 2, {"f"})>> }

ReasonBatches == {1 :> 1, (1 :> 1 @@ 2 :> 2), (0 :> 1 @@ 2 :> 1 @@ 3 :> 1)}

mcVars == <<installVars, vars, followed>>

MCInit == InstallsInit /\ Init /\ followed \in Parts \cap {"installs", "reasons"}

InstallsStep == followed = "installs" /\ InstallsNext /\ UNCHANGED <<vars, followed>>

ReasonsStep == followed = "reasons" /\ Next /\ UNCHANGED <<installVars, followed>>

\* The installs come to rest when the exports, sweeps and backfills are used
\* up; the vocabulary never does.
Rest == followed = "installs" /\ UNCHANGED mcVars

MCNext == InstallsStep \/ ReasonsStep \/ Rest

MCSpec == MCInit /\ [][MCNext]_mcVars

Symmetry == Permutations(Exports)
=============================================================================
