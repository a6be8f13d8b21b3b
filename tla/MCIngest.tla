------------------------------ MODULE MCIngest ------------------------------
(***************************************************************************)
(* The public server on a small instance: its ingest pipeline, its rate    *)
(* limiter, its tenant cache, and its life from the load of the schema to  *)
(* the drain.  They share no state, so that a behaviour follows one of     *)
(* them.                                                                   *)
(*                                                                         *)
(* The pipeline has one client, whose exports share nothing with others'   *)
(* but the tables of the caps.  Tiers 0 (anonymous), 1 (basic) and 2       *)
(* (full); the schemas differ in the tier of "stack", and some files are   *)
(* not valid; the configurations differ in ceiling, mode and strictness,   *)
(* the catalogs in the dimensions and the tier they declare for one        *)
(* counter.  The tenant cache has two requests, so that a late answer can  *)
(* overwrite a newer one; entries of different keys have nothing in        *)
(* common, so they make one of the four lookups, and operations on what    *)
(* that lookup does not read are left out.                                 *)
(***************************************************************************)
EXTENDS Ingest, RateLimiter, PublicServer, TenantCache, TLC

CONSTANTS none, Odd, c1, e1, e2, s1, s2, r1, r2, viewer, editor

CONSTANT Parts     \* what is followed: "pipeline", "limiter", "process", "tenants"

VARIABLES
  followed,        \* one of them
  asked            \* the lookup the requests make

MCKeys == {"service.name", "stack", "junk", "reason", "label", "dim.a", "dim.label"}
MCDims == {"dim.a", "dim.label"}

Event(required, dropBody) ==
  [allowed |-> {"stack", "reason", "label", "dim.a", "dim.label"},
   required |-> required, dropBody |-> dropBody]

Schema(stack) ==
  [events |-> ("cli.counter" :> Event({}, FALSE) @@ "cli.measure" :> Event({"reason"}, FALSE)
               @@ "error" :> Event({}, FALSE) @@ "unknown" :> Event({}, TRUE)
               @@ "span" :> Event({}, FALSE)),
   min |-> [k \in MCKeys |-> IF k = "stack" THEN stack ELSE 0],
   standard |-> {"service.name"}]

MCFiles == {Schema(1), Schema(2), Schema(3), [Schema(2) EXCEPT !.min = [k \in MCDims |-> 0]]}

Config(ceiling, mode, strict) == [ceiling |-> ceiling, mode |-> mode, strict |-> strict]
MCConfigs == {Config(2, "strip", FALSE), Config(0, "strip", TRUE), Config(1, "reject", FALSE)}

MCCatalogs == {"builds" :> [kind |-> "cli.counter", dims |-> {"dim.a"}, min |-> none],
               "builds" :> [kind |-> "cli.counter", dims |-> {"dim.a", "dim.label"}, min |-> 1]}

Scope(tier, attrs) == [tier |-> tier, attrs |-> attrs]
Good(keys) == [k \in keys |-> "good"]

Record(event, name, resource, record) ==
  [event |-> event, name |-> name, resource |-> resource, record |-> record,
   body |-> TRUE, many |-> FALSE, shaped |-> TRUE, timely |-> TRUE]

CLI == Scope(2, Good({"service.name"}))

Points == {
  Record("cli.counter", "builds", CLI, Scope(0, Good({"dim.a", "label"}))),
  Record("cli.counter", "builds", CLI, Scope(none, Good({"dim.label"}) @@ "dim.a" :> "bad")),
  Record("cli.measure", "builds", CLI, Scope(1, Good({"reason"}))),
  [Record("cli.measure", "builds", CLI, Scope(1, Good({}))) EXCEPT !.shaped = FALSE],
  Record("cli.counter", "tests", Scope(1, Good({})), Scope(none, Good({"dim.a", "dim.label"})))}

Logs == {
  Record("error", none, CLI, Scope(none, Good({"stack", "reason", "junk"}))),
  Record("unknown", none, CLI, Scope(none, Good({"stack"}))),
  Record("error", none, CLI, Scope(0, Good({"stack"}))),
  [Record("error", none, CLI, Scope(1, Good({"stack"}))) EXCEPT !.timely = FALSE],
  [Record("error", none, CLI, Scope(1, Good({"stack"}))) EXCEPT !.many = TRUE]}

Spans == {
  Record("span", none, CLI, Scope(none, Good({"stack"}))),
  Record("span", none, CLI, Scope(Odd, Good({"stack"})))}

Lists(S, n) == UNION {[1..m -> S] : m \in 1..n}

MCBatches ==
  [signal : {"metrics"}, records : Lists(Points, 2)]
  \cup [signal : {"logs"}, records : Lists(Logs, 2)]
  \cup [signal : {"traces"}, records : Lists(Spans, 2) \cup {<<x, x, x>> : x \in Spans}]
-----------------------------------------------------------------------------
MCDefaults == [rps |-> 1, bps |-> 2, burst |-> 2]
MCPerMethod == [m \in {"jwt"} |-> [rps |-> 1, bps |-> 1, burst |-> 0]]
MCSettings == {[rps |-> Null, bps |-> Null, burst |-> Null],
               [rps |-> 0, bps |-> 1, burst |-> 1]}

\* The process has ended: nothing of it runs any more.
Ended ==
  /\ phase = "crashed" /\ signalled = FALSE
  /\ file = Broken /\ saving = Unset /\ saves = 0 /\ noticed = "no"
  /\ watch = "none" /\ events = FALSE /\ reload = "select" /\ current = Unset
  /\ export = [e \in Exports |-> "none"]

allVars == <<vars, limiterVars, serverVars, tenantVars, followed, asked>>

Follow(part) == followed = part /\ UNCHANGED <<followed, asked>>

\* What a behaviour does not follow stands still in one state.
MCInit ==
  /\ followed \in Parts
  /\ asked \in Lookups
  /\ IngestInit /\ LimiterInit /\ Init
  /\ IF followed = "process" THEN ServerInit ELSE Ended
  /\ \/ followed = "pipeline"
     \/ /\ schema = CHOOSE x \in Schemas : TRUE
        /\ config = CHOOSE x \in Configs : TRUE
        /\ catalog = CHOOSE x \in Catalogs : TRUE
        /\ batch = [c \in Clients |-> CHOOSE x \in Batches : TRUE]
  /\ followed = "limiter" \/ \A t \in Tenants : settings[t]["rps"] = Null
  /\ followed = "tenants" \/ (asked = "key" /\ tenantConfig = Absent)

MCNext ==
  \/ Follow("pipeline") /\ IngestNext /\ UNCHANGED <<limiterVars, serverVars, tenantVars>>
  \/ Follow("limiter") /\ LimiterNext /\ UNCHANGED <<vars, serverVars, tenantVars>>
  \/ Follow("process") /\ ServerNext /\ UNCHANGED <<vars, limiterVars, tenantVars>>
  \/ /\ Follow("tenants") /\ Next /\ UNCHANGED <<vars, limiterVars, serverVars>>
     /\ \A r \in Requests : key'[r] \in {asked, "none"}
     /\ asked # "key" => UNCHANGED apiKey
     /\ asked # "memberships" => UNCHANGED role

\* Fairness of the tenant cache, in the behaviours that follow it.
TenantFairness ==
  /\ WF_tenantVars(followed = "tenants" /\ Janitor)
  /\ WF_tenantVars(followed = "tenants" /\ Tick)
  /\ \A r \in Requests : WF_tenantVars(followed = "tenants" /\ (Query(r) \/ Set(r)))

MCSpec == MCInit /\ [][MCNext]_allVars /\ ServerFairness /\ TenantFairness
=============================================================================
