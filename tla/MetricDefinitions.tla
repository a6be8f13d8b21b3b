------------------------- MODULE MetricDefinitions -------------------------
(***************************************************************************)
(* The metric catalogs of one tenant: ApplyMetricDefinitions               *)
(* (internal/storage/metric_definitions.go), which makes a CLI's catalog   *)
(* exactly its file, run by concurrent `argvio metric apply` commands and  *)
(* PUT /v1/metric-definitions requests, on files catalog.Parse             *)
(* (internal/catalog/catalog.go) accepts.                                  *)
(*                                                                         *)
(* Each statement is one step and sees the committed table and the writes  *)
(* of its own transaction, which others see at its commit.                 *)
(***************************************************************************)
EXTENDS Integers

CONSTANTS
  Appliers,    \* concurrent commands and requests
  Services,    \* the tenant's CLIs
  Names,       \* metric names
  Specs,       \* definitions of a metric, as stored
  Meaning,     \* of a spec: kind, dims, sound (no fault of its own) and, for a
               \* ratio, operands: the metrics it divides, each with where and agg
  Files,       \* files: service and metrics, a function name -> spec
  MaxApplies,  \* bound: applies over all appliers
  NoApplier, NoFile

ASSUME CatalogAssumption ==
  /\ Files \subseteq [service : Services, metrics : UNION {[N -> Specs] : N \in SUBSET Names}]
  /\ DOMAIN Meaning = Specs
  /\ \A d \in Specs : Meaning[d].kind \in {"counter", "duration", "value", "ratio"}
  /\ MaxApplies \in Nat
  /\ NoApplier \notin Appliers /\ NoFile \notin Files

VARIABLES
  definitions,  \* the table: <<service, name>> -> spec, current, by
  lock,         \* per service, holder of 'metric definitions:<tenant>:<service>'
  apc, file,    \* where each applier is, and what it applies
  todo,         \* the names it has still to upsert
  wrote,        \* the rows its transaction has written
  number,       \* its place in the order of applies: what updated_at, updated_by tell
  applies,      \* applies begun
  applied       \* history: per service the metrics of the file last committed

local == <<apc, file, todo, wrote, number>>
defVars == <<definitions, lock, local, applies, applied>>

NoRows == [k \in {} |-> NoFile]

DefInit ==
  /\ definitions = NoRows
  /\ lock = [s \in Services |-> NoApplier]
  /\ apc = [a \in Appliers |-> "idle"]
  /\ file = [a \in Appliers |-> NoFile]
  /\ todo = [a \in Appliers |-> {}]
  /\ wrote = [a \in Appliers |-> NoRows]
  /\ number = [a \in Appliers |-> 0]
  /\ applies = 0
  /\ applied = [s \in Services |-> NoRows]

\* new's rows replace old's.
Over(new, old) == [k \in DOMAIN new \cup DOMAIN old |->
                     IF k \in DOMAIN new THEN new[k] ELSE old[k]]

\* What the transaction of a sees.
Seen(a) == Over(wrote[a], definitions)

\* The CLI's current metrics in a table.
Current(table, s) ==
  LET N == {n \in Names : <<s, n>> \in DOMAIN table /\ table[<<s, n>>].current}
  IN  [n \in N |-> table[<<s, n>>].spec]

\* A row lock: another transaction has written the row.
Written(a, k) == \E b \in Appliers \ {a} : k \in DOMAIN wrote[b]

\* An operand is on a metric of the file that is no ratio, filters on its
\* dims only, and sets agg on a value only.
OperandResolves(metrics, o) ==
  /\ o.metric \in DOMAIN metrics
  /\ LET ref == Meaning[metrics[o.metric]]
     IN  /\ ref.kind # "ratio"
         /\ o.where \subseteq ref.dims
         /\ o.agg => ref.kind = "value"

Resolves(metrics) ==
  \A n \in DOMAIN metrics : Meaning[metrics[n]].kind = "ratio" =>
    \A o \in Meaning[metrics[n]].operands : OperandResolves(metrics, o)

\* What problems finds fault with, whatever the rest of the file.
HasProblems(d) == ~ Meaning[d].sound

\* Mutant of ValidFile: each definition is checked on its own only.
ValidFileAlone(f) == \A n \in DOMAIN f.metrics : ~ HasProblems(f.metrics[n])

\* Validate, for a whole file.
ValidFile(f) ==
  /\ \A n \in DOMAIN f.metrics : ~ HasProblems(f.metrics[n])
  /\ Resolves(f.metrics)

\* handlePutMetricDefinitions or the command has parsed and validated f; a
\* file that is not valid is answered with its problems.
Begin(a, f) ==
  /\ apc[a] = "idle" /\ applies < MaxApplies /\ ValidFile(f)
  /\ apc' = [apc EXCEPT ![a] = "lock"]
  /\ file' = [file EXCEPT ![a] = f]
  /\ number' = [number EXCEPT ![a] = applies + 1]
  /\ applies' = applies + 1
  /\ UNCHANGED <<definitions, lock, todo, wrote, applied>>

\* Mutant of Lock: no advisory lock.
LockSkipped(a) ==
  /\ apc[a] = "lock"
  /\ lock' = [lock EXCEPT ![file[a].service] = a]
  /\ todo' = [todo EXCEPT ![a] = DOMAIN file[a].metrics]
  /\ apc' = [apc EXCEPT ![a] = "upsert"]
  /\ UNCHANGED <<definitions, file, wrote, number, applies, applied>>

Lock(a) ==
  /\ apc[a] = "lock" /\ lock[file[a].service] = NoApplier
  /\ lock' = [lock EXCEPT ![file[a].service] = a]
  /\ todo' = [todo EXCEPT ![a] = DOMAIN file[a].metrics]
  /\ apc' = [apc EXCEPT ![a] = "upsert"]
  /\ UNCHANGED <<definitions, file, wrote, number, applies, applied>>

\* The row is missing, or its spec differs, or it is deprecated.
Differs(a, k, spec) ==
  k \in DOMAIN Seen(a) => Seen(a)[k].spec # spec \/ ~ Seen(a)[k].current

\* INSERT ... ON CONFLICT DO UPDATE ... WHERE, for one definition.
Upsert(a, n) ==
  LET k == <<file[a].service, n>>
      spec == file[a].metrics[n]
  IN  /\ apc[a] = "upsert" /\ n \in todo[a] /\ ~ Written(a, k)
      /\ wrote' = [wrote EXCEPT ![a] =
           IF Differs(a, k, spec)
             THEN Over([i \in {k} |-> [spec |-> spec, current |-> TRUE, by |-> number[a]]], @)
             ELSE @]
      /\ todo' = [todo EXCEPT ![a] = @ \ {n}]
      /\ UNCHANGED <<definitions, lock, apc, file, number, applies, applied>>

\* The current rows of the service that the file no longer has.
Left(a) == {k \in DOMAIN Seen(a) :
  k[1] = file[a].service /\ k[2] \notin DOMAIN file[a].metrics /\ Seen(a)[k].current}

\* UPDATE ... SET deprecated_at.
Deprecate(a) ==
  /\ apc[a] = "upsert" /\ todo[a] = {} /\ \A k \in Left(a) : ~ Written(a, k)
  /\ wrote' = [wrote EXCEPT ![a] = Over(
       [k \in Left(a) |-> [spec |-> Seen(a)[k].spec, current |-> FALSE, by |-> number[a]]], @)]
  /\ apc' = [apc EXCEPT ![a] = "commit"]
  /\ UNCHANGED <<definitions, lock, file, todo, number, applies, applied>>

End(a) ==
  /\ lock' = [s \in Services |-> IF lock[s] = a THEN NoApplier ELSE lock[s]]
  /\ apc' = [apc EXCEPT ![a] = "idle"]
  /\ file' = [file EXCEPT ![a] = NoFile]
  /\ todo' = [todo EXCEPT ![a] = {}]
  /\ wrote' = [wrote EXCEPT ![a] = NoRows]
  /\ number' = [number EXCEPT ![a] = 0]

Commit(a) ==
  /\ apc[a] = "commit"
  /\ definitions' = Seen(a)
  /\ applied' = [applied EXCEPT ![file[a].service] = file[a].metrics]
  /\ End(a)
  /\ UNCHANGED applies

\* A statement fails, the query timeout ends the request, or the process
\* stops: the transaction rolls back.
Fail(a) ==
  /\ apc[a] # "idle"
  /\ End(a)
  /\ UNCHANGED <<definitions, applies, applied>>

DefNext == \E a \in Appliers :
  \/ \E f \in Files : Begin(a, f)
  \/ Lock(a) \/ Deprecate(a) \/ Commit(a) \/ Fail(a)
  \/ \E n \in Names : Upsert(a, n)

DefSpec == DefInit /\ [][DefNext]_defVars
-----------------------------------------------------------------------------
(* Properties.                                                             *)

Rows == [spec : Specs, current : BOOLEAN, by : Nat]

IsTable(t) == DOMAIN t \subseteq Services \X Names /\ t \in [DOMAIN t -> Rows]

TypeOK ==
  /\ IsTable(definitions)
  /\ lock \in [Services -> Appliers \cup {NoApplier}]
  /\ apc \in [Appliers -> {"idle", "lock", "upsert", "commit"}]
  /\ file \in [Appliers -> Files \cup {NoFile}]
  /\ \A a \in Appliers : apc[a] # "idle" => file[a] \in Files
  /\ todo \in [Appliers -> SUBSET Names]
  /\ DOMAIN wrote = Appliers /\ \A a \in Appliers : IsTable(wrote[a])
  /\ number \in [Appliers -> Nat] /\ applies \in Nat
  /\ DOMAIN applied = Services

\* "the CLI's catalog becomes exactly that file": a service's current metrics
\* are those of the file committed last, whatever other applies, of the same
\* or of another service, run or fail at the same time.
CatalogIsLastFile == \A s \in Services : Current(definitions, s) = applied[s]

\* "Ratio operands may only point at non-ratio metrics of the same file": so
\* do those of the stored catalog, which is written one metric at a time and
\* keeps the rows that other files left.
RatiosResolve == \A s \in Services : Resolves(Current(definitions, s))
=============================================================================
