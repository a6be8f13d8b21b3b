------------------------------- MODULE Ingest -------------------------------
(***************************************************************************)
(* The exports of one tenant's clients through `argvio serve public`: the  *)
(* handlers of internal/otlp/http.go and grpc.go, core.authenticate, and   *)
(* ProcessMetrics, ProcessLogs and ProcessTraces, beside changes of the    *)
(* tenant's configuration, of its metric catalog and of the allowlist file *)
(* (allowlist.Loader).  Each goroutine of the server handles one export at *)
(* a time; a client sends its batch again when the answer invites it to.   *)
(*                                                                         *)
(* What the caps decide is in ErrorReasons and Vocabulary; here a cap may  *)
(* fold any row it looks at.  COPY (storage/write.go) stores all rows of a *)
(* batch or, with an error, none.                                          *)
(***************************************************************************)
EXTENDS Consent, Sequences

CONSTANTS
  Clients,
  Batches,     \* what a client may send: [signal, records]
  Files,       \* contents of the allowlist file, valid or not
  Configs,     \* tenant configurations
  Catalogs,    \* metric catalogs
  Reason,      \* cli.error.reason
  MaxBatch,    \* max_batch_size
  MaxSends,    \* bound: sends per client
  MaxChanges   \* bound: changes of schema, configuration and catalog

Signals == {"metrics", "logs", "traces"}

\* What every client sends, whatever it is.
ASSUME BatchAssumption ==
  \A b \in Batches :
    /\ b.signal \in Signals
    /\ DOMAIN b.records = 1..Len(b.records) /\ Len(b.records) \in Nat
    /\ \A i \in DOMAIN b.records :
         /\ b.records[i].body \in BOOLEAN
         /\ DOMAIN b.records[i].resource.attrs \subseteq Keys
         /\ DOMAIN b.records[i].record.attrs \subseteq Keys

\* A definition's tier is one of the tiers, or not set.
ASSUME DefinitionAssumption ==
  \A g \in Catalogs : \A n \in DOMAIN g : g[n].min \in Tiers \cup {None}

VARIABLES
  schema,      \* Loader.current
  config,      \* what Authenticate resolves for the tenant
  catalog,     \* what loadCatalog finds
  changes,     \* bound counter
  batch,       \* the client's batch
  sends,       \* how often it was sent
  pc,          \* where the export is
  pipe,        \* the Pipeline of this export, with the caps still to come
  rows,        \* rows built so far, each with the index of its record
  rejected,    \* records rejected so far
  answer,      \* the last answer
  stored       \* all rows stored for the client
vars == <<schema, config, catalog, changes, batch, sends, pc, pipe, rows, rejected, answer, stored>>

\* The schemas that can be loaded (Parse).
Schemas == {f \in Files : finalize(f)}

Server == <<schema, config, catalog, changes>>

Records(c) == batch[c].records

\* The caps a signal's rows go through, in order.
Caps(signal) == CASE signal = "metrics" -> <<"reasons", "cli.counter", "cli.measure", "cli.value">>
                  [] signal = "logs" -> <<"reasons">>
                  [] OTHER -> <<>>

NoAnswer == [status |-> "none"]

IngestInit ==
  /\ schema \in Schemas /\ config \in Configs /\ catalog \in Catalogs
  /\ changes = 0
  /\ batch \in [Clients -> Batches]
  /\ sends = [c \in Clients |-> 0]
  /\ pc = [c \in Clients |-> "idle"]
  /\ pipe = [c \in Clients |-> None]
  /\ rows = [c \in Clients |-> <<>>]
  /\ rejected = [c \in Clients |-> 0]
  /\ answer = [c \in Clients |-> NoAnswer]
  /\ stored = [c \in Clients |-> <<>>]

\* The file changes and the loader reads it (Watch, reload): a valid schema is
\* swapped in, an invalid one leaves the schema as it is.
Reload ==
  /\ changes < MaxChanges /\ changes' = changes + 1
  /\ \E f \in Files : schema' = IF finalize(f) THEN f ELSE schema
  /\ UNCHANGED <<config, catalog, batch, sends, pc, pipe, rows, rejected, answer, stored>>

\* argvio tenant config, once the tenant cache shows it.
Configure ==
  /\ changes < MaxChanges /\ changes' = changes + 1
  /\ config' \in Configs \ {config}
  /\ UNCHANGED <<schema, catalog, batch, sends, pc, pipe, rows, rejected, answer, stored>>

\* A new metric catalog, once the catalog cache shows it.
Declare ==
  /\ changes < MaxChanges /\ changes' = changes + 1
  /\ catalog' \in Catalogs \ {catalog}
  /\ UNCHANGED <<schema, config, batch, sends, pc, pipe, rows, rejected, answer, stored>>

\* The client sends its batch, again when the last answer was an error.
Send(c) ==
  /\ pc[c] = "idle" /\ sends[c] < MaxSends
  /\ answer[c].status \in {"none", "error"}
  /\ sends' = [sends EXCEPT ![c] = @ + 1]
  /\ pc' = [pc EXCEPT ![c] = "authenticate"]
  /\ answer' = [answer EXCEPT ![c] = NoAnswer]
  /\ UNCHANGED <<Server, batch, pipe, rows, rejected, stored>>

\* The end of an export: the pipeline is garbage, the client has its answer.
Ends(c, a) ==
  /\ pc' = [pc EXCEPT ![c] = "idle"]
  /\ answer' = [answer EXCEPT ![c] = a]
  /\ pipe' = [pipe EXCEPT ![c] = None]
  /\ rows' = [rows EXCEPT ![c] = <<>>]
  /\ rejected' = [rejected EXCEPT ![c] = 0]
  /\ UNCHANGED <<Server, batch, sends>>

\* An error ends the export with nothing stored.
Fails(c) == Ends(c, [status |-> "error"]) /\ UNCHANGED stored

\* authenticate, readBody or the unmarshaller refuse the request: "refused"
\* for good (400, 401, 403, 413, 415), or "error" to be sent again (429, 503).
Refuse(c) ==
  /\ pc[c] = "authenticate"
  /\ \E status \in {"refused", "error"} : Ends(c, [status |-> status])
  /\ UNCHANGED stored

\* authenticate and newPipeline: the schema and configuration of this moment.
newPipeline(c) ==
  /\ pc[c] = "authenticate"
  /\ Len(Records(c)) <= MaxBatch
  /\ pipe' = [pipe EXCEPT ![c] = [schema |-> schema, config |-> config, catalog |-> None,
                                caps |-> Caps(batch[c].signal)]]
  /\ pc' = [pc EXCEPT ![c] = IF batch[c].signal = "metrics" THEN "catalog" ELSE "records"]
  /\ UNCHANGED <<Server, batch, sends, rows, rejected, answer, stored>>

\* ErrBatchTooLarge.
TooLarge(c) ==
  /\ pc[c] = "authenticate"
  /\ Len(Records(c)) > MaxBatch
  /\ Ends(c, [status |-> "refused"]) /\ UNCHANGED stored

\* loadCatalog.
loadCatalog(c) ==
  /\ pc[c] = "catalog"
  /\ \/ /\ pipe' = [pipe EXCEPT ![c].catalog = catalog]
        /\ pc' = [pc EXCEPT ![c] = "records"]
        /\ UNCHANGED <<Server, batch, sends, rows, rejected, answer, stored>>
     \/ Fails(c)

\* The record that comes next; none is skipped.
Current(c) == Len(rows[c]) + rejected[c] + 1

\* What the pipeline makes of a record of the signal under a configuration.
Judge(c, cfg, r) ==
  CASE batch[c].signal = "metrics" -> ProcessMetrics(pipe[c].schema, cfg, pipe[c].catalog, r)
    [] batch[c].signal = "logs" -> ProcessLogs(pipe[c].schema, cfg, r)
    [] OTHER -> ProcessTraces(pipe[c].schema, cfg, r)

\* Mutant of Judged: the tenant's configuration is read again.
JudgedNow(c) == Judge(c, config, Records(c)[Current(c)])

\* Its verdict on the next record.
Judged(c) == Judge(c, pipe[c].config, Records(c)[Current(c)])

\* The loop body of ProcessMetrics, ProcessLogs and ProcessTraces.
Process(c) ==
  /\ pc[c] = "records" /\ Current(c) <= Len(Records(c))
  /\ IF Judged(c).ok
       THEN /\ rows' = [rows EXCEPT ![c] = Append(@, [of |-> Current(c), row |-> Judged(c), fold |-> {}])]
            /\ UNCHANGED rejected
       ELSE rejected' = [rejected EXCEPT ![c] = @ + 1] /\ UNCHANGED rows
  /\ UNCHANGED <<Server, batch, sends, pc, pipe, answer, stored>>

\* All records are processed; if rows are left they are capped and stored.
Processed(c) ==
  /\ pc[c] = "records" /\ Current(c) > Len(Records(c))

\* The rows a cap looks at.
Concerns(c, cap, i) ==
  IF cap = "reasons" THEN Reason \in rows[c][i].row.attrs
  ELSE Records(c)[rows[c][i].of].event = cap

\* What a cap may make of a row: its reason, its name (and then its label
\* is gone) or its label becomes "other".
Capping(cap, x) ==
  {x} \cup IF cap = "reasons" THEN {[x EXCEPT !.fold = @ \cup {"reason"}]}
           ELSE {[x EXCEPT !.fold = @ \cup {"name"}, !.row.dims = {}]}
                \cup {[y EXCEPT !.fold = @ \cup {"label"}, !.row.dims = {}] :
                        y \in {z \in {x} : z.row.dims # {}}}

\* capErrorReasons, capCounters, capMeasures or capValues.
Cap(c) ==
  /\ Processed(c) /\ rows[c] # <<>> /\ pipe[c].caps # <<>>
  /\ LET cap == Head(pipe[c].caps)
         concerned == {i \in DOMAIN rows[c] : Concerns(c, cap, i)}
     IN  \/ /\ \E f \in [concerned -> UNION {Capping(cap, rows[c][i]) : i \in concerned}] :
                 /\ \A i \in concerned : f[i] \in Capping(cap, rows[c][i])
                 /\ rows' = [rows EXCEPT ![c] = [i \in DOMAIN @ |-> IF i \in concerned THEN f[i] ELSE @[i]]]
            /\ pipe' = [pipe EXCEPT ![c].caps = Tail(@)]
            /\ UNCHANGED <<Server, batch, sends, pc, rejected, answer, stored>>
         \/ concerned # {} /\ Fails(c)

\* The answer to an export that did not fail.
Success(c) == [status |-> "ok", rejected |-> rejected[c]]

\* Nothing is left to store.
NoRows(c) ==
  /\ Processed(c) /\ rows[c] = <<>>
  /\ Ends(c, Success(c)) /\ UNCHANGED stored

\* InsertMetrics, InsertLogs or InsertTraces.
Insert(c) ==
  /\ Processed(c) /\ rows[c] # <<>> /\ pipe[c].caps = <<>>
  /\ \/ /\ stored' = [stored EXCEPT ![c] = @ \o rows[c]]
        /\ IF batch[c].signal = "logs"
             THEN /\ pc' = [pc EXCEPT ![c] = "track"]
                  /\ UNCHANGED <<Server, batch, sends, pipe, rows, rejected, answer>>
             ELSE Ends(c, Success(c))
     \/ Fails(c)

\* Mutant of Track: an error of trackInstalls is returned.
TrackOrFail(c) ==
  /\ pc[c] = "track"
  /\ Ends(c, Success(c)) \/ Ends(c, [status |-> "error"])
  /\ UNCHANGED stored

\* trackInstalls and trackDiscoveries (Installs), which fail soft.
Track(c) ==
  /\ pc[c] = "track"
  /\ Ends(c, Success(c)) /\ UNCHANGED stored

Export(c) ==
  \/ Send(c) \/ Refuse(c) \/ newPipeline(c) \/ TooLarge(c) \/ loadCatalog(c)
  \/ Process(c) \/ Cap(c) \/ NoRows(c) \/ Insert(c) \/ Track(c)

IngestNext == Reload \/ Configure \/ Declare \/ \E c \in Clients : Export(c)

IngestSpec == IngestInit /\ [][IngestNext]_vars

-----------------------------------------------------------------------------
\* Types; an export has a pipeline of its own while it is processed
\* (newPipeline), and its counts never exceed its batch.
IngestTypeOK ==
  /\ schema \in Schemas /\ config \in Configs /\ catalog \in Catalogs
  /\ changes \in 0..MaxChanges
  /\ batch \in [Clients -> Batches]
  /\ sends \in [Clients -> 0..MaxSends]
  /\ pc \in [Clients -> {"idle", "authenticate", "catalog", "records", "track"}]
  /\ \A c \in Clients :
       /\ pc[c] \in {"idle", "authenticate"} <=> pipe[c] = None
       /\ answer[c].status \in {"none", "refused", "error", "ok"}
       /\ rejected[c] + Len(rows[c]) \in 0..Len(Records(c))

\* Every record of a batch is accounted for: once an export is answered with
\* success, each record was stored or is in the rejected count of the
\* answer, and an export answered with an error stored nothing, so that the
\* client that sends it again duplicates nothing (trackInstalls' comment).
Accounted ==
  \A c \in Clients :
    /\ answer[c].status = "ok" =>
         /\ Len(stored[c]) + answer[c].rejected = Len(Records(c))
         /\ \A i, j \in DOMAIN stored[c] : stored[c][i].of = stored[c][j].of => i = j
    /\ answer[c].status \in {"error", "refused"} => stored[c] = <<>>

\* The tier a row may not exceed, by the record's own word.
Declared(r) == IF r.record.tier = None THEN r.resource.tier ELSE r.record.tier

\* Whether schema s lets a row of the event and tier hold the attribute.
Permits(s, event, tier, k) ==
  IF k \in s.events[event].allowed THEN s.min[k] <= tier ELSE k \in s.standard

\* What consent allows a row to hold, under the pipeline p of its export.
Consented(p, r, x) ==
  /\ x.tier <= p.config.ceiling /\ x.tier <= Declared(r)
  /\ p.config.mode = "reject" => x.tier = Declared(r)
  /\ \A k \in x.attrs \cup (x.dims \ {LabelDim}) : Permits(p.schema, r.event, x.tier, k)
  /\ LabelDim \in x.dims => \E k \in {Label, LabelDim} : Permits(p.schema, r.event, x.tier, k)
  /\ x.body => x.tier >= Full /\ ~ p.schema.events[r.event].dropBody

NewRows(c) == {stored'[c][i] : i \in (DOMAIN stored'[c]) \ (DOMAIN stored[c])}

NewConsented ==
  \A c \in Clients : \A x \in NewRows(c) : Consented(pipe[c], Records(c)[x.of], x.row)

\* Whatever is stored respects the consent of the record and the ceiling of
\* the tenant: no attribute, dimension or label above the row's tier, no tier above the declared
\* one or the ceiling that authentication resolved, no body below "full",
\* however often schema and configuration change during the export
\* (EvaluateEvent, buildLogRow).
StoresOnlyConsented == [][NewConsented]_vars

Sent(r) == DOMAIN r.resource.attrs \cup DOMAIN r.record.attrs

\* The row's point has a rule in the catalog of the CLI whose name it keeps.
Ruled(p, r, x) == Service \in x.row.attrs /\ r.name \in DOMAIN p.catalog

\* What the pipeline's catalog p says of the row of a point.
Obeys(p, r, x) ==
  LET declared == IF Ruled(p, r, x) THEN p.catalog[r.name].dims ELSE Dims
  IN  r.event \in Vendor =>
        /\ x.fold \cap {"name", "label"} = {} =>
             /\ Sent(r) \cap declared \cap Dims \subseteq x.row.dims
             /\ x.row.dims \subseteq declared \cup {LabelDim}
        /\ p.config.strict =>
             /\ Ruled(p, r, x)
             /\ p.catalog[r.name].kind = r.event
             /\ p.catalog[r.name].min = None \/ p.catalog[r.name].min <= x.row.tier

NewObeys ==
  \A c \in Clients : batch[c].signal = "metrics" =>
    \A x \in NewRows(c) : Obeys(pipe[c], Records(c)[x.of], x)

\* A stored vendor point has every dimension it was sent with that its
\* definition declares: a point that lost one would merge into another
\* series (foldDims' comment).  Only a cap takes dimensions away.  With
\* strict_metrics it is one that the tenant's catalog declares, of the kind and
\* from the tier it declares (checkCatalog).
DeclarationsObeyed == [][NewObeys]_vars
=============================================================================
