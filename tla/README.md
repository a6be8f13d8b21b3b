# Formal model of argvio

TLA+ modules that model the stateful parts of argvio, TLC configurations that
check them on small instances, and TLAPS proofs of the results that matter
most. `PROJECT.json` lists every component, run, mutant, mapped definition,
finding, hazard and theorem; this file explains them.

## The system

argvio receives OpenTelemetry data from command-line tools and serves
statistics about them.

- `argvio serve public` takes OTLP exports over HTTP and gRPC
  (`internal/otlp`). An export is authenticated (`internal/authn`), its tenant
  is resolved through a cache (`internal/tenant`), each record is cut to what
  its consent tier and the allowlist permit (`internal/consent`,
  `internal/allowlist`), checked against the CLI's metric catalog, folded
  into capped vocabularies, and written with COPY (`internal/storage`).
  After logs are stored, installs and discoveries are tracked. A rate limiter
  (`internal/ratelimit`) stands before the pipeline, the allowlist's file is
  watched, and a signal drains both listeners.
- `argvio serve metrics` answers queries (`internal/metricsapi`), and accepts
  two writes: a CLI's metric catalog and a saved dashboard layout. Its callers
  hold API keys, JWTs or OIDC tokens (`internal/oidc`).
- The operator CLI (`internal/cli`) creates tenants, keys and memberships,
  changes configurations, applies catalogs, replays installs and sweeps
  expired rows.

Any number of these processes share one Postgres database at READ COMMITTED.
Nothing else connects them: caches are never told of a change. The hard parts
are therefore transactions that interleave statement by statement, caches that
answer what no longer holds, configuration that changes while an export is
under way, sweeps that run beside writers, providers that fail, and queries
over events that arrive late, out of order, and are rolled up and pruned in
the meantime.

## Modules

The state of each module is the database tables it concerns, the in-memory
state of the processes, and one program counter per goroutine, request or
command. Data is abstract: a name, a token or an attribute is a model value or
a rank; a time is a clock tick. A step is a single SQL statement, a single
call to a provider, or a section under one mutex. Uncommitted writes are kept
apart until the commit.

| Module | Models | Actions and state |
|---|---|---|
| `VocabularyPlan` | `planVocabulary` and the statements every capped vocabulary uses | operators on tables `value -> last_seen` |
| `CappedSet` | what a capped vocabulary promises | abstract specification |
| `ErrorReasons` | `AdmitErrorReasons`, `capReasons`, retention sweep | `Begin` read, touch, lock, reread, plan, commit, insert; `Fail` anywhere; `Sweep` |
| `Vocabulary` | the same with names and labels, for counters, measures and values (`admit`, `capVendorInstrument`) | as above, on two tables |
| `BoundedStaleness` | what a TTL cache promises: an answer held less than a bound ago | abstract specification |
| `TenantCache` | `tenant.Cache` before `tenant.Store`, and the operator commands | `Hit`, `Miss`, `Query`, `Set`, `Janitor`; `AddMember` in its two statements |
| `MetricDefinitions` | `catalog.Validate` and `ApplyMetricDefinitions` | `Begin`, `Lock`, `Upsert`, `Deprecate`, `Commit`, `Fail` |
| `DashboardCards` | `PUT /v1/dashboard/cards` and `ReplaceDashboardCards` | `Validate`, `DeleteBegin`, `DeleteEnd`, `Insert`, commit, duplicate key, failure |
| `CatalogCache` | `catalogCache.rules` of an ingest process | `Hit`, `Miss`, `Load`, `Store` |
| `Catalogs` | the three above together | one of the two readers beside the appliers |
| `Installs` | `TrackInstalls`, `TrackDiscoveries`, backfill, sweep | row locks, `planInstall`, `ON CONFLICT` merging, statement-wise sweep |
| `Access` | `AuthenticateForTenant`, tenant selection, routes and roles of both servers | one request, one lookup or provider call per step |
| `Provider` | calls to an OIDC provider through singleflight | shared calls, outages |
| `Jwks`, `Introspection` | JWT verification with cached keys; opaque tokens with cached verdicts | `lookupKey`'s branches; `Introspect`, eviction |
| `Verifier` | both, with the provider and the clock | |
| `Consent` | one record's way to a row: `extractAttrs`, `ResolveTier`, `EvaluateEvent`, `checkCatalog`, `foldDims` | operators only |
| `RateLimiter` | `ratelimit.Limiter` with its token buckets | `BucketFor`, `AllowRequest`, `AllowBytes` under their mutexes; `SecondPasses`, `Override`: changes of a tenant's limits |
| `PublicServer` | `runPublic` and `allowlist.Loader` | `Load`, the watch and its events, saves in place and renames, exports over both listeners, signal and drain |
| `Journeys` | sessions, retries, retention and error fingerprints over raw logs | the table fills in any order and is pruned; each query is an operator with the statement's window functions |
| `Rollups` | the hourly and daily aggregates behind the command statistics | ingest with its skew into the past and the future, refresh policies, retention of spans and buckets, hour by hour |
| `CommandStats` | command statistics, exit codes and unknown commands over those | each query is an operator on the views |
| `VendorSeries` | series, labels, groups and percentiles of vendor metrics | one action per SQL statement of an answer, data points in between |
| `Ratios` | ratio metrics: two operands' series and totals | the statements of both sides, in the same way |
| `Ingest` | an export from the request to its answer, with reloads of the allowlist and changes of configuration and catalog | `newPipeline` takes one snapshot of configuration and schema; `Process` one record per step |

The modules `MC...` instantiate the others: `MCAuth` has `Access` and `Verifier`,
`MCTables` has `Installs` and `ErrorReasons`, `MCCatalogs` has `Catalogs`, `MCIngest`
has `Ingest`, `RateLimiter`, `PublicServer` and `TenantCache`, and `MCStorage` has
`Vocabulary`, `Journeys`, `CommandStats` and `Ratios`. The modules named `...Proofs`
hold the theorems (see Proofs below): `RequestProofs` about `Ingest` and `Access`,
`ServeProofs` about `TenantCache`, `RateLimiter`, `PublicServer` and `Rollups`,
`CatalogProofs` about the three modules of `Catalogs`, the others about the module
they are named after. A definition whose comment begins "Mutant of" is a plausible mistake
in the definition after it; no specification uses it.

How the pieces fit: `Ingest` treats the outcome of authentication, of the caps
and of install tracking as a choice, and `Access`, `ErrorReasons`,
`Vocabulary` and `Installs` say which choices there are. `Access` treats a
lookup as the truth at that moment and a verifier's verdict as given;
`TenantCache` and `Verifier` say how old either can be.

All of them but `MCCatalogs` put several components into one run. These share no
state, so a behaviour follows one of them, chosen by the variable `followed` in
the initial state, and the others stand still; the run then has the sum of
their states instead of the product.

## Runs

Passing runs (state counts are of distinct states):

- **auth** (1,922,000), two parts:
  - *requests*: two tenants, both servers, six configurations of verifiers, the
    credentials and routes the code tells apart, one operator change or outage
    anywhere in the request. A request reaches only a tenant its identity owned
    meanwhile (`TenantIsOwned`); an outage never becomes a 401
    (`OutageIsNot401`); nobody is an administrator, a writer or within a scope
    without having been verified as such (`RightsAreVerified`).
  - *verifiers*: two requests, two keys, two opaque tokens, rotation, revocation
    and outage. Verdicts are at most a TTL and a call old
    (`RefinesBoundedStaleness`); the introspection cache keeps to its size and
    serves no token past its expiry (`CacheKeepsItsLimits`); an outage refuses no
    token whose key is cached (`OutageServesCached`).
- **tables** (961,000), two parts:
  - *reasons*: two exports, three reasons, limits of 1 and 2 that differ between
    processes, sweeps, failures at each statement. The table refines
    `CappedSet`, so it stays within the largest limit; `last_seen` trails real use
    by at most the touch interval and one export; nothing is stored under a
    reason never listed, and the overflow counter equals the folded records
    (`FoldingAccounted`).
  - *installs*: two exports, a backfill and a sweep over two installs, batches
    out of time order, a version that does not parse. Each row, and each
    discovery, summarises exactly the events folded into it (`RowSummarises`);
    version changes really happened; the batches cannot deadlock; a backfill
    makes up for what failed exports left out.
- **storage** (88,000), seven parts:
  - *names*: two exports admit names and labels with caps of 1 beside sweeps
    and failures. Both caps hold and refine `CappedSet`, what is folded is
    accounted for, and every admission ends.
  - *runs*: up to four runs, of two commands and of unnamed ones, in any order of
    arrival, with ties, gaps at exactly the limit, and pruning. Two events share
    a session exactly if the install was never silent for longer than the gap
    between them (`SessionsByGap`); what Retries answers follows from the runs without
    window functions (`RetriesFollowTheRuns`).
  - *starts*: over all its pages, the retention grid holds each install first
    seen in the periods of the range once, in the cohort of its first session
    ever, and each period once, for ranges that begin on and within a period
    (`GridCountsEachOnce`).
  - *errors*: what is shown of errors was sent at a tier the ceiling allows
    now, however it changed; pages show each cause once (`DetailWithinCeiling`).
  - *hours*: spans arrive late and early within the skew, the refresh jobs run up
    to two hours behind, spans and hourly buckets expire. A span once counted stays
    counted (`CountedForGood`), every accepted span comes to be counted
    (`EventuallyCounted`), and then hours, days and weeks tell the same numbers,
    page by page, and agree with the exit codes and with the unknown commands
    next to the invocations (`GranularitiesAgree`).
  - *vendor*: points arrive between the statements of an answer. Labels and
    groups add up to the series up to what arrived and what the limit cuts
    (`TotalsAgree`), and an estimated percentile is in the bucket of the value at
    its rank (`QuantileInItsBucket`).
  - *ratio*: points, sessions and invocations arrive between the statements of a
    ratio's sides. A share is never more than the whole, because the numerator is
    read first; a side's total is that of its series; active installs are counted
    once over all buckets (`RatiosAgree`).
- **catalog** (361,000): two concurrent applies and three saves, two CLIs,
  invalid files included. The catalog is the last committed file; the operands
  of its ratios are in it; a layout is all of one save, with cards on metrics
  the catalog knows (`LayoutIsWhole`); saves cannot deadlock; the ingest cache
  is at most a TTL old, since it stamps entries with the time the load began.
- **ingest** (323,000), four parts:
  - *pipeline*: batches of up to three records of every kind, sent again after
    an error, while the allowlist, the configuration and the catalog change
    twice; a file whose rules name a tier it does not declare is refused. Only what
    consent allows is stored; every record is stored or
    reported rejected, and an answer that invites a retry stored nothing; no
    declared dimension is lost and strict tenants store declared metrics only
    (`DeclarationsObeyed`).
  - *limiter*: two callers on two methods while the tenant's limits change. In
    any window of time a bucket grants no more than its burst and its rate over
    that time, in requests and in bytes (`LimitsHold`).
  - *process*: the allowlist's file is saved in place or renamed over, exports
    run on both listeners, a signal or a listener's failure comes at any moment.
    A valid schema saved in place under the watch comes to be served
    (`SavedSchemaIsServed`); a drain cuts off no gRPC call and no end leaves a
    write open (`DrainIsClean`); a signal ends the process (`SignalEnds`).
  - *cache*: two requests on each of the four lookups of the tenant cache, so that
    a late answer overwrites a newer one, beside the janitor and operator
    commands. Every answer is less than its TTL and one query old
    (`RefinesBoundedStaleness`); every expired entry goes or is replaced
    (`Evicted`).

The type invariants (`TypeOK` and its namesakes) are stated for the proofs and
for the reader. Those of `ErrorReasons`, `Vocabulary`, `TenantCache`,
`MetricDefinitions`, `RateLimiter` and `Access` are part of proved invariants; no run repeats them.

Runs that end in a violation, each of something the repository says:

- **vocabulary_orphan**: "a label goes with its name". The sweep takes no
  advisory lock; between an admission's read and its commit it can delete a
  name under which the admission then lists a label.
- **installs_sweep**: discoveries are "Kept as long as the install is". An
  install seen again between two statements of a sweep keeps its row and loses
  its discoveries.
- **verifier_outage**: an outage is "never a 401". An unknown kid is answered
  401 while the one refresh it may trigger is running, or after it failed,
  until the cooldown ends.
- **value_window**: a value's statistics are those "over the whole window".
  `ValueSeries` merges the buckets of the page it scans, so with more buckets
  than the limit (100 by default) the statistics leave the others out, and each
  page has its own.
- **schema_rename**: the watch "covers atomic-rename-based editors". A rename of
  a new file over the allowlist ends its watch, since inotify follows the old
  file; the events this gives are of kinds the loop skips, and the new schema is
  not served before a restart. `SavedSchemaIsServed` therefore speaks of saves
  in place.
- **retention_cohort**: the grid is "for cohorts starting within [from, to)".
  The statement truncates `from` to the period, so that a range which begins
  within one also has the cohort that started before it.
- **percentile_width**: an estimate "can't be off by more than the bucket's
  width". `min` and `max` are optional in a data point. If some report them and
  others do not, the clamp of `histQuantile` uses the extremes of the former for
  all. `QuantileInItsBucket` excludes the mixture.

Smaller observations, without a run of their own:

- `serve metrics` starts no janitor, which `cache.go` has so that
  long-running processes "don't grow the map unboundedly"; with `HasJanitor = FALSE`
  the property `Evicted` of `TenantCache` fails.
- A bucket of the limiter keeps the limits it was made with until the process
  ends; `LimitsHold` is about those. `docs/configuration.md` says of the
  overrides that "they change per-customer at runtime".
- `query_unknown.go` chooses attempts by their time and invocations by the start
  of their bucket, so the first bucket of an unaligned range may have one
  without the other; `GranularitiesAgree` speaks of whole weeks. Its comment says
  that a recent command "is not in the rollup yet", which was so before migration
  0024 made the aggregates real-time.
- A tenant whose own retention is shorter than the refresh window of a rollup
  (three days) loses counts that were already materialized: no code refuses
  such a retention, and migration 0004 says of rollups without a condition that
  "they survive after the raw rows they were built from are gone". The run's
  constants, and the theorem `CommandsCountedForGood`, have it as long.
- The comment of `histQuantile` lets the first bucket start "at the bound itself"
  when no smaller minimum is known; when the first bound is positive, the code
  starts it at 0.
- The statements of one answer see different moments: labels and groups may
  add up to more than the series.

### Bounds

Two actors are enough for every race here: each lock, row or cache entry is
contended by a pair, and the proofs remove the bound where they apply. Limits
of 1 and 2 with three values make the last slot contested and let processes
disagree. Clocks run one or two ticks past every TTL, so that each entry can be
fresh, expired and replaced. `MaxLookup`, `MaxLoad`, `MaxFetch` and `MaxSpan`
bound a query, a load, a call and an export, and the staleness that the caches
promise depends on them. Calls to a provider have a timeout of their own, and the
metrics server sets `statement_timeout`; the public server sets none, so there
`MaxLookup`, `MaxLoad` and `MaxSpan` are what the database and the exporters'
deadlines make of them. `MaxChanges`,
`MaxEdits`, `MaxSends`, `MaxApplies`, `MaxSaves`, `MaxRequests` and the like only make the
state space finite. Symmetry is used over interchangeable actors in runs
without liveness.

The queries are checked over tables of up to four rows (a chain of three
failures and a success, three installs in a cohort), two late spans over ten
hours with days of two hours and weeks of four, and three data points. Every
window of `Rollups` is in proportion to the migrations': the skew is shorter
than the hourly refresh window, that one is no longer than what a tenant keeps,
and the hourly buckets are kept as long as the daily refresh reaches back.

Deadlock checking is off where a system that has used up its bounds may
stop (`storage`, `catalog`, `ingest`). `auth` and `tables` have it, with a step
`Rest` for the part that may stop: the verifiers when the clock has reached its
bound, the installs always. The waits that matter are covered by
`SavesNeverDeadlock` and `BatchesNeverDeadlock`.

### Fairness

- `Vocabulary`: a goroutine that can run does run (weak fairness of its
  steps), and Postgres grants an advisory lock to its waiters in turn, so a
  writer to whom the lock is offered again and again gets it (strong fairness
  of `Lock`).
- `TenantCache`: the ticker fires and time passes (weak fairness); a started
  query ends.
- `Rollups`: TimescaleDB's scheduler runs both refresh jobs (weak fairness), and
  no later than `Lag` hours after their last run (a guard of the clock).
  Retention is not fair: it may be late for ever.
- `PublicServer`: goroutines run, handlers end and a begun save is finished
  (weak fairness). Neither signals, nor saves, nor exports, nor the failure of
  a listener is fair.

No other run assumes fairness.

## Proofs

All are checked by TLAPS without omissions, for every value of the constants
that the `ASSUME`s allow. Each theorem about a property of a run rests on an
inductive invariant, since none of the properties is inductive by itself; the
larger ones were checked with TLC on the runs' instances as well.

**The capped vocabularies.**

- `VocabularyPlanProofs`: `planVocabulary` never admits more than the free room
  (`PlanAddBound`) and leaves a value out only if the room is used up
  (`PlanAddFills`). The module also has the facts about sums over finite sets
  that the overflow counters need.
- `ErrorReasonsProofs`: `ReasonsCapped`, `ReasonsStoredWereListed`,
  `ErrorReasonsRefinesCappedSet`, `ReasonsLastSeenForward`,
  `ReasonsFoldOnlyWhenFull`. The commit relies on the plan having been made
  under the lock. The invariant adds that the lock is held exactly by the writer
  inside its transaction, that a plan still fits (only a sweep, which makes
  room, may have run since), and that what a writer believes listed was.
  `ReasonsLastSeenTracksUse` adds the times: an export's stamp is at most
  `MaxSpan` old, and what is about to be stored has been touched, or was recent
  enough not to need it, unless a sweep took it. `ReasonsFoldingAccounted`: the
  overflow counter is the records stored as "other", those lost after they were
  counted, and those of the batches now on their way from the commit to the
  INSERT. The last is a sum over the writers; a commit adds the term of its
  writer to it, and the end of an export moves that term to one of the other
  two. A batch that was only touched folds nothing, which the invariant says.
- `VocabularyProofs`: `NamesRefineCappedSet` and `VocabularyFoldingAccounted`, for
  the names and labels of counters, measures and values. `VocabularyInv`
  says of both tables what the invariant of the error reasons says of one: the
  planned names fit the name limit, and under each name, also one the same
  batch adds, the planned labels fit the label limit. Both levels count what
  they fold, so each writer has two terms in the sum over the pending batches.
  `VocabularyInvariance` is that this invariant holds.

**The public server.**

- `RequestProofs`, on exports: `ConsentKept`, that whatever changes during an
  export, it stores only what the record's declared tier and the ceiling resolved at its
  authentication allow, attribute by attribute. The lemmas take an accepted
  decision from `EvaluateEvent` through `checkCatalog`, `foldDims` and the
  caps, none of which adds anything; the invariant keeps every row of an
  export in progress consented under that export's own pipeline.
  `DeclarationsKept` is the action property that what a step stores obeys the
  declarations the export read. `AlwaysAccounted` keeps the books of each
  export: rows and rejected records together are the records seen so far, no
  record has two rows, and rows are stored only in the step before the answer.
- `ServeProofs`: `TenantCacheBoundedStaleness`, the refinement of
  `BoundedStaleness` by the tenant cache; the invariant follows an answer from
  the snapshot of its query (it held then, or ended later) to the expiry of its
  entry (at most `MaxLookup` and the TTL after its end). `LimitsAlwaysHold`,
  that in any window of time and for any limits, callers and changes of
  configuration a bucket grants at most its burst and its rate over the elapsed
  time; the invariant is a ledger that adds what the bucket still holds, which a
  grant moves from one side to the other and a second increases by the rate at
  most. `DrainAlwaysClean`, that the drain cuts off no gRPC call and no end
  leaves a write open, for any number of exports.
- `InstallsProofs`: `InstallsNeverDeadlock`, the claim in the comment of
  `TrackInstalls`, and `BackfillCoversAll`. The invariant `InstallsInv`
  (`InstallsInvariance`) says of the locks that what a transaction holds is below
  every install it has still to lock, or is the one it is about to write; so in
  any set of transactions the one that waits for the greatest install waits for
  none of the others. Of the backfill it says that each event it read is in a
  row, went with a swept row, is in the open transaction or in a chunk still to
  come; that an open transaction has written or will write a row for every
  install of its events; and that no chunk is empty, for any chunk size.

**The metrics server.**

- `CatalogProofs`: `CatalogExact`, that the current metrics are exactly the
  last committed file. The invariant says that an applier that writes holds
  its service's lock and writes rows of that service only, that what its loop
  has passed is as in the file, and that after the deprecating UPDATE nothing
  else is current. `RatiosAlwaysResolve` follows, with the invariant that
  only valid files get into an applier. `CatalogCacheBoundedStaleness` is the
  refinement of `BoundedStaleness` by the cache of an ingest process beside the
  appliers: an entry was the catalog at some moment no more than the TTL before
  it expires, because its time is that of the beginning of the load.
  `LayoutsAlwaysWhole` and `SavesAlwaysMove` are about any number of concurrent
  PUTs of a layout. There is no lock here, only row locks and the key
  `(service, position)`. The invariant says that a transaction has deleted all
  rows of its service that are there or none, that what it has inserted is its
  layout up to its position and starts only when no other row is left, so that
  at most one transaction of a service holds rows at a time; and that each
  snapshot a DELETE may still be working on is one whole layout.
- `RequestProofs`, on authentication: `TenantAlwaysOwned`, `OutageNever401` and
  `RightsAlwaysVerified`, about one request among any changes. The invariant
  says what is known of the identity at each place of the request: nobody before
  verification; once a tenant is chosen, why it is the caller's; once granted,
  that the route allows it; and where an outage may still be behind it.
- `ServeProofs`, on the rollups: `CommandsCountedForGood`, that a span the daily
  view counts is never lost again, holds under `PoliciesFit`:

      Lag < HourlyStart <= TracesKeep, TenantKeep
      Lag + Day <= DailyStart <= HourlyKeep

  The invariant: what the hourly job may compute again is still in the
  hypertable, what the daily job may compute again is still in the hourly view,
  and each watermark is within the lag of its job, so that pruning never takes
  what a view reads above it. `PoliciesFit` is a hypothesis of the theorem and
  no `ASSUME`: the migrations (3 and 30 days, 90 days of hourly buckets) and the
  default of `storage.traces.retention_after` (30 days) satisfy it, but settings
  may not. It is tight: with the constants of **storage** every bound that is
  exceeded by one hour gives a violation of `CountedForGood`. The skew is not in
  it; that is needed for `EventuallyCounted` only.
- `VerifierProofs`: `CacheAlwaysKeepsItsLimits`, `OutageAlwaysServesCached` and
  `VerifierBoundedStaleness`. The invariant follows a document of the provider
  from the moment it is read, through the shared call that reads it and the
  requests that wait for it, into the cache of keys or of verdicts: it was true
  after the call began, and the expiry of an entry is at most its TTL after the
  call ended. The three refinements of `BoundedStaleness` have the same shape:
  an answer true at a moment `t` either is true or ended at `t` or later, and no
  change of the truth can take that away.

What the theorems assume of the constants:

- Shapes: configurations and tokens of `Access` are of the records `authn`
  builds, and a key has a scope only if it is stored for a tenant
  (`AccessAssumption`); batches, definitions, layouts and files are what their
  parsers let through (`BatchAssumption`, `DefinitionAssumption`,
  `LayoutAssumption`, `CatalogAssumption`, `ConsentAssumption`).
- Numbers: limits, durations and clocks are natural numbers; the TTLs of the
  caches are not 0 (`CacheAssumption`, `IntrospectionAssumption`), as
  configuration validation requires or the constants in the code are.
- Sentinels are none of the values they stand apart from
  (`VerifierAssumption` and others).
- Finiteness: there are finitely many exports at a time (`WritersAssumption`,
  `VocabularyAssumption`, `TrackersAssumption`), since the accounts are sums over
  them and an order of waiting has a last one. Install ids are natural numbers,
  which stand for their order (`RecordsAssumption`).

Only model-checked:

- the liveness properties (`AdmissionEnds`, `Evicted`, `EventuallyCounted`,
  `SavedSchemaIsServed`, `SignalEnds`), which the prover does not treat;
- what a fold over a sequence of events computes: `RowSummarises` and
  `ChangesHappened` of `Installs`. They compare the result of folding batch after
  batch with one taken over all events at once, which is an induction over the
  sequence, and the prover has no usable rule for that. (The sums in
  `FoldingAccounted` are within reach because only one term changes at a time.)
- the queries of `Journeys`, `CommandStats`, `VendorSeries` and `Ratios` (`SessionsByGap`,
  `RetriesFollowTheRuns`, `GridCountsEachOnce`, `DetailWithinCeiling`,
  `GranularitiesAgree`, `TotalsAgree`, `QuantileInItsBucket`, `RatiosAgree`): each relates a fold or a window over a sorted table to
  another one, for the same reason.

## Not modelled

- The remaining queries (`query_installs.go`, `query_journey.go`,
  `query_discoveries.go`, `query_environment.go`, `query_footprint.go`,
  `query_coldwarm.go`, `query_reach.go`, `query_resources.go`,
  `query_services.go`, and in `query.go` the CI split, active installs and
  dimension lists): one GROUP BY over one table each. A model of one would
  repeat the statement, and a reference for it would be the same expression.
- The handlers of the metrics API: they parse parameters, call one query and
  encode the answer. Their authorization is in `Access`.
- Dimension-value admission in `storage/dims.go`: a third use of
  `planVocabulary` with the statements of `Vocabulary`; a copy of that module
  would differ in names only.
- The comparison of version strings: `Installs` takes the order as given.
- Durations' percentiles in the rollups and distinct counts: TimescaleDB
  Toolkit sketches, whose errors are the extension's. Distinct counts are exact
  in `Ratios`.
- The suggestions listed under an unknown command: one statement, whose rows past
  the limit are folded into one.
- Wire formats, signatures, hashing, regular expressions (`errfp`, identifier
  patterns), clamping of columns: conversions of single values, represented by
  the one bit that control depends on.
- Configuration loading, flags and output of commands, migrations, compression
  policies, start-up checks and the documentation generator. The metrics server
  has a single listener and ends as the public server does.
- A COPY whose acknowledgement is lost after it committed: the client's retry
  then duplicates rows, and the code does not claim otherwise.
