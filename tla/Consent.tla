------------------------------ MODULE Consent ------------------------------
(***************************************************************************)
(* What happens to one span, log record or data point on its way from an   *)
(* export to a row: Layer 1 bounds (internal/otlp/attrs.go), the consent   *)
(* tier and the allowlist (internal/consent/tier.go), the metric catalog   *)
(* (otlp/catalog.go) and the folding of dimensions (otlp/dims.go).         *)
(*                                                                         *)
(* A tier is its rank.  An attribute is its key, with what the checks tell *)
(* of its value: "good", "bad" for CheckAttribute, or "long" for Layer 1.  *)
(* The tier attribute is a field of its scope.                             *)
(***************************************************************************)
EXTENDS Integers, FiniteSets

CONSTANTS
  Tiers,       \* ranks of the consent tiers
  Full,        \* TierRank("full"): its rank, 0 if no tier has this name
  Keys,        \* attribute keys
  Dims,        \* those of the family cli.dim.*
  LabelDim,    \* cli.dim.label
  Label,       \* the label attribute of a vendor metric
  Service,     \* service.name
  MaxDims,     \* max_metric_dims
  None

ASSUME ConsentAssumption ==
  /\ Tiers \subseteq Nat /\ Full \in Tiers \cup {0} /\ None \notin Tiers
  /\ LabelDim \in Dims /\ Dims \subseteq Keys /\ {Label, Service} \subseteq Keys \ Dims
  /\ Label # Service
  /\ MaxDims \in Nat

\* The vendor instruments, whose points have a name, a label and dimensions.
Vendor == {"cli.counter", "cli.measure", "cli.value"}

\* extractAttrs: what Layer 1 keeps of one scope's attributes.
extractAttrs(m) == [k \in {j \in DOMAIN m : m[j] # "long"} |-> m[k]]
Unextracted(m) == {k \in DOMAIN m : m[k] = "long"}

\* mergeAttrs: the record's attributes over the resource's.
mergeAttrs(res, rec) ==
  [k \in DOMAIN res \cup DOMAIN rec |-> IF k \in DOMAIN rec THEN rec[k] ELSE res[k]]

\* ResolveTier: the record's tier, or else its resource's.
ResolveTier(r) == IF r.record.tier # None THEN r.record.tier ELSE r.resource.tier

Capped(declared, ceiling) == IF ceiling < declared THEN ceiling ELSE declared

\* IsAllowed: an event's attributes, the members of their families included.
IsAllowed(schema, event, k) == k \in schema.events[event].allowed

\* CheckAttribute: type, length, pattern and range.
CheckAttribute(value) == value = "good"

\* The body of EvaluateEvent's loop: whether the attribute is kept.
Keeps(schema, event, attrs, tier, k) ==
  IF IsAllowed(schema, event, k)
    THEN CheckAttribute(attrs[k]) /\ schema.min[k] <= tier
    ELSE k \in schema.standard

Kept(schema, event, attrs, tier) == {k \in DOMAIN attrs : Keeps(schema, event, attrs, tier, k)}

Rejected == [ok |-> FALSE]

\* EvaluateEvent; the declared tier is one of Tiers.
EvaluateEvent(schema, event, declared, config, attrs) ==
  LET tier == Capped(declared, config.ceiling)
      kept == Kept(schema, event, attrs, tier)
  IN  IF \/ event \notin DOMAIN schema.events
         \/ config.ceiling \notin Tiers
         \/ declared > config.ceiling /\ config.mode = "reject"
         \/ ~ schema.events[event].required \subseteq kept
        THEN Rejected
        ELSE [ok |-> TRUE, tier |-> tier, kept |-> kept, dropped |-> DOMAIN attrs \ kept]

\* resolveAndEvaluate.
resolveAndEvaluate(schema, config, r) ==
  LET res == extractAttrs(r.resource.attrs)
      rec == extractAttrs(r.record.attrs)
      d == EvaluateEvent(schema, r.event, ResolveTier(r), config, mergeAttrs(res, rec))
  IN  IF r.many \/ ResolveTier(r) \notin Tiers \/ ~ d.ok THEN Rejected
      ELSE [d EXCEPT !.dropped = @ \cup Unextracted(r.resource.attrs) \cup Unextracted(r.record.attrs)]

\* checkCatalog, on a decision: rejected, or without the dimensions and the
\* label that the metric's definition does not declare.
checkCatalog(catalog, config, r, d) ==
  IF ~ d.ok \/ r.event \notin Vendor THEN d
  ELSE IF Service \notin d.kept \/ r.name \notin DOMAIN catalog
    THEN IF config.strict THEN Rejected ELSE d
  ELSE LET rule == catalog[r.name]
           undeclared == (Dims \ rule.dims) \cup (IF LabelDim \in rule.dims THEN {} ELSE {Label})
       IN  IF rule.kind # r.event \/ (rule.min # None /\ d.tier < rule.min) THEN Rejected
           ELSE [d EXCEPT !.kept = @ \ undeclared]

\* The dimensions a vendor point is stored under; a plain label is one.
Dimensions(kept) == (kept \cap Dims) \cup (IF Label \in kept THEN {LabelDim} ELSE {})

\* Mutant of foldDims: an invalid dimension is just left out.
foldDimsLossy(r, d) ==
  IF ~ d.ok \/ r.event \notin Vendor \/ d.kept \cap Dims = {} THEN d
  ELSE IF {Label, LabelDim} \subseteq d.kept \/ Cardinality(Dimensions(d.kept)) > MaxDims
    THEN Rejected
  ELSE d

\* foldDims, on a decision: the dimensions become the label, unless one was
\* dropped, is there twice, or there are too many.
foldDims(r, d) ==
  IF ~ d.ok \/ r.event \notin Vendor THEN d
  ELSE IF d.dropped \cap Dims # {} THEN Rejected
  ELSE IF d.kept \cap Dims = {} THEN d
  ELSE IF {Label, LabelDim} \subseteq d.kept \/ Cardinality(Dimensions(d.kept)) > MaxDims
    THEN Rejected
  ELSE d

\* buildLogRow: whether the body is kept.
HasBody(schema, r, tier) == r.body /\ tier >= Full /\ ~ schema.events[r.event].dropBody

\* checkTimestamp: within the skew around now.
checkTimestamp(r) == r.timely

\* checkMetricShape, checkHistogramPoint and validMonotonicValue, and a type
\* that is supported.
Shaped(r) == r.shaped

\* The row of a decision.
Stored(d, dims, body) == [ok |-> TRUE, tier |-> d.tier, attrs |-> d.kept, dims |-> dims, body |-> body]

\* processNumberDataPoint and processHistogramDataPoint.
DataPoint(schema, config, catalog, r) ==
  LET d == resolveAndEvaluate(schema, config, r)
      c == checkCatalog(catalog, config, r, d)
      f == foldDims(r, c)
  IN  IF ~ checkTimestamp(r) \/ ~ d.ok \/ ~ c.ok \/ ~ f.ok THEN Rejected
      ELSE IF r.event \in Vendor
        THEN Stored([f EXCEPT !.kept = @ \ (Dims \cup {Label})], Dimensions(f.kept), FALSE)
        ELSE Stored(f, {}, FALSE)

\* What the loops of ProcessMetrics, ProcessLogs and ProcessTraces make of
\* one record.
ProcessMetrics(schema, config, catalog, r) ==
  IF Shaped(r) THEN DataPoint(schema, config, catalog, r) ELSE Rejected

ProcessLogs(schema, config, r) ==
  LET d == resolveAndEvaluate(schema, config, r)
  IN  IF checkTimestamp(r) /\ d.ok THEN Stored(d, {}, HasBody(schema, r, d.tier)) ELSE Rejected

ProcessTraces(schema, config, r) ==
  LET d == resolveAndEvaluate(schema, config, r)
  IN  IF checkTimestamp(r) /\ d.ok THEN Stored(d, {}, FALSE) ELSE Rejected

\* finalize: what an allowlist must satisfy to be loaded.
finalize(schema) ==
  /\ Tiers # {} /\ \A k \in DOMAIN schema.min : schema.min[k] \in Tiers
  /\ \A e \in DOMAIN schema.events :
       /\ schema.events[e].allowed \subseteq DOMAIN schema.min
       /\ schema.events[e].required \subseteq schema.events[e].allowed

=============================================================================
