--------------------------- MODULE RequestProofs ---------------------------
(***************************************************************************)
(* What becomes of a request.  Authentication: who is let in, for any      *)
(* tenants, configurations and credentials and any number of changes by    *)
(* operators during a request.  Ingest: what is stored of a batch, for     *)
(* every allowlist, configuration, catalog and batch, and any number of    *)
(* clients.                                                                *)
(***************************************************************************)
EXTENDS Ingest, Access, TLAPS

\* A function on the first n positions is a sequence.
LEMMA SeqOfFunction ==
  ASSUME NEW T, NEW n \in Nat, NEW c \in [1..n -> T]
  PROVE  c \in Seq(T)
  OBVIOUS

Scoped(r) ==
  /\ r.body \in BOOLEAN
  /\ DOMAIN r.resource.attrs \subseteq Keys /\ DOMAIN r.record.attrs \subseteq Keys

\* What EvaluateEvent promises of a decision it accepts.
Sound(schem, cfg, event, declared, d) ==
  /\ d.tier \in Tiers /\ d.tier <= cfg.ceiling /\ d.tier <= declared
  /\ cfg.mode = "reject" => d.tier = declared
  /\ d.kept \subseteq Keys
  /\ \A k \in d.kept : Permits(schem, event, d.tier, k)

\* A decision is a record.
Accepted(d) ==
  d = [ok |-> TRUE, tier |-> d.tier, kept |-> d.kept, dropped |-> d.dropped]

\* An accepted decision of EvaluateEvent keeps only attributes that its tier
\* permits, and its tier is capped by the declared tier and the ceiling.
LEMMA EvaluateSound ==
  ASSUME NEW schem, NEW cfg, NEW event, NEW declared \in Tiers, NEW attrs, NEW d,
         DOMAIN attrs \subseteq Keys,
         d = EvaluateEvent(schem, event, declared, cfg, attrs), d.ok
  PROVE  Sound(schem, cfg, event, declared, d) /\ Accepted(d)
<1> DEFINE t == Capped(declared, cfg.ceiling)
           kept == Kept(schem, event, attrs, t)
<1>1. /\ d = [ok |-> TRUE, tier |-> t, kept |-> kept, dropped |-> DOMAIN attrs \ kept]
      /\ cfg.ceiling \in Tiers
      /\ ~ (declared > cfg.ceiling /\ cfg.mode = "reject")
  BY Zenon DEF EvaluateEvent, Rejected
<1>2. t \in Tiers /\ t <= cfg.ceiling /\ t <= declared /\ (cfg.mode = "reject" => t = declared)
  <2>1. cfg.ceiling \in Nat /\ declared \in Nat
    BY <1>1, ConsentAssumption, Zenon
  <2>2. CASE cfg.ceiling < declared
    <3>1. t = cfg.ceiling
      BY <2>2, Zenon DEF Capped
    <3> QED
      BY <1>1, <2>1, <2>2, <3>1
  <2>3. CASE ~ (cfg.ceiling < declared)
    <3>1. t = declared
      BY <2>3, Zenon DEF Capped
    <3> QED
      BY <1>1, <2>1, <2>3, <3>1
  <2> QED
    BY <2>2, <2>3, Zenon
<1>3. kept \subseteq Keys /\ \A k \in kept : Permits(schem, event, t, k)
  BY Zenon DEF Kept, Keeps, IsAllowed, Permits
<1> HIDE DEF t, kept
<1>4. d.tier = t /\ d.kept = kept /\ d.dropped = DOMAIN attrs \ kept
  BY <1>1
<1> QED
  BY <1>1, <1>2, <1>3, <1>4, Zenon DEF Sound, Accepted

\* The same of resolveAndEvaluate, whose declared tier is the record's own
\* or its resource's.
LEMMA ResolveSound ==
  ASSUME NEW schem, NEW cfg, NEW r, NEW d, Scoped(r),
         d = resolveAndEvaluate(schem, cfg, r), d.ok
  PROVE  Sound(schem, cfg, r.event, Declared(r), d) /\ Accepted(d)
<1> DEFINE attrs == mergeAttrs(extractAttrs(r.resource.attrs), extractAttrs(r.record.attrs))
           e == EvaluateEvent(schem, r.event, ResolveTier(r), cfg, attrs)
<1>1. DOMAIN attrs \subseteq Keys
  BY Zenon DEF mergeAttrs, extractAttrs, Scoped
<1>2. /\ ResolveTier(r) \in Tiers /\ e.ok
      /\ d = [e EXCEPT !.dropped = @ \cup Unextracted(r.resource.attrs) \cup Unextracted(r.record.attrs)]
  BY Zenon DEF resolveAndEvaluate, Rejected
<1> HIDE DEF attrs
<1>3. Sound(schem, cfg, r.event, ResolveTier(r), e) /\ Accepted(e)
  BY <1>1, <1>2, EvaluateSound, Zenon
<1>4. ResolveTier(r) = Declared(r)
  BY Zenon DEF ResolveTier, Declared
<1> HIDE DEF e
<1>5. d.tier = e.tier /\ d.kept = e.kept /\ Accepted(d)
  BY <1>2, <1>3, Zenon DEF Accepted
<1> QED
  BY <1>3, <1>4, <1>5, Zenon DEF Sound

\* What was sent is kept or known to be dropped.
LEMMA ResolveCovers ==
  ASSUME NEW schem, NEW cfg, NEW r, NEW d, d = resolveAndEvaluate(schem, cfg, r), d.ok
  PROVE  Sent(r) \subseteq d.kept \cup d.dropped
<1> DEFINE attrs == mergeAttrs(extractAttrs(r.resource.attrs), extractAttrs(r.record.attrs))
           t == Capped(ResolveTier(r), cfg.ceiling)
           kept == Kept(schem, r.event, attrs, t)
           lost == Unextracted(r.resource.attrs) \cup Unextracted(r.record.attrs)
           e == EvaluateEvent(schem, r.event, ResolveTier(r), cfg, attrs)
<1>1. Sent(r) \subseteq DOMAIN attrs \cup lost
  BY Zenon DEF Sent, mergeAttrs, extractAttrs, Unextracted
<1>2. /\ e.ok
      /\ d = [e EXCEPT !.dropped = @ \cup Unextracted(r.resource.attrs) \cup Unextracted(r.record.attrs)]
  BY Zenon DEF resolveAndEvaluate, Rejected
<1>3. e = [ok |-> TRUE, tier |-> t, kept |-> kept, dropped |-> DOMAIN attrs \ kept]
  BY <1>2, Zenon DEF EvaluateEvent, Rejected
<1> HIDE DEF attrs, t, kept, e
<1>4. d.kept = kept /\ d.dropped = (DOMAIN attrs \ kept) \cup lost
  BY <1>2, <1>3
<1> QED
  BY <1>1, <1>4, Zenon

\* The catalog and the folding of dimensions take attributes away and leave
\* the tier alone.
LEMMA CatalogTakesAway ==
  ASSUME NEW cat, NEW cfg, NEW r, NEW d, NEW x, Accepted(d),
         x = foldDims(r, checkCatalog(cat, cfg, r, d)), x.ok
  PROVE  x.tier = d.tier /\ x.kept \subseteq d.kept /\ Accepted(x)
<1> DEFINE y == checkCatalog(cat, cfg, r, d)
<1>1. y = Rejected \/ y = d \/ \E S : y = [d EXCEPT !.kept = @ \ S]
  BY Zenon DEF checkCatalog
<1>2. x = Rejected \/ x = y
  BY Zenon DEF foldDims
<1>3. x = y /\ (x = d \/ \E S : x = [d EXCEPT !.kept = @ \ S])
  BY <1>1, <1>2 DEF Rejected
<1>4. CASE x = d
  BY <1>4, Zenon
<1>5. CASE \E S : x = [d EXCEPT !.kept = @ \ S]
  <2>1. PICK S : x = [d EXCEPT !.kept = @ \ S]
    BY <1>5, Zenon
  <2>2. x.tier = d.tier /\ x.kept = d.kept \ S /\ Accepted(x)
    BY <2>1, Zenon DEF Accepted
  <2> QED
    BY <2>2, Zenon
<1> QED
  BY <1>3, <1>4, <1>5, Zenon

\* What they leave of a vendor point has every dimension that was sent and is
\* declared, and is declared as strict_metrics wants it.
LEMMA PointObeys ==
  ASSUME NEW p, NEW r, NEW d, NEW f, NEW x, Accepted(d), d.tier \in Tiers, p.catalog \in Catalogs,
         Sent(r) \subseteq d.kept \cup d.dropped, r.event \in Vendor,
         f = foldDims(r, checkCatalog(p.catalog, p.config, r, d)), f.ok,
         x.row.tier = d.tier, x.row.attrs = f.kept \ (Dims \cup {Label}), x.row.dims = Dimensions(f.kept)
  PROVE  Obeys(p, r, x)
<1> DEFINE y == checkCatalog(p.catalog, p.config, r, d)
           rule == p.catalog[r.name]
           undeclared == (Dims \ rule.dims) \cup (IF LabelDim \in rule.dims THEN {} ELSE {Label})
<1>1. f = y /\ y.dropped \cap Dims = {} /\ y.ok
  BY Zenon DEF foldDims, Rejected
<1>2. d.ok
  BY DEF Accepted
<1>3. CASE Service \notin d.kept \/ r.name \notin DOMAIN p.catalog
  <2>1. ~ p.config.strict /\ y = d
    <3>1. y = IF p.config.strict THEN Rejected ELSE d
      BY <1>2, <1>3, Zenon DEF checkCatalog
    <3> HIDE DEF y
    <3> QED
      BY <1>1, <3>1, Zenon DEF Rejected
  <2>2. ~ Ruled(p, r, x)
    BY <1>1, <1>3, <2>1, Zenon DEF Ruled
  <2>3. Sent(r) \cap Dims \subseteq x.row.dims
    BY <1>1, <2>1, Zenon DEF Dimensions
  <2>4. x.row.dims \subseteq Dims \cup {LabelDim}
    BY Zenon DEF Dimensions
  <2> QED
    BY <2>1, <2>2, <2>3, <2>4, Zenon DEF Obeys
<1>4. CASE Service \in d.kept /\ r.name \in DOMAIN p.catalog
  <2>1. /\ rule.kind = r.event /\ (rule.min = None \/ ~ (d.tier < rule.min))
        /\ y = [d EXCEPT !.kept = @ \ undeclared]
    <3>1. y = IF rule.kind # r.event \/ (rule.min # None /\ d.tier < rule.min) THEN Rejected
              ELSE [d EXCEPT !.kept = @ \ undeclared]
      BY <1>2, <1>4, Zenon DEF checkCatalog
    <3> HIDE DEF y, rule, undeclared
    <3> QED
      BY <1>1, <3>1, Zenon DEF Rejected
  <2>2. y.kept = d.kept \ undeclared /\ y.dropped = d.dropped
    BY <2>1, Zenon DEF Accepted
  <2>3. rule.min = None \/ rule.min <= d.tier
    <3>1. rule.min \in Tiers \cup {None}
      BY <1>4, DefinitionAssumption, Zenon
    <3> QED
      BY <2>1, <3>1, ConsentAssumption
  <2>4. Sent(r) \cap rule.dims \cap Dims \subseteq x.row.dims
    BY <1>1, <2>2, ConsentAssumption, Zenon DEF Dimensions
  <2>5. x.row.dims \subseteq rule.dims \cup {LabelDim}
    BY <1>1, <2>2, Zenon DEF Dimensions
  <2>6. Ruled(p, r, x)
    BY <1>1, <1>4, <2>2, ConsentAssumption, Zenon DEF Ruled
  <2> QED
    BY <2>1, <2>3, <2>4, <2>5, <2>6, Zenon DEF Obeys
<1> QED
  BY <1>3, <1>4, Zenon

RowSet == [ok : BOOLEAN, tier : Tiers, attrs : SUBSET Keys, dims : SUBSET Keys, body : BOOLEAN]

\* What is stored of a sound decision is consented to.
LEMMA StoredConsented ==
  ASSUME NEW p, NEW r, NEW d, NEW attrs, NEW dims, NEW body \in BOOLEAN, NEW x,
         Sound(p.schema, p.config, r.event, Declared(r), d),
         attrs \subseteq d.kept,
         dims \subseteq Keys, dims \ {LabelDim} \subseteq d.kept,
         LabelDim \in dims => Label \in d.kept \/ LabelDim \in d.kept,
         body => d.tier >= Full /\ ~ p.schema.events[r.event].dropBody,
         x = [ok |-> TRUE, tier |-> d.tier, attrs |-> attrs, dims |-> dims, body |-> body]
  PROVE  x \in RowSet /\ Consented(p, r, x)
<1>1. x.tier = d.tier /\ x.attrs = attrs /\ x.dims = dims /\ x.body = body
  OBVIOUS
<1>2. x \in RowSet
  BY Zenon DEF Sound, RowSet
<1>3. x.tier <= p.config.ceiling /\ x.tier <= Declared(r) /\ (p.config.mode = "reject" => x.tier = Declared(r))
  BY <1>1, Zenon DEF Sound
<1>4. \A k \in x.attrs \cup (x.dims \ {LabelDim}) : Permits(p.schema, r.event, x.tier, k)
  BY <1>1, Zenon DEF Sound
<1>5. LabelDim \in x.dims => \E k \in {Label, LabelDim} : Permits(p.schema, r.event, x.tier, k)
  BY <1>1, Zenon DEF Sound
<1>6. x.body => x.tier >= Full /\ ~ p.schema.events[r.event].dropBody
  BY <1>1, Zenon
<1> QED
  BY <1>2, <1>3, <1>4, <1>5, <1>6, Zenon DEF Consented

\* The same of a row without dimensions and body.
LEMMA PlainConsented ==
  ASSUME NEW p, NEW r, NEW d, NEW attrs, NEW x,
         Sound(p.schema, p.config, r.event, Declared(r), d), attrs \subseteq d.kept,
         x = [ok |-> TRUE, tier |-> d.tier, attrs |-> attrs, dims |-> {}, body |-> FALSE]
  PROVE  x \in RowSet /\ Consented(p, r, x)
<1>1. x.tier = d.tier /\ x.attrs = attrs /\ x.dims = {} /\ x.body = FALSE
  OBVIOUS
<1>2. x \in RowSet
  BY Zenon DEF Sound, RowSet
<1>3. x.tier <= p.config.ceiling /\ x.tier <= Declared(r) /\ (p.config.mode = "reject" => x.tier = Declared(r))
  BY <1>1, Zenon DEF Sound
<1>4. \A k \in x.attrs \cup (x.dims \ {LabelDim}) : Permits(p.schema, r.event, x.tier, k)
  BY <1>1, Zenon DEF Sound
<1> QED
  BY <1>1, <1>2, <1>3, <1>4, Zenon DEF Consented

\* The pipeline's verdict on any record of any signal: rejected, or a row
\* that holds only what consent allows.
LEMMA JudgeConsented ==
  ASSUME NEW c, NEW r, NEW x, batch[c].signal \in Signals, Scoped(r),
         x = Judge(c, pipe[c].config, r), x.ok
  PROVE  x \in RowSet /\ Consented(pipe[c], r, x)
<1> DEFINE p == pipe[c]
           d == resolveAndEvaluate(p.schema, p.config, r)
<1>1. CASE batch[c].signal = "metrics"
  <2> DEFINE f == foldDims(r, checkCatalog(p.catalog, p.config, r, d))
             row == [f EXCEPT !.kept = @ \ (Dims \cup {Label})]
  <2>1. x = DataPoint(p.schema, p.config, p.catalog, r)
    BY <1>1, Zenon DEF Judge, ProcessMetrics, Rejected
  <2>2. /\ d.ok /\ f.ok
        /\ x = IF r.event \in Vendor THEN Stored(row, Dimensions(f.kept), FALSE) ELSE Stored(f, {}, FALSE)
    <3> DEFINE y == checkCatalog(p.catalog, p.config, r, d)
               z == IF r.event \in Vendor THEN Stored(row, Dimensions(f.kept), FALSE) ELSE Stored(f, {}, FALSE)
    <3>1. x = IF ~ checkTimestamp(r) \/ ~ d.ok \/ ~ y.ok \/ ~ f.ok THEN Rejected ELSE z
      BY <2>1, Zenon DEF DataPoint
    <3> HIDE DEF y, z, f, d
    <3>2. d.ok /\ f.ok /\ x = z
      BY <3>1 DEF Rejected
    <3> QED
      BY <3>2, Zenon DEF z
  <2> HIDE DEF d
  <2>3. Sound(p.schema, p.config, r.event, Declared(r), d) /\ Accepted(d)
    BY <2>2, ResolveSound, Zenon DEF d
  <2> HIDE DEF f
  <2>4. f.tier = d.tier /\ f.kept \subseteq d.kept /\ Accepted(f)
    BY <2>2, <2>3, CatalogTakesAway DEF f
  <2>5. CASE r.event \in Vendor
    <3> DEFINE dims == Dimensions(f.kept)
    <3>1. row.tier = d.tier /\ row.kept = f.kept \ (Dims \cup {Label})
      BY <2>4, Zenon DEF Accepted
    <3>2. x = [ok |-> TRUE, tier |-> d.tier, attrs |-> row.kept, dims |-> dims, body |-> FALSE]
      BY <2>2, <2>5, <3>1, Zenon DEF Stored
    <3>3. /\ dims \subseteq Keys /\ dims \ {LabelDim} \subseteq d.kept
          /\ LabelDim \in dims => Label \in d.kept \/ LabelDim \in d.kept
      BY <2>3, <2>4, ConsentAssumption, Zenon DEF Dimensions, Sound
    <3>4. row.kept \subseteq d.kept
      BY <2>4, <3>1, Zenon
    <3> HIDE DEF dims, row, p
    <3> QED
      BY <2>3, <3>2, <3>3, <3>4, StoredConsented, Zenon DEF p
  <2>6. CASE r.event \notin Vendor
    <3>1. x = [ok |-> TRUE, tier |-> d.tier, attrs |-> f.kept, dims |-> {}, body |-> FALSE]
      BY <2>2, <2>4, <2>6, Zenon DEF Stored
    <3> QED
      BY <2>3, <2>4, <3>1, PlainConsented, Zenon
  <2> QED
    BY <2>5, <2>6, Zenon
<1>2. CASE batch[c].signal = "logs"
  <2> DEFINE b == HasBody(p.schema, r, d.tier)
  <2>1. d.ok /\ x = Stored(d, {}, b)
    BY <1>2, Zenon DEF Judge, ProcessLogs, Rejected
  <2> HIDE DEF d
  <2>2. Sound(p.schema, p.config, r.event, Declared(r), d) /\ Accepted(d)
    BY <2>1, ResolveSound, Zenon DEF d
  <2>3. b \in BOOLEAN /\ (b => d.tier >= Full /\ ~ p.schema.events[r.event].dropBody)
    BY Zenon DEF HasBody, Scoped
  <2>4. x = [ok |-> TRUE, tier |-> d.tier, attrs |-> d.kept, dims |-> {}, body |-> b]
    BY <2>1, Zenon DEF Stored
  <2> HIDE DEF b
  <2> QED
    BY <2>2, <2>3, <2>4, StoredConsented
<1>3. CASE batch[c].signal = "traces"
  <2>1. d.ok /\ x = [ok |-> TRUE, tier |-> d.tier, attrs |-> d.kept, dims |-> {}, body |-> FALSE]
    BY <1>3, Zenon DEF Judge, ProcessTraces, Rejected, Stored
  <2> HIDE DEF d
  <2>2. Sound(p.schema, p.config, r.event, Declared(r), d) /\ Accepted(d)
    BY <2>1, ResolveSound, Zenon DEF d
  <2>3. d.kept \subseteq d.kept
    OBVIOUS
  <2> QED
    BY <2>1, <2>2, <2>3, PlainConsented, Zenon
<1> QED
  BY <1>1, <1>2, <1>3, Zenon DEF Signals

\* Its verdict on a data point obeys the catalog.
LEMMA JudgeObeys ==
  ASSUME NEW c, NEW r, NEW x, NEW k, batch[c].signal = "metrics", Scoped(r),
         pipe[c].catalog \in Catalogs, x = Judge(c, pipe[c].config, r), x.ok
  PROVE  Obeys(pipe[c], r, [of |-> k, row |-> x, fold |-> {}])
<1> DEFINE p == pipe[c]
           d == resolveAndEvaluate(p.schema, p.config, r)
           y == checkCatalog(p.catalog, p.config, r, d)
           f == foldDims(r, y)
           row == [f EXCEPT !.kept = @ \ (Dims \cup {Label})]
           item == [of |-> k, row |-> x, fold |-> {}]
<1> SUFFICES ASSUME r.event \in Vendor PROVE Obeys(p, r, item)
  BY Zenon DEF Obeys
<1>1. x = IF ~ checkTimestamp(r) \/ ~ d.ok \/ ~ y.ok \/ ~ f.ok THEN Rejected
          ELSE Stored(row, Dimensions(f.kept), FALSE)
  BY Zenon DEF Judge, ProcessMetrics, Rejected, DataPoint
<1>2. d.ok /\ f.ok /\ x = Stored(row, Dimensions(f.kept), FALSE)
  <2>1. x # Rejected
    BY DEF Rejected
  <2>2. ~ (~ checkTimestamp(r) \/ ~ d.ok \/ ~ y.ok \/ ~ f.ok)
    BY <1>1, <2>1, ZenonT(30)
  <2>3. x = Stored(row, Dimensions(f.kept), FALSE)
    <3> HIDE DEF d, y, f, row
    <3> QED
      BY <1>1, <2>2, Zenon
  <2> QED
    BY <2>2, <2>3, Zenon
<1>3. Sound(p.schema, p.config, r.event, Declared(r), d) /\ Accepted(d)
  BY <1>2, ResolveSound, Zenon
<1>4. Sent(r) \subseteq d.kept \cup d.dropped
  BY <1>2, ResolveCovers, Zenon
<1>5. f.tier = d.tier /\ Accepted(f)
  <2>1. f = foldDims(r, checkCatalog(p.catalog, p.config, r, d))
    OBVIOUS
  <2> HIDE DEF d, y, f
  <2> QED
    BY <1>2, <1>3, <2>1, CatalogTakesAway
<1>6. f = foldDims(r, checkCatalog(p.catalog, p.config, r, d))
  OBVIOUS
<1> HIDE DEF d, y, f
<1>7. row.tier = d.tier /\ row.kept = f.kept \ (Dims \cup {Label})
  BY <1>5, Zenon DEF Accepted
<1>8. /\ item.row.tier = d.tier /\ item.row.attrs = f.kept \ (Dims \cup {Label})
      /\ item.row.dims = Dimensions(f.kept)
  BY <1>2, <1>7 DEF Stored
<1>9. d.tier \in Tiers
  BY <1>3, Zenon DEF Sound
<1> HIDE DEF row, item, p
<1> QED
  BY <1>2, <1>3, <1>4, <1>6, <1>8, <1>9, PointObeys, Zenon DEF p

RowItem == [of : Nat, row : RowSet, fold : SUBSET {"reason", "name", "label"}]
CapNames == {"reasons", "cli.counter", "cli.measure", "cli.value"}
Pipelines == [schema : Schemas, config : Configs, catalog : Catalogs \cup {None}, caps : Seq(CapNames)]
Working == {"catalog", "records", "track"}

\* The row of batch b is consented to, and obeys the catalog, under pipeline p.
RowOK(b, p, x) ==
  /\ Consented(p, b.records[x.of], x.row)
  /\ b.signal = "metrics" => Obeys(p, b.records[x.of], x)

\* A metrics pipeline that processes records has loaded the catalog.
Loaded(b, q, p) ==
  q \in {"records", "track"} /\ b.signal = "metrics" => p.catalog \in Catalogs

\* The inductive invariant: the rows of an export under way are so under its
\* own pipeline, which does not change once it has any.
ConsentInv ==
  /\ schema \in Schemas /\ config \in Configs /\ catalog \in Catalogs
  /\ batch \in [Clients -> Batches]
  /\ pc \in [Clients -> {"idle", "authenticate"} \cup Working]
  /\ pipe = [c \in Clients |-> pipe[c]]
  /\ \A c \in Clients : pc[c] \in Working => pipe[c] \in Pipelines
  /\ \A c \in Clients : Loaded(batch[c], pc[c], pipe[c])
  /\ rows \in [Clients -> Seq(RowItem)]
  /\ rejected \in [Clients -> Nat]
  /\ stored \in [Clients -> Seq(RowItem)]
  /\ \A c \in Clients : pc[c] \notin {"records", "track"} => rows[c] = <<>>
  /\ \A c \in Clients : \A i \in DOMAIN rows[c] :
       RowOK(batch[c], pipe[c], rows[c][i])

\* A step that changes the export of client c alone keeps the invariant if it
\* keeps it for that client.
LEMMA OneClient ==
  ASSUME ConsentInv, NEW c \in Clients, NEW q, NEW p, NEW rs, NEW n,
         pc' = [pc EXCEPT ![c] = q], pipe' = [pipe EXCEPT ![c] = p],
         rows' = [rows EXCEPT ![c] = rs], rejected' = [rejected EXCEPT ![c] = n],
         stored' \in [Clients -> Seq(RowItem)], UNCHANGED <<Server, batch>>,
         q \in {"idle", "authenticate"} \cup Working,
         q \in Working => p \in Pipelines, Loaded(batch[c], q, p),
         rs \in Seq(RowItem), n \in Nat,
         q \notin {"records", "track"} => rs = <<>>,
         \A i \in DOMAIN rs : RowOK(batch[c], p, rs[i])
  PROVE  ConsentInv'
<1>1. /\ pc'[c] = q /\ pipe'[c] = p /\ rows'[c] = rs
      /\ \A e \in Clients \ {c} : pc'[e] = pc[e] /\ pipe'[e] = pipe[e] /\ rows'[e] = rows[e]
  BY Zenon DEF ConsentInv
<1>2. schema' \in Schemas /\ config' \in Configs /\ catalog' \in Catalogs /\ batch' \in [Clients -> Batches]
  BY Zenon DEF ConsentInv, Server
<1>3. /\ pc' \in [Clients -> {"idle", "authenticate"} \cup Working]
      /\ pipe' = [e \in Clients |-> pipe'[e]]
      /\ rows' \in [Clients -> Seq(RowItem)] /\ rejected' \in [Clients -> Nat]
  BY Zenon DEF ConsentInv
<1>4. \A e \in Clients : pc'[e] \in Working => pipe'[e] \in Pipelines
  BY <1>1, Zenon DEF ConsentInv
<1>5. \A e \in Clients : pc'[e] \notin {"records", "track"} => rows'[e] = <<>>
  BY <1>1, Zenon DEF ConsentInv
<1>6. ASSUME NEW e \in Clients, NEW i \in DOMAIN rows'[e]
      PROVE  RowOK(batch[e], pipe'[e], rows'[e][i])
  <2>1. CASE e = c
    BY <1>1, <1>6, <2>1, Zenon
  <2>2. CASE e # c
    BY <1>1, <1>6, <2>2, Zenon DEF ConsentInv
  <2> QED
    BY <2>1, <2>2, Zenon
<1>7. \A e \in Clients : \A i \in DOMAIN rows'[e] : RowOK(batch[e], pipe[e], rows[e][i])'
  BY <1>6, Zenon
<1>8. \A e \in Clients : Loaded(batch[e], pc[e], pipe[e])'
  BY <1>1, Zenon DEF ConsentInv, Loaded
<1> QED
  BY <1>2, <1>3, <1>4, <1>5, <1>7, <1>8, Zenon DEF ConsentInv

\* The end of an export leaves no rows.
LEMMA EndsKeeps ==
  ASSUME ConsentInv, NEW c \in Clients, NEW a, Ends(c, a), stored' \in [Clients -> Seq(RowItem)]
  PROVE  ConsentInv'
<1>1. <<>> \in Seq(RowItem) /\ DOMAIN <<>> = {}
  OBVIOUS
<1>2. /\ pc' = [pc EXCEPT ![c] = "idle"] /\ pipe' = [pipe EXCEPT ![c] = None]
      /\ rows' = [rows EXCEPT ![c] = <<>>] /\ rejected' = [rejected EXCEPT ![c] = 0]
      /\ UNCHANGED <<Server, batch>>
  BY Zenon DEF Ends
<1>3. "idle" \in {"idle", "authenticate"} \cup Working /\ "idle" \notin Working /\ Loaded(batch[c], "idle", None)
  BY Zenon DEF Working, Loaded
<1>4. \A i \in DOMAIN <<>> : RowOK(batch[c], None, <<>>[i])
  BY <1>1, Zenon
<1> QED
  BY <1>1, <1>2, <1>3, <1>4, OneClient, Zenon

\* Actions that leave the rows alone.
LEMMA BeginKeeps ==
  ASSUME ConsentInv, NEW c \in Clients, Send(c) \/ newPipeline(c)
  PROVE  ConsentInv'
<1>1. /\ pipe = [pipe EXCEPT ![c] = pipe[c]] /\ rows = [rows EXCEPT ![c] = rows[c]]
      /\ rejected = [rejected EXCEPT ![c] = rejected[c]]
      /\ rows[c] \in Seq(RowItem) /\ rejected[c] \in Nat
      /\ stored \in [Clients -> Seq(RowItem)]
  BY Zenon DEF ConsentInv
<1>2. rows[c] = <<>> /\ DOMAIN rows[c] = {}
  <2>1. pc[c] \notin {"records", "track"}
    BY Zenon DEF Send, newPipeline
  <2>2. rows[c] = <<>>
    BY <2>1, Zenon DEF ConsentInv
  <2> QED
    BY <2>2
<1>3. CASE Send(c)
  <2>1. /\ pc' = [pc EXCEPT ![c] = "authenticate"] /\ pipe' = [pipe EXCEPT ![c] = pipe[c]]
        /\ rows' = [rows EXCEPT ![c] = rows[c]] /\ rejected' = [rejected EXCEPT ![c] = rejected[c]]
        /\ UNCHANGED <<Server, batch>> /\ stored' = stored
    BY <1>1, <1>3, Zenon DEF Send
  <2>2. /\ "authenticate" \in {"idle", "authenticate"} \cup Working /\ "authenticate" \notin Working
        /\ Loaded(batch[c], "authenticate", pipe[c])
    BY Zenon DEF Working, Loaded
  <2>3. \A i \in DOMAIN rows[c] : RowOK(batch[c], pipe[c], rows[c][i])
    BY <1>2, Zenon
  <2> QED
    BY <1>1, <1>2, <2>1, <2>2, <2>3, OneClient, Zenon
<1>4. CASE newPipeline(c)
  <2> DEFINE q == IF batch[c].signal = "metrics" THEN "catalog" ELSE "records"
             p == [schema |-> schema, config |-> config, catalog |-> None, caps |-> Caps(batch[c].signal)]
  <2>1. /\ pc' = [pc EXCEPT ![c] = q] /\ pipe' = [pipe EXCEPT ![c] = p]
        /\ rows' = [rows EXCEPT ![c] = rows[c]] /\ rejected' = [rejected EXCEPT ![c] = rejected[c]]
        /\ UNCHANGED <<Server, batch>> /\ stored' = stored
    BY <1>1, <1>4, Zenon DEF newPipeline
  <2>2. q \in {"idle", "authenticate"} \cup Working /\ Loaded(batch[c], q, p)
    BY Zenon DEF Working, Loaded
  <2>3. p \in Pipelines
    <3>1. Caps(batch[c].signal) \in Seq(CapNames)
      <4>1. /\ <<"reasons", "cli.counter", "cli.measure", "cli.value">> \in Seq(CapNames)
            /\ <<"reasons">> \in Seq(CapNames) /\ <<>> \in Seq(CapNames)
        BY DEF CapNames
      <4> QED
        BY <4>1, Zenon DEF Caps
    <3> QED
      BY <3>1, Zenon DEF Pipelines, ConsentInv
  <2>4. \A i \in DOMAIN rows[c] : RowOK(batch[c], p, rows[c][i])
    BY <1>2, Zenon
  <2> HIDE DEF q, p
  <2> QED
    BY <1>1, <1>2, <2>1, <2>2, <2>3, <2>4, OneClient, Zenon
<1> QED
  BY <1>3, <1>4, Zenon

\* Loading the catalog completes the pipeline before any row is built.
LEMMA LoadKeeps ==
  ASSUME ConsentInv, NEW c \in Clients, loadCatalog(c)
  PROVE  ConsentInv'
<1>1. /\ rows = [rows EXCEPT ![c] = rows[c]] /\ rejected = [rejected EXCEPT ![c] = rejected[c]]
      /\ rows[c] \in Seq(RowItem) /\ rejected[c] \in Nat /\ stored \in [Clients -> Seq(RowItem)]
  BY Zenon DEF ConsentInv
<1>2. rows[c] = <<>> /\ DOMAIN rows[c] = {} /\ pipe[c] \in Pipelines
  <2>1. pc[c] = "catalog"
    BY Zenon DEF loadCatalog
  <2>2. rows[c] = <<>> /\ pipe[c] \in Pipelines
    BY <2>1, Zenon DEF ConsentInv, Working
  <2> QED
    BY <2>2
<1>3. CASE Fails(c)
  BY <1>1, <1>3, EndsKeeps, Zenon DEF Fails
<1>4. CASE ~ Fails(c)
  <2> DEFINE p == [pipe[c] EXCEPT !.catalog = catalog]
  <2>1. /\ pc' = [pc EXCEPT ![c] = "records"] /\ pipe' = [pipe EXCEPT ![c] = p]
        /\ rows' = [rows EXCEPT ![c] = rows[c]] /\ rejected' = [rejected EXCEPT ![c] = rejected[c]]
        /\ UNCHANGED <<Server, batch>> /\ stored' = stored
    BY <1>1, <1>4, Zenon DEF loadCatalog
  <2>2. "records" \in {"idle", "authenticate"} \cup Working
    BY Zenon DEF Working
  <2>3. p \in Pipelines /\ Loaded(batch[c], "records", p)
    BY <1>2, Zenon DEF Pipelines, ConsentInv, Loaded
  <2>4. \A i \in DOMAIN rows[c] : RowOK(batch[c], p, rows[c][i])
    BY <1>2, Zenon
  <2> HIDE DEF p
  <2> QED
    BY <1>1, <1>2, <2>1, <2>2, <2>3, <2>4, OneClient, Zenon
<1> QED
  BY <1>3, <1>4, Zenon

\* A record is rejected, or its row is added (JudgeConsented).
LEMMA ProcessKeeps ==
  ASSUME ConsentInv, NEW c \in Clients, Process(c)
  PROVE  ConsentInv'
<1> DEFINE k == Current(c)
           r == Records(c)[k]
           x == Judged(c)
<1>1. /\ pc = [pc EXCEPT ![c] = "records"] /\ pipe = [pipe EXCEPT ![c] = pipe[c]]
      /\ rows = [rows EXCEPT ![c] = rows[c]] /\ rejected = [rejected EXCEPT ![c] = rejected[c]]
      /\ rows[c] \in Seq(RowItem) /\ rejected[c] \in Nat /\ stored \in [Clients -> Seq(RowItem)]
      /\ batch[c] \in Batches /\ pc[c] = "records"
  BY Zenon DEF ConsentInv, Process
<1>2. /\ pipe[c] \in Pipelines /\ "records" \in {"idle", "authenticate"} \cup Working
      /\ Loaded(batch[c], "records", pipe[c])
  BY <1>1 DEF ConsentInv, Working
<1>3. /\ \A i \in DOMAIN rows[c] : RowOK(batch[c], pipe[c], rows[c][i])
      /\ UNCHANGED <<Server, batch>> /\ pc' = [pc EXCEPT ![c] = "records"]
      /\ pipe' = [pipe EXCEPT ![c] = pipe[c]] /\ stored' = stored
  BY <1>1, Zenon DEF ConsentInv, Process
<1>4. CASE x.ok
  <2> DEFINE item == [of |-> k, row |-> x, fold |-> {}]
             rs == Append(rows[c], item)
  <2>1. k \in Nat /\ k \in 1..Len(Records(c))
    <3>1. Len(rows[c]) \in Nat
      BY <1>1
    <3> QED
      BY <1>1, <3>1, BatchAssumption DEF Process, Current, Records
  <2>2. Scoped(r) /\ batch[c].signal \in Signals
    BY <1>1, <2>1, BatchAssumption, Zenon DEF Scoped, Records
  <2>3. x = Judge(c, pipe[c].config, r)
    BY Zenon DEF Judged
  <2> HIDE DEF x, k, r
  <2>4. x \in RowSet /\ Consented(pipe[c], r, x)
    BY <1>4, <2>2, <2>3, JudgeConsented, Zenon
  <2>5. item \in RowItem
    BY <2>1, <2>4, Zenon DEF RowItem
  <2>6. rs \in Seq(RowItem) /\ Len(rs) = Len(rows[c]) + 1 /\ DOMAIN rs = 1..Len(rows[c]) + 1
    BY <1>1, <2>5
  <2>7. ASSUME NEW i \in DOMAIN rs
        PROVE  RowOK(batch[c], pipe[c], rs[i])
    <3>1. CASE i = Len(rows[c]) + 1
      <4>1. rs[i] = item /\ item.of = k /\ item.row = x
        BY <1>1, <2>5, <3>1
      <4>2. r = batch[c].records[k]
        BY Zenon DEF r, Records
      <4>3. batch[c].signal = "metrics" => Obeys(pipe[c], r, item)
        BY <1>2, <1>4, <2>2, <2>3, JudgeObeys, Zenon DEF Loaded
      <4> HIDE DEF item
      <4> QED
        BY <2>4, <4>1, <4>2, <4>3, Zenon DEF RowOK
    <3>2. CASE i # Len(rows[c]) + 1
      <4>1. i \in DOMAIN rows[c] /\ rs[i] = rows[c][i]
        BY <1>1, <2>5, <2>6, <3>2
      <4> QED
        BY <1>3, <4>1, Zenon
    <3> QED
      BY <3>1, <3>2, Zenon
  <2>8. rows' = [rows EXCEPT ![c] = rs] /\ rejected' = [rejected EXCEPT ![c] = rejected[c]]
    BY <1>1, <1>4, Zenon DEF Process, x, k
  <2> HIDE DEF rs
  <2> QED
    BY <1>1, <1>2, <1>3, <2>6, <2>7, <2>8, OneClient, ZenonT(30)
<1>5. CASE ~ x.ok
  <2>1. rows' = [rows EXCEPT ![c] = rows[c]] /\ rejected' = [rejected EXCEPT ![c] = rejected[c] + 1]
    BY <1>1, <1>5, Zenon DEF Process
  <2>2. rejected[c] + 1 \in Nat
    BY <1>1
  <2>3. /\ rows[c] \in Seq(RowItem) /\ pipe[c] \in Pipelines
        /\ stored' \in [Clients -> Seq(RowItem)] /\ "records" \notin {"idle", "authenticate", "catalog"}
    BY <1>1, <1>2, <1>3, Zenon
  <2> HIDE DEF x, k, r
  <2> QED
    BY <1>2, <1>3, <2>1, <2>2, <2>3, OneClient, Zenon
<1> QED
  BY <1>4, <1>5, Zenon

\* What a cap makes of a row: the same record's row, perhaps without dimensions.
LEMMA CappingShape ==
  ASSUME NEW cap, NEW x \in RowItem, NEW y \in Capping(cap, x)
  PROVE  /\ y \in RowItem /\ y.of = x.of /\ x.fold \subseteq y.fold
         /\ \/ y.row = x.row
            \/ y.row = [x.row EXCEPT !.dims = {}] /\ y.fold \cap {"name", "label"} # {}
<1>1. \/ y = x \/ y = [x EXCEPT !.fold = @ \cup {"reason"}]
      \/ y = [x EXCEPT !.fold = @ \cup {"name"}, !.row.dims = {}]
      \/ y = [x EXCEPT !.fold = @ \cup {"label"}, !.row.dims = {}]
  BY Zenon DEF Capping
<1> DEFINE bare == [x.row EXCEPT !.dims = {}]
<1>2. x.of \in Nat /\ x.row \in RowSet /\ x.fold \in SUBSET {"reason", "name", "label"}
  BY Zenon DEF RowItem
<1>3. bare \in RowSet
  BY <1>2, Zenon DEF RowSet
<1>4. \/ y = x \/ y = [of |-> x.of, row |-> x.row, fold |-> x.fold \cup {"reason"}]
      \/ y = [of |-> x.of, row |-> bare, fold |-> x.fold \cup {"name"}]
      \/ y = [of |-> x.of, row |-> bare, fold |-> x.fold \cup {"label"}]
  <2>1. x = [of |-> x.of, row |-> x.row, fold |-> x.fold]
    BY Zenon DEF RowItem
  <2> QED
    BY <1>1, <2>1, Zenon
<1> HIDE DEF bare
<1>5. y \in RowItem
  BY <1>2, <1>3, <1>4 DEF RowItem
<1>6. /\ y.of = x.of /\ x.fold \subseteq y.fold
      /\ \/ y.row = x.row
         \/ y.row = bare /\ y.fold \cap {"name", "label"} # {}
  <2>1. CASE y = x
    BY <2>1, Zenon
  <2>2. CASE y = [of |-> x.of, row |-> x.row, fold |-> x.fold \cup {"reason"}]
    <3>1. y.of = x.of /\ y.row = x.row /\ y.fold = x.fold \cup {"reason"}
      BY <2>2, Zenon
    <3> QED
      BY <3>1, Zenon
  <2>3. CASE \E w \in {"name", "label"} : y = [of |-> x.of, row |-> bare, fold |-> x.fold \cup {w}]
    <3>1. PICK w \in {"name", "label"} : y = [of |-> x.of, row |-> bare, fold |-> x.fold \cup {w}]
      BY <2>3, Zenon
    <3>2. w \in y.fold /\ y.of = x.of /\ y.row = bare /\ x.fold \subseteq y.fold
      BY <3>1, Zenon
    <3> QED
      BY <3>2, Zenon
  <2> QED
    BY <1>4, <2>1, <2>3, <2>2, Zenon
<1> QED
  BY <1>5, <1>6, Zenon DEF bare

\* A cap takes dimensions away, never attributes or the tier.
LEMMA CappingConsented ==
  ASSUME NEW p, NEW r, NEW cap, NEW x \in RowItem, NEW y \in Capping(cap, x), Consented(p, r, x.row)
  PROVE  y \in RowItem /\ y.of = x.of /\ Consented(p, r, y.row) /\ (Obeys(p, r, x) => Obeys(p, r, y))
<1>1. /\ y \in RowItem /\ y.of = x.of /\ x.fold \subseteq y.fold
      /\ \/ y.row = x.row
         \/ y.row = [x.row EXCEPT !.dims = {}] /\ y.fold \cap {"name", "label"} # {}
  BY CappingShape, Zenon
<1>2. CASE y.row = x.row
  BY <1>1, <1>2, Zenon DEF Obeys, Ruled
<1>3. CASE y.row = [x.row EXCEPT !.dims = {}] /\ y.fold \cap {"name", "label"} # {}
  <2>1. x.row \in RowSet
    BY Zenon DEF RowItem
  <2>2. y.row.tier = x.row.tier /\ y.row.attrs = x.row.attrs /\ y.row.dims = {} /\ y.row.body = x.row.body
    BY <1>3, <2>1, Zenon DEF RowSet
  <2>3. Consented(p, r, y.row)
    BY <2>2, Zenon DEF Consented
  <2>4. Obeys(p, r, x) => Obeys(p, r, y)
    BY <1>3, <2>2, Zenon DEF Obeys, Ruled
  <2> QED
    BY <1>1, <2>3, <2>4, Zenon
<1> QED
  BY <1>1, <1>2, <1>3, Zenon

\* The caps rewrite rows that stay consented to.
LEMMA CapKeeps ==
  ASSUME ConsentInv, NEW c \in Clients, Cap(c)
  PROVE  ConsentInv'
<1> DEFINE cap == Head(pipe[c].caps)
           concerned == {i \in DOMAIN rows[c] : Concerns(c, cap, i)}
<1>1. /\ pc = [pc EXCEPT ![c] = "records"] /\ rejected = [rejected EXCEPT ![c] = rejected[c]]
      /\ rows[c] \in Seq(RowItem) /\ rejected[c] \in Nat /\ stored \in [Clients -> Seq(RowItem)]
      /\ pc[c] = "records" /\ pipe[c].caps # <<>>
  BY Zenon DEF ConsentInv, Cap, Processed
<1>2. /\ pipe[c] \in Pipelines /\ "records" \in {"idle", "authenticate"} \cup Working
      /\ Loaded(batch[c], "records", pipe[c])
  BY <1>1 DEF ConsentInv, Working
<1>3. CASE Fails(c)
  BY <1>1, <1>3, EndsKeeps, Zenon DEF Fails
<1>4. CASE ~ Fails(c)
  <2>1. PICK f \in [concerned -> UNION {Capping(cap, rows[c][i]) : i \in concerned}] :
           /\ \A i \in concerned : f[i] \in Capping(cap, rows[c][i])
           /\ rows' = [rows EXCEPT ![c] = [i \in DOMAIN @ |-> IF i \in concerned THEN f[i] ELSE @[i]]]
    BY <1>4, Zenon DEF Cap
  <2> DEFINE rs == [i \in DOMAIN rows[c] |-> IF i \in concerned THEN f[i] ELSE rows[c][i]]
             p == [pipe[c] EXCEPT !.caps = Tail(@)]
  <2>2. /\ pc' = [pc EXCEPT ![c] = "records"] /\ pipe' = [pipe EXCEPT ![c] = p]
        /\ rejected' = [rejected EXCEPT ![c] = rejected[c]]
        /\ UNCHANGED <<Server, batch>> /\ stored' = stored
    BY <1>1, <1>4, Zenon DEF Cap
  <2>3. rows' = [rows EXCEPT ![c] = rs]
    BY <2>1, Zenon DEF ConsentInv
  <2>4. /\ p \in Pipelines /\ p.schema = pipe[c].schema /\ p.config = pipe[c].config
        /\ p.catalog = pipe[c].catalog
    <3>1. Tail(pipe[c].caps) \in Seq(CapNames)
      BY <1>1, <1>2 DEF Pipelines
    <3> QED
      BY <1>2, <3>1, Zenon DEF Pipelines
  <2>5. ASSUME NEW i \in DOMAIN rows[c]
        PROVE  rs[i] \in RowItem /\ RowOK(batch[c], p, rs[i])
    <3> DEFINE r == batch[c].records[rows[c][i].of]
    <3>1. rows[c][i] \in RowItem
      BY <1>1
    <3>2. RowOK(batch[c], pipe[c], rows[c][i])
      BY Zenon DEF ConsentInv
    <3>3. /\ Consented(p, r, rows[c][i].row)
          /\ batch[c].signal = "metrics" => Obeys(p, r, rows[c][i])
      <4> HIDE DEF p
      <4> QED
        BY <2>4, <3>2, ZenonT(30) DEF RowOK, Consented, Obeys, Ruled
    <3>4. CASE i \in concerned
      <4>1. rs[i] = f[i] /\ f[i] \in Capping(cap, rows[c][i])
        BY <2>1, <3>4, Zenon
      <4> HIDE DEF rs, p, r, cap, concerned
      <4>2. /\ rs[i] \in RowItem /\ rs[i].of = rows[c][i].of /\ Consented(p, r, rs[i].row)
            /\ Obeys(p, r, rows[c][i]) => Obeys(p, r, rs[i])
        BY <3>1, <3>3, <4>1, CappingConsented, Zenon
      <4> QED
        BY <3>3, <4>2, Zenon DEF r, RowOK
    <3>5. CASE i \notin concerned
      <4>1. rs[i] = rows[c][i]
        BY <3>5, Zenon
      <4> HIDE DEF rs, p
      <4> QED
        BY <3>1, <3>3, <4>1, Zenon DEF RowOK
    <3> QED
      BY <3>4, <3>5, Zenon
  <2>6. rs \in Seq(RowItem) /\ DOMAIN rs = DOMAIN rows[c]
    <3>1. DOMAIN rows[c] = 1..Len(rows[c]) /\ Len(rows[c]) \in Nat
      BY <1>1
    <3>2. DOMAIN rs = 1..Len(rows[c]) /\ \A i \in 1..Len(rows[c]) : rs[i] \in RowItem
      BY <2>5, <3>1, Zenon
    <3>3. rs = [i \in 1..Len(rows[c]) |-> rs[i]]
      BY <3>1, Zenon
    <3> HIDE DEF rs
    <3>4. rs \in [1..Len(rows[c]) -> RowItem]
      BY <3>2, <3>3, Zenon
    <3>5. rs \in Seq(RowItem)
      BY <3>1, <3>4, SeqOfFunction, Zenon
    <3> QED
      BY <3>1, <3>2, <3>5, Zenon
  <2>7. (\A i \in DOMAIN rs : RowOK(batch[c], p, rs[i])) /\ Loaded(batch[c], "records", p)
    <3>1. Loaded(batch[c], "records", p)
      <4> HIDE DEF p
      <4> QED
        BY <1>2, <2>4, Zenon DEF Loaded
    <3> QED
      BY <2>5, <2>6, <3>1, Zenon
  <2> HIDE DEF rs, p
  <2> QED
    BY <1>1, <1>2, <2>2, <2>3, <2>4, <2>6, <2>7, OneClient, Zenon
<1> QED
  BY <1>3, <1>4, Zenon

\* Storing appends the rows of the export to those of its client.
LEMMA InsertKeeps ==
  ASSUME ConsentInv, NEW c \in Clients, Insert(c)
  PROVE  ConsentInv' /\ NewConsented /\ NewObeys
<1>1. /\ pc[c] = "records" /\ rows[c] \in Seq(RowItem) /\ rejected[c] \in Nat
      /\ stored \in [Clients -> Seq(RowItem)]
      /\ pipe = [pipe EXCEPT ![c] = pipe[c]] /\ rows = [rows EXCEPT ![c] = rows[c]]
      /\ rejected = [rejected EXCEPT ![c] = rejected[c]]
      /\ \A i \in DOMAIN rows[c] : RowOK(batch[c], pipe[c], rows[c][i])
  BY Zenon DEF ConsentInv, Insert, Processed
<1>2. CASE Fails(c)
  <2>1. stored' = stored
    BY <1>2, Zenon DEF Fails
  <2>2. ConsentInv'
    BY <1>1, <1>2, <2>1, EndsKeeps, Zenon DEF Fails
  <2> QED
    BY <2>1, <2>2, Zenon DEF NewConsented, NewObeys, NewRows
<1>3. CASE ~ Fails(c)
  <2>1. stored' = [stored EXCEPT ![c] = stored[c] \o rows[c]]
    BY <1>3, Zenon DEF Insert
  <2>2. stored' \in [Clients -> Seq(RowItem)]
    <3>1. stored[c] \o rows[c] \in Seq(RowItem)
      BY <1>1
    <3> QED
      BY <1>1, <2>1, <3>1, Zenon
  <2>3. ConsentInv'
    <3>1. CASE batch[c].signal = "logs"
      <4>1. /\ pc' = [pc EXCEPT ![c] = "track"] /\ pipe' = [pipe EXCEPT ![c] = pipe[c]]
            /\ rows' = [rows EXCEPT ![c] = rows[c]] /\ rejected' = [rejected EXCEPT ![c] = rejected[c]]
            /\ UNCHANGED <<Server, batch>>
        BY <1>1, <1>3, <3>1, Zenon DEF Insert
      <4>2. /\ "track" \in {"idle", "authenticate"} \cup Working /\ pipe[c] \in Pipelines
            /\ Loaded(batch[c], "track", pipe[c])
        BY <1>1, Zenon DEF Working, ConsentInv, Loaded
      <4> QED
        BY <1>1, <2>2, <4>1, <4>2, OneClient, ZenonT(30)
    <3>2. CASE batch[c].signal # "logs"
      BY <1>3, <2>2, <3>2, EndsKeeps, Zenon DEF Insert
    <3> QED
      BY <3>1, <3>2, Zenon
  <2>4. ASSUME NEW e \in Clients, NEW x \in NewRows(e)
        PROVE  RowOK(batch[e], pipe[e], x)
    <3>1. CASE e # c
      <4>1. stored'[e] = stored[e]
        BY <1>1, <2>1, <3>1, Zenon
      <4> QED
        BY <2>4, <4>1, Zenon DEF NewRows
    <3>2. CASE e = c
      <4>1. PICK i \in (DOMAIN stored'[c]) \ (DOMAIN stored[c]) : x = stored'[c][i]
        BY <2>4, <3>2, Zenon DEF NewRows
      <4>2. stored'[c] = stored[c] \o rows[c] /\ stored[c] \in Seq(RowItem)
        BY <1>1, <2>1, Zenon
      <4>3. /\ DOMAIN stored[c] = 1..Len(stored[c]) /\ DOMAIN rows[c] = 1..Len(rows[c])
            /\ Len(stored[c]) \in Nat /\ Len(rows[c]) \in Nat
            /\ DOMAIN (stored[c] \o rows[c]) = 1..(Len(stored[c]) + Len(rows[c]))
        BY <1>1, <4>2
      <4>4. i - Len(stored[c]) \in DOMAIN rows[c] /\ i > Len(stored[c]) /\ i \in Nat
        <5> DEFINE m == Len(stored[c])
                   n == Len(rows[c])
        <5>1. i \in 1..(m + n) /\ i \notin 1..m /\ m \in Nat /\ n \in Nat
          BY <4>1, <4>2, <4>3, Zenon
        <5> HIDE DEF m, n
        <5>2. i - m \in 1..n /\ i > m /\ i \in Nat
          BY <5>1
        <5> QED
          BY <4>3, <5>2, Zenon DEF m, n
      <4>5. x = rows[c][i - Len(stored[c])]
        BY <1>1, <4>1, <4>2, <4>3, <4>4
      <4> QED
        BY <1>1, <3>2, <4>4, <4>5, Zenon
    <3> QED
      BY <3>1, <3>2, Zenon
  <2> QED
    BY <2>3, <2>4, Zenon DEF NewConsented, NewObeys, RowOK, Records
<1> QED
  BY <1>2, <1>3, Zenon

\* Steps that change no export keep the invariant.
LEMMA Unmoved ==
  ASSUME ConsentInv, UNCHANGED <<batch, pc, pipe, rows, rejected, stored>>,
         schema' \in Schemas, config' \in Configs, catalog' \in Catalogs
  PROVE  ConsentInv'
<1>1. ASSUME NEW c \in Clients, NEW i \in DOMAIN rows'[c]
      PROVE  RowOK(batch[c], pipe'[c], rows'[c][i])
  BY <1>1, Zenon DEF ConsentInv
<1>2. \A c \in Clients : \A i \in DOMAIN rows'[c] : RowOK(batch[c], pipe[c], rows[c][i])'
  BY <1>1, Zenon
<1>3. /\ batch' \in [Clients -> Batches] /\ pc' \in [Clients -> {"idle", "authenticate"} \cup Working]
      /\ pipe' = [c \in Clients |-> pipe'[c]]
      /\ \A c \in Clients : pc'[c] \in Working => pipe'[c] \in Pipelines
      /\ \A c \in Clients : Loaded(batch[c], pc[c], pipe[c])'
      /\ rows' \in [Clients -> Seq(RowItem)] /\ rejected' \in [Clients -> Nat]
      /\ stored' \in [Clients -> Seq(RowItem)]
      /\ \A c \in Clients : pc'[c] \notin {"records", "track"} => rows'[c] = <<>>
  BY Zenon DEF ConsentInv, Loaded
<1> QED
  BY <1>2, <1>3, Zenon DEF ConsentInv

\* Every step keeps the invariant and stores only what is consented to.
LEMMA ConsentStep ==
  ASSUME ConsentInv, [IngestNext]_vars
  PROVE  ConsentInv' /\ [NewConsented]_vars /\ [NewObeys]_vars
<1>1. stored \in [Clients -> Seq(RowItem)]
  BY Zenon DEF ConsentInv
<1>2. stored' = stored => NewConsented /\ NewObeys
  BY Zenon DEF NewConsented, NewObeys, NewRows
<1>3. CASE UNCHANGED vars
  <2>1. ConsentInv'
    <3>1. UNCHANGED <<schema, config, catalog, batch, pc, pipe, rows, rejected, stored>>
      BY <1>3, Zenon DEF vars
    <3> QED
      BY <3>1, Unmoved, Zenon DEF ConsentInv
  <2> QED
    BY <1>3, <2>1, Zenon
<1>4. CASE Reload \/ Configure \/ Declare
  <2>1. UNCHANGED <<batch, pc, pipe, rows, rejected, stored>>
    BY <1>4, Zenon DEF Reload, Configure, Declare
  <2>2. schema' \in Schemas /\ config' \in Configs /\ catalog' \in Catalogs
    BY <1>4, Zenon DEF Reload, Configure, Declare, Schemas, ConsentInv
  <2>3. ConsentInv'
    BY <2>1, <2>2, Unmoved, Zenon
  <2> QED
    BY <1>2, <2>1, <2>3, Zenon
<1>5. ASSUME NEW c \in Clients, Export(c)
      PROVE  ConsentInv' /\ NewConsented /\ NewObeys
  <2>1. CASE Send(c) \/ newPipeline(c)
    BY <1>2, <2>1, BeginKeeps, Zenon DEF Send, newPipeline
  <2>2. CASE Refuse(c) \/ TooLarge(c) \/ NoRows(c) \/ Track(c)
    <3>1. stored' = stored /\ \E a : Ends(c, a)
      BY <2>2, Zenon DEF Refuse, TooLarge, NoRows, Track
    <3> QED
      BY <1>1, <1>2, <3>1, EndsKeeps, Zenon
  <2>3. CASE loadCatalog(c)
    BY <1>2, <2>3, LoadKeeps, Zenon DEF loadCatalog, Fails
  <2>4. CASE Process(c)
    BY <1>2, <2>4, ProcessKeeps, Zenon DEF Process
  <2>5. CASE Cap(c)
    <3>1. stored' = stored
      BY <2>5, Zenon DEF Cap, Fails
    <3> QED
      BY <1>2, <2>5, <3>1, CapKeeps, Zenon
  <2>6. CASE Insert(c)
    BY <2>6, InsertKeeps, Zenon
  <2> QED
    BY <1>5, <2>1, <2>2, <2>3, <2>4, <2>5, <2>6, Zenon DEF Export
<1> QED
  BY <1>3, <1>4, <1>5, Zenon DEF IngestNext

\* The pipelines of all exports are so from the start.
LEMMA ConsentInitial == IngestInit => ConsentInv
<1> SUFFICES ASSUME IngestInit PROVE ConsentInv
  OBVIOUS
<1>1. <<>> \in Seq(RowItem) /\ DOMAIN <<>> = {}
  OBVIOUS
<1>2. \A c \in Clients : rows[c] = <<>> /\ pc[c] = "idle" /\ DOMAIN rows[c] = {}
  BY <1>1, Zenon DEF IngestInit
<1>3. /\ batch \in [Clients -> Batches] /\ pc \in [Clients -> {"idle", "authenticate"} \cup Working]
      /\ pipe = [c \in Clients |-> pipe[c]] /\ rows \in [Clients -> Seq(RowItem)]
      /\ rejected \in [Clients -> Nat] /\ stored \in [Clients -> Seq(RowItem)]
  BY <1>1, Zenon DEF IngestInit
<1>4. schema \in Schemas /\ config \in Configs /\ catalog \in Catalogs
  BY Zenon DEF IngestInit
<1> QED
  BY <1>2, <1>3, <1>4, Zenon DEF ConsentInv, Working, Loaded

\* For every allowlist, configuration, catalog, batch and number of clients:
\* what the pipeline stores is within the consent of the record and the
\* ceiling of the tenant (EvaluateEvent, buildLogRow).
THEOREM ConsentKept == IngestSpec => StoresOnlyConsented
  BY ConsentInitial, ConsentStep, PTL DEF IngestSpec, StoresOnlyConsented

\* For every allowlist, catalog and batch: a stored vendor point has lost none
\* of its declared dimensions but to a cap, and under strict_metrics it is of
\* the kind and from the tier that the catalog declares (checkCatalog, foldDims).
THEOREM DeclarationsKept == IngestSpec => DeclarationsObeyed
  BY ConsentInitial, ConsentStep, PTL DEF IngestSpec, DeclarationsObeyed

-----------------------------------------------------------------------------
(* Every record of a batch is accounted for.                               *)

OncePerRecord(rs) == \A i, j \in DOMAIN rs : rs[i].of = rs[j].of => i = j

\* The books of one export at q, of batch b, with rows rs, n rejected records,
\* answer a and stored rows st.
Books(b, q, rs, n, a, st) ==
  /\ q \notin {"records", "track"} => n = 0
  /\ q # "idle" => a.status = "none"
  /\ Len(rs) + n <= Len(b.records)
  /\ \A i \in DOMAIN rs : rs[i].of <= Len(rs) + n
  /\ OncePerRecord(rs)
  /\ q = "track" => st = rs /\ Len(rs) + n = Len(b.records)
  /\ q # "track" /\ a.status # "ok" => st = <<>>
  /\ a.status = "ok" => Len(st) + a.rejected = Len(b.records) /\ OncePerRecord(st)

AccountInv ==
  /\ answer = [c \in Clients |-> answer[c]]
  /\ \A c \in Clients : Books(batch[c], pc[c], rows[c], rejected[c], answer[c], stored[c])

\* What a sequence of rows is as a function, and with a row added.
LEMMA RowsShape ==
  ASSUME NEW rs \in Seq(RowItem)
  PROVE  /\ Len(rs) \in Nat /\ DOMAIN rs = 1..Len(rs)
         /\ \A i \in DOMAIN rs : rs[i] \in RowItem
OBVIOUS

\* All records seen: rows and rejected, which are within the batch, make it up.
LEMMA NoneLeft ==
  ASSUME NEW m \in Nat, NEW n \in Nat, NEW l \in Nat, m + n + 1 > l, m + n <= l
  PROVE  m + n = l
OBVIOUS

\* A row of an export carries the number of its record.
LEMMA RowsOf ==
  ASSUME NEW rs \in Seq(RowItem)
  PROVE  \A i \in DOMAIN rs : rs[i].of \in Nat
<1>1. \A i \in DOMAIN rs : rs[i] \in RowItem
  BY RowsShape, Zenon
<1> QED
  BY <1>1, Zenon DEF RowItem

\* A sequence of rows with one more at its end.
LEMMA RowAdded ==
  ASSUME NEW rs \in Seq(RowItem), NEW item
  PROVE  /\ Len(Append(rs, item)) = Len(rs) + 1
         /\ DOMAIN Append(rs, item) = 1..Len(rs) + 1
         /\ Append(rs, item)[Len(rs) + 1] = item
         /\ \A i \in DOMAIN rs : Append(rs, item)[i] = rs[i]
         /\ \A i \in DOMAIN Append(rs, item) : i \in DOMAIN rs \/ i = Len(rs) + 1
OBVIOUS

\* Rows replaced one for one.
LEMMA RowsReplaced ==
  ASSUME NEW rs \in Seq(RowItem), NEW rt, DOMAIN rt = DOMAIN rs, rt = [i \in DOMAIN rt |-> rt[i]],
         \A i \in DOMAIN rs : rt[i] \in RowItem
  PROVE  Len(rt) = Len(rs)
<1>1. Len(rs) \in Nat /\ DOMAIN rs = 1..Len(rs)
  BY RowsShape, Zenon
<1>2. rt \in [1..Len(rs) -> RowItem]
  BY <1>1, Zenon
<1> QED
  BY <1>1, <1>2

\* The books stay in order when the next record is added to the rows ...
LEMMA BooksAdd ==
  ASSUME NEW b, Len(b.records) \in Nat, NEW rs \in Seq(RowItem), NEW n \in Nat, NEW a, NEW st,
         Books(b, "records", rs, n, a, st), NEW item, item.of = Len(rs) + n + 1,
         item.of <= Len(b.records)
  PROVE  Books(b, "records", Append(rs, item), n, a, st)
<1> DEFINE rt == Append(rs, item)
           m == Len(rs)
<1>1. /\ Len(rt) = m + 1 /\ rt[m + 1] = item
      /\ \A i \in DOMAIN rs : rt[i] = rs[i]
      /\ \A i \in DOMAIN rt : i \in DOMAIN rs \/ i = m + 1
  BY RowAdded, Zenon
<1>2. m \in Nat /\ \A i \in DOMAIN rs : rs[i].of \in Nat
  BY RowsShape, RowsOf, Zenon
<1>3. \A i \in DOMAIN rs : rs[i].of <= m + n
  BY Zenon DEF Books
<1> HIDE DEF rt, m
<1>4. item.of = m + n + 1
  BY Zenon DEF m
<1>5. \A i \in DOMAIN rs : rt[i].of <= m + 1 + n /\ rt[i].of # item.of
  BY <1>1, <1>2, <1>3, <1>4
<1>6. \A i \in DOMAIN rt : rt[i].of <= Len(rt) + n
  <2>1. item.of <= m + 1 + n
    BY <1>2, <1>4
  <2> QED
    BY <1>1, <1>5, <2>1, Zenon
<1>7. OncePerRecord(rt)
  <2>1. OncePerRecord(rs)
    BY Zenon DEF Books
  <2> QED
    BY <1>1, <1>5, <2>1, Zenon DEF OncePerRecord
<1>8. Len(rt) + n <= Len(b.records)
  BY <1>1, <1>2, <1>4
<1> QED
  BY <1>6, <1>7, <1>8, Zenon DEF Books, rt

\* ... or rejected.
LEMMA BooksReject ==
  ASSUME NEW b, Len(b.records) \in Nat, NEW rs \in Seq(RowItem), NEW n \in Nat, NEW a, NEW st,
         Books(b, "records", rs, n, a, st), Len(rs) + n + 1 <= Len(b.records)
  PROVE  Books(b, "records", rs, n + 1, a, st)
<1> DEFINE m == Len(rs)
<1>1. m \in Nat /\ \A i \in DOMAIN rs : rs[i].of \in Nat
  BY RowsShape, RowsOf, Zenon
<1>2. \A i \in DOMAIN rs : rs[i].of <= m + n
  BY Zenon DEF Books
<1>3. m + n + 1 <= Len(b.records)
  OBVIOUS
<1> HIDE DEF m
<1>4. /\ \A i \in DOMAIN rs : rs[i].of <= m + (n + 1)
      /\ m + (n + 1) <= Len(b.records)
  BY <1>1, <1>2, <1>3
<1> QED
  BY <1>4, Zenon DEF Books, m

\* The books of the other exports are as they were.
LEMMA OneBook ==
  ASSUME ConsentInv, AccountInv, NEW c \in Clients, NEW q, NEW rs, NEW n, NEW a, NEW st,
         pc' = [pc EXCEPT ![c] = q], rows' = [rows EXCEPT ![c] = rs],
         rejected' = [rejected EXCEPT ![c] = n], answer' = [answer EXCEPT ![c] = a],
         stored' = [stored EXCEPT ![c] = st], batch' = batch, Books(batch[c], q, rs, n, a, st)
  PROVE  AccountInv'
<1>1. /\ pc'[c] = q /\ rows'[c] = rs /\ rejected'[c] = n /\ answer'[c] = a /\ stored'[c] = st
      /\ \A e \in Clients \ {c} : /\ pc'[e] = pc[e] /\ rows'[e] = rows[e] /\ rejected'[e] = rejected[e]
                                  /\ answer'[e] = answer[e] /\ stored'[e] = stored[e]
  BY Zenon DEF ConsentInv, AccountInv
<1>2. answer' = [e \in Clients |-> answer'[e]]
  BY Zenon DEF AccountInv
<1>3. ASSUME NEW e \in Clients
      PROVE  Books(batch[e], pc[e], rows[e], rejected[e], answer[e], stored[e])'
  <2>1. CASE e = c
    BY <1>1, <2>1, Zenon
  <2>2. CASE e # c
    <3>1. Books(batch[e], pc[e], rows[e], rejected[e], answer[e], stored[e])
      BY Zenon DEF AccountInv
    <3> QED
      BY <1>1, <2>2, <3>1, Zenon
  <2> QED
    BY <2>1, <2>2, Zenon
<1> QED
  BY <1>2, <1>3, Zenon DEF AccountInv

\* An export that ends with an error, or is refused, has stored nothing.
LEMMA FailureBooked ==
  ASSUME ConsentInv, AccountInv, NEW c \in Clients, NEW s \in {"error", "refused"},
         pc[c] \in {"authenticate", "catalog", "records"}, Ends(c, [status |-> s]), UNCHANGED stored
  PROVE  AccountInv'
<1> DEFINE a == [status |-> s]
<1>1. batch[c] \in Batches /\ stored = [stored EXCEPT ![c] = stored[c]] /\ stored[c] = <<>>
  BY Zenon DEF ConsentInv, AccountInv, Books
<1>2. Len(batch[c].records) \in Nat
  BY <1>1, BatchAssumption, Zenon
<1>3. Books(batch[c], "idle", <<>>, 0, a, stored[c])
  BY <1>1, <1>2 DEF Books, OncePerRecord
<1> QED
  BY <1>1, <1>3, OneBook, Zenon DEF Ends

\* An export that ends with success has stored or rejected every record.
LEMMA SuccessBooked ==
  ASSUME ConsentInv, AccountInv, NEW c \in Clients, NEW st, Ends(c, Success(c)),
         Len(st) + rejected[c] = Len(batch[c].records), OncePerRecord(st),
         stored' = [stored EXCEPT ![c] = st]
  PROVE  AccountInv'
<1>1. batch[c] \in Batches
  BY Zenon DEF ConsentInv
<1>2. Len(batch[c].records) \in Nat
  BY <1>1, BatchAssumption, Zenon
<1>3. Books(batch[c], "idle", <<>>, 0, Success(c), st)
  BY <1>2 DEF Books, OncePerRecord, Success
<1> QED
  BY <1>3, OneBook, Zenon DEF Ends

\* A record is added to the rows or to the rejected ones, once.
LEMMA ProcessBooked ==
  ASSUME ConsentInv, AccountInv, NEW c \in Clients, Process(c)
  PROVE  AccountInv'
<1>1. /\ pc[c] = "records" /\ batch[c] \in Batches /\ rows[c] \in Seq(RowItem) /\ rejected[c] \in Nat
      /\ Current(c) = Len(rows[c]) + rejected[c] + 1 /\ Current(c) <= Len(batch[c].records)
      /\ Books(batch[c], "records", rows[c], rejected[c], answer[c], stored[c])
  BY Zenon DEF Process, ConsentInv, AccountInv, Current, Records
<1>2. Len(batch[c].records) \in Nat
  BY <1>1, BatchAssumption, Zenon
<1>4. /\ pc' = [pc EXCEPT ![c] = "records"] /\ answer' = [answer EXCEPT ![c] = answer[c]]
      /\ stored' = [stored EXCEPT ![c] = stored[c]] /\ batch' = batch
  BY <1>1, Zenon DEF Process, ConsentInv, AccountInv
<1>5. CASE Judged(c).ok
  <2> DEFINE item == [of |-> Current(c), row |-> Judged(c), fold |-> {}]
             rs == Append(rows[c], item)
  <2>1. rows' = [rows EXCEPT ![c] = rs] /\ rejected' = [rejected EXCEPT ![c] = rejected[c]]
    BY <1>5, Zenon DEF Process, ConsentInv
  <2>2. item.of = Current(c)
    OBVIOUS
  <2> HIDE DEF item
  <2>8. Books(batch[c], "records", rs, rejected[c], answer[c], stored[c])
    BY <1>1, <1>2, <2>2, BooksAdd, Zenon
  <2> QED
    BY <1>4, <2>1, <2>8, OneBook, Zenon
<1>6. CASE ~ Judged(c).ok
  <2>1. rows' = [rows EXCEPT ![c] = rows[c]] /\ rejected' = [rejected EXCEPT ![c] = rejected[c] + 1]
    BY <1>6, Zenon DEF Process, ConsentInv
  <2>2. Books(batch[c], "records", rows[c], rejected[c] + 1, answer[c], stored[c])
    BY <1>1, <1>2, BooksReject, Zenon
  <2> QED
    BY <1>4, <2>1, <2>2, OneBook, Zenon
<1> QED
  BY <1>5, <1>6, Zenon

\* A cap rewrites rows in place: it adds, drops and moves none.
LEMMA CapBooked ==
  ASSUME ConsentInv, AccountInv, NEW c \in Clients, Cap(c)
  PROVE  AccountInv'
<1> DEFINE cap == Head(pipe[c].caps)
           concerned == {i \in DOMAIN rows[c] : Concerns(c, cap, i)}
<1>1. /\ pc[c] = "records" /\ rows[c] \in Seq(RowItem)
      /\ Books(batch[c], "records", rows[c], rejected[c], answer[c], stored[c])
  BY Zenon DEF Cap, Processed, ConsentInv, AccountInv
<1>2. CASE Fails(c)
  BY <1>1, <1>2, FailureBooked, Zenon DEF Fails
<1>3. CASE ~ Fails(c)
  <2>1. PICK f \in [concerned -> UNION {Capping(cap, rows[c][i]) : i \in concerned}] :
           /\ \A i \in concerned : f[i] \in Capping(cap, rows[c][i])
           /\ rows' = [rows EXCEPT ![c] = [i \in DOMAIN @ |-> IF i \in concerned THEN f[i] ELSE @[i]]]
    BY <1>3, Zenon DEF Cap
  <2> DEFINE rs == [i \in DOMAIN rows[c] |-> IF i \in concerned THEN f[i] ELSE rows[c][i]]
  <2>2. rows' = [rows EXCEPT ![c] = rs]
    BY <2>1, Zenon DEF ConsentInv
  <2>3. ASSUME NEW i \in DOMAIN rows[c]
        PROVE  rs[i] \in RowItem /\ rs[i].of = rows[c][i].of
    <3>1. rows[c][i] \in RowItem
      BY <1>1, RowsShape, Zenon
    <3>2. rs[i] = rows[c][i] \/ rs[i] \in Capping(cap, rows[c][i])
      BY <2>1, Zenon
    <3> HIDE DEF rs, cap, concerned
    <3>3. CASE rs[i] = rows[c][i]
      BY <3>1, <3>3, Zenon
    <3>4. CASE rs[i] \in Capping(cap, rows[c][i])
      <4> DEFINE x == rows[c][i]
                 y == rs[i]
      <4> HIDE DEF x, y
      <4>1. x \in RowItem /\ y \in Capping(cap, x)
        BY <3>1, <3>4, Zenon DEF x, y
      <4>2. y \in RowItem /\ y.of = x.of
        BY <4>1, CappingShape, ZenonT(30)
      <4> QED
        BY <4>2, Zenon DEF x, y
    <3> QED
      BY <3>2, <3>3, <3>4, Zenon
  <2>4. DOMAIN rs = DOMAIN rows[c] /\ Len(rs) = Len(rows[c])
    <3>1. DOMAIN rs = DOMAIN rows[c] /\ rs = [i \in DOMAIN rs |-> rs[i]]
      BY Zenon
    <3> HIDE DEF rs
    <3> QED
      BY <1>1, <2>3, <3>1, RowsReplaced, Zenon
  <2>5. /\ pc' = [pc EXCEPT ![c] = "records"] /\ answer' = [answer EXCEPT ![c] = answer[c]]
        /\ stored' = [stored EXCEPT ![c] = stored[c]] /\ batch' = batch
        /\ rejected' = [rejected EXCEPT ![c] = rejected[c]]
    BY <1>1, <1>3 DEF Cap, ConsentInv, AccountInv
  <2> HIDE DEF rs
  <2>6. Books(batch[c], "records", rs, rejected[c], answer[c], stored[c])
    BY <1>1, <2>3, <2>4, Zenon DEF Books, OncePerRecord
  <2> QED
    BY <2>2, <2>5, <2>6, OneBook, Zenon
<1> QED
  BY <1>2, <1>3, Zenon

\* The rows are stored once, all of them or none.
LEMMA InsertBooked ==
  ASSUME ConsentInv, AccountInv, NEW c \in Clients, Insert(c)
  PROVE  AccountInv'
<1>1. /\ pc[c] = "records" /\ rows[c] \in Seq(RowItem) /\ rejected[c] \in Nat /\ batch[c] \in Batches
      /\ Len(rows[c]) + rejected[c] + 1 > Len(batch[c].records)
      /\ Books(batch[c], "records", rows[c], rejected[c], answer[c], stored[c])
  BY Zenon DEF Insert, Processed, Current, Records, ConsentInv, AccountInv
<1>2. Len(batch[c].records) \in Nat /\ Len(rows[c]) \in Nat
  BY <1>1, BatchAssumption, RowsShape, Zenon
<1>3. /\ Len(rows[c]) + rejected[c] = Len(batch[c].records) /\ OncePerRecord(rows[c])
      /\ stored[c] = <<>> /\ <<>> \o rows[c] = rows[c]
  <2>1. <<>> \o rows[c] = rows[c]
    BY <1>1
  <2>2. Len(rows[c]) + rejected[c] <= Len(batch[c].records) /\ OncePerRecord(rows[c]) /\ stored[c] = <<>>
    BY <1>1, Zenon DEF Books
  <2>3. Len(rows[c]) + rejected[c] = Len(batch[c].records)
    BY <1>1, <1>2, <2>2, NoneLeft, Zenon
  <2> QED
    BY <2>1, <2>2, <2>3, Zenon
<1>4. CASE Fails(c)
  BY <1>1, <1>4, FailureBooked, Zenon DEF Fails
<1>5. CASE ~ Fails(c)
  <2>1. stored' = [stored EXCEPT ![c] = rows[c]]
    BY <1>3, <1>5, Zenon DEF Insert
  <2>2. CASE batch[c].signal = "logs"
    <3>1. /\ pc' = [pc EXCEPT ![c] = "track"] /\ answer' = [answer EXCEPT ![c] = answer[c]]
          /\ rows' = [rows EXCEPT ![c] = rows[c]] /\ batch' = batch
          /\ rejected' = [rejected EXCEPT ![c] = rejected[c]]
      BY <1>5, <2>2, Zenon DEF Insert, ConsentInv, AccountInv
    <3>2. Books(batch[c], "track", rows[c], rejected[c], answer[c], rows[c])
      BY <1>1, <1>3, Zenon DEF Books
    <3> QED
      BY <2>1, <3>1, <3>2, OneBook, Zenon
  <2>3. CASE batch[c].signal # "logs"
    <3>1. Ends(c, Success(c))
      BY <1>5, <2>3, Zenon DEF Insert
    <3> QED
      BY <1>3, <2>1, <3>1, SuccessBooked, Zenon
  <2> QED
    BY <2>2, <2>3, Zenon
<1> QED
  BY <1>4, <1>5, Zenon

\* The books stay right with every step.
LEMMA AccountStep ==
  ASSUME ConsentInv, AccountInv, [IngestNext]_vars
  PROVE  AccountInv'
<1>1. CASE UNCHANGED <<batch, pc, rows, rejected, answer, stored>>
  BY <1>1, Zenon DEF AccountInv
<1>2. ASSUME NEW c \in Clients, Export(c)
      PROVE  AccountInv'
  <2>1. /\ batch[c] \in Batches /\ pc[c] \notin {"records", "track"} => rows[c] = <<>>
        /\ Books(batch[c], pc[c], rows[c], rejected[c], answer[c], stored[c])
        /\ rows = [rows EXCEPT ![c] = rows[c]] /\ rejected = [rejected EXCEPT ![c] = rejected[c]]
        /\ stored = [stored EXCEPT ![c] = stored[c]] /\ answer = [answer EXCEPT ![c] = answer[c]]
    BY Zenon DEF ConsentInv, AccountInv
  <2>2. CASE Send(c)
    <3>1. Books(batch[c], "authenticate", rows[c], rejected[c], NoAnswer, stored[c])
      BY <2>1, <2>2, Zenon DEF Send, Books, NoAnswer
    <3>2. /\ pc' = [pc EXCEPT ![c] = "authenticate"] /\ answer' = [answer EXCEPT ![c] = NoAnswer]
          /\ rows' = [rows EXCEPT ![c] = rows[c]] /\ rejected' = [rejected EXCEPT ![c] = rejected[c]]
          /\ stored' = [stored EXCEPT ![c] = stored[c]] /\ batch' = batch
      BY <2>1, <2>2, Zenon DEF Send
    <3> QED
      BY <3>1, <3>2, OneBook, Zenon
  <2>3. CASE Refuse(c) \/ TooLarge(c)
    BY <2>3, FailureBooked, Zenon DEF Refuse, TooLarge
  <2>4. CASE newPipeline(c)
    <3> DEFINE q == IF batch[c].signal = "metrics" THEN "catalog" ELSE "records"
    <3>1. q \in {"catalog", "records"} /\ pc[c] = "authenticate" /\ pc' = [pc EXCEPT ![c] = q]
      BY <2>4, Zenon DEF newPipeline
    <3> HIDE DEF q
    <3>2. Books(batch[c], q, rows[c], rejected[c], answer[c], stored[c])
      BY <2>1, <3>1, Zenon DEF Books
    <3>3. /\ answer' = [answer EXCEPT ![c] = answer[c]]
          /\ rows' = [rows EXCEPT ![c] = rows[c]] /\ rejected' = [rejected EXCEPT ![c] = rejected[c]]
          /\ stored' = [stored EXCEPT ![c] = stored[c]] /\ batch' = batch
      BY <2>1, <2>4, Zenon DEF newPipeline
    <3> QED
      BY <3>1, <3>2, <3>3, OneBook, Zenon
  <2>5. CASE loadCatalog(c)
    <3>1. CASE Fails(c)
      BY <2>5, <3>1, FailureBooked, Zenon DEF loadCatalog, Fails
    <3>2. CASE ~ Fails(c)
      <4>1. Books(batch[c], "records", rows[c], rejected[c], answer[c], stored[c])
        BY <2>1, <2>5, Zenon DEF loadCatalog, Books
      <4>2. /\ pc' = [pc EXCEPT ![c] = "records"] /\ answer' = [answer EXCEPT ![c] = answer[c]]
            /\ rows' = [rows EXCEPT ![c] = rows[c]] /\ rejected' = [rejected EXCEPT ![c] = rejected[c]]
            /\ stored' = [stored EXCEPT ![c] = stored[c]] /\ batch' = batch
        BY <2>1, <2>5, <3>2, Zenon DEF loadCatalog
      <4> QED
        BY <4>1, <4>2, OneBook, Zenon
    <3> QED
      BY <3>1, <3>2, Zenon
  <2>6. CASE Process(c)
    BY <2>6, ProcessBooked, Zenon
  <2>7. CASE Cap(c)
    BY <2>7, CapBooked, Zenon
  <2>8. CASE NoRows(c)
    <3>1. rejected[c] \in Nat /\ Len(batch[c].records) \in Nat
      BY <2>1, BatchAssumption, Zenon DEF ConsentInv
    <3>2. pc[c] = "records" /\ rows[c] = <<>> /\ 0 + rejected[c] + 1 > Len(batch[c].records)
      BY <2>8, Zenon DEF NoRows, Processed, Current, Records
    <3>3. /\ stored[c] = <<>> /\ Len(stored[c]) + rejected[c] = Len(batch[c].records)
          /\ OncePerRecord(stored[c])
      BY <2>1, <3>1, <3>2 DEF Books, OncePerRecord
    <3> QED
      BY <2>1, <2>8, <3>3, SuccessBooked, Zenon DEF NoRows
  <2>9. CASE Insert(c)
    BY <2>9, InsertBooked, Zenon
  <2>10. CASE Track(c)
    <3>1. Len(stored[c]) + rejected[c] = Len(batch[c].records) /\ OncePerRecord(stored[c])
      BY <2>1, <2>10, Zenon DEF Track, Books
    <3> QED
      BY <2>1, <2>10, <3>1, SuccessBooked, Zenon DEF Track
  <2> QED
    BY <1>2, <2>2, <2>3, <2>4, <2>5, <2>6, <2>7, <2>8, <2>9, <2>10, Zenon DEF Export
<1> QED
  BY <1>1, <1>2, Zenon DEF IngestNext, Reload, Configure, Declare, vars

\* For every batch and number of clients: after success each record was stored
\* once or is in the rejected count of the answer, and an export that ended
\* with an error stored nothing, however often the client sends its batch
\* (ProcessMetrics, ProcessLogs, ProcessTraces).
THEOREM AlwaysAccounted == IngestSpec => []Accounted
<1>1. IngestInit => AccountInv
  <2> SUFFICES ASSUME IngestInit PROVE AccountInv
    OBVIOUS
  <2>1. answer = [c \in Clients |-> answer[c]]
    BY Zenon DEF IngestInit
  <2>2. ASSUME NEW c \in Clients
        PROVE  Books(batch[c], pc[c], rows[c], rejected[c], answer[c], stored[c])
    <3>1. /\ batch[c] \in Batches /\ pc[c] = "idle" /\ rows[c] = <<>> /\ rejected[c] = 0
          /\ answer[c] = NoAnswer /\ stored[c] = <<>>
      BY Zenon DEF IngestInit
    <3>2. Len(batch[c].records) \in Nat
      BY <3>1, BatchAssumption, Zenon
    <3> QED
      BY <3>1, <3>2 DEF Books, OncePerRecord, NoAnswer
  <2> QED
    BY <2>1, <2>2, Zenon DEF AccountInv
<1>2. AccountInv => Accounted
  BY Zenon DEF AccountInv, Books, Accounted, OncePerRecord, Records
<1> QED
  BY <1>1, <1>2, ConsentInitial, ConsentStep, AccountStep, PTL DEF IngestSpec
-----------------------------------------------------------------------------
(* Authentication and authorization.                                       *)

\* What the configuration, the tables and the request are.
Shapes ==
  /\ auth \in AuthConfigs
  /\ status \in [Tenants -> {"active", "suspended"}]
  /\ members \in [Tenants -> Roles \cup {""}]
  /\ AccessTypeOK
  /\ stage # "idle" => credential \in Tokens /\ hint \in Hints /\ route \in Routes
  /\ route = "tenants" => hint = ""
  /\ adminErr \in {"", "unauthenticated", "scope", "unavailable"}

\* The histories contain the present.
Remembers == stage # "idle" => Memberships \subseteq owned /\ ActiveTenants \subseteq activeSeen

\* The tenant of the identity is its own.
Owns ==
  \/ id.method = "api_key" /\ credential.tenant = id.tenant
  \/ id.method = "jwt" /\ credential.claim = id.tenant /\ credential.user = "ok"
  \/ id.method = "oidc" /\ id.admin
  \/ id.method = "oidc" /\ auth.trust /\ credential.claim = id.tenant /\ id.role = ""
  \/ id.method = "oidc" /\ <<id.tenant, id.role>> \in owned

\* A tenant has been chosen for the identity.
Chosen ==
  /\ hint \in {"", id.tenant} /\ Owns
  /\ id.method = "api_key" => id.scope = credential.scope /\ id.scope \in Scopes
  /\ id.method \in {"api_key", "jwt"} => id.role = "" /\ ~ id.admin

\* What each place of the request knows of the identity.
Places ==
  /\ stage = "verify_admin" => OwnVerifier
  /\ stage \in {"idle", "apikey", "jwt", "verify_admin", "verify_user"} => id = Nobody
  /\ stage \in {"select", "select_admin", "resolve", "list"} => id.method = "oidc"
  /\ stage = "select_admin" => id.admin
  /\ stage = "list" => route = "tenants"
  /\ stage \in {"resolve", "authorize"} \/ Granted => Chosen
  /\ stage = "authorize" \/ Granted => id.tenant \in activeSeen
  /\ Granted => Allowed
  /\ response # "" => stage = "done"

\* An administrator's identity is verified.
AdminVerified == id.admin =>
  /\ auth.server = "metrics" /\ "oidc" \in auth.methods /\ credential.recognised
  /\ IF auth.admin = "own" THEN credential.admin = "ok"
     ELSE auth.admin = "same" /\ credential.user = "ok"

\* Where an outage can still be behind the request.
OutageKnown ==
  /\ stage \in {"idle", "apikey", "jwt", "verify_admin"} => ~ outage
  /\ stage = "verify_user" /\ outage => adminErr = "unavailable"
  /\ OutageIsNot401

\* The inductive invariant of a request.
AccessInv == Shapes /\ Remembers /\ Places /\ AdminVerified /\ OutageKnown

\* Nobody is an identity, and has nothing.
LEMMA NobodyShape ==
  /\ Nobody \in Identities /\ ~ Nobody.admin /\ Nobody.role = "" /\ Nobody.scope = ""
  BY Zenon DEF Nobody, Identities, Roles

\* Only an unauthenticated credential is answered with 401, and no error with
\* 200 (writeAuthError, httpStatusForAuthError).
LEMMA StatusOfError == ASSUME NEW err \in Errors
  PROVE  /\ HTTPStatus(err) \in {"400", "401", "403", "500", "503"}
         /\ HTTPStatus(err) = "401" => err = "unauthenticated"
  BY Zenon DEF HTTPStatus, Errors

\* The environment of the request is as it was.
Still == UNCHANGED <<auth, status, members, credential, hint, route, owned, activeSeen>>

\* A refusal forgets the identity, and says 401 only if no outage was met.
LEMMA RefuseKeeps ==
  ASSUME AccessInv, Still, NEW err \in Errors, writeAuthError(err), stage # "idle",
         adminErr' \in {"", "unauthenticated", "scope", "unavailable"},
         err = "unauthenticated" => ~ outage'
  PROVE  AccessInv'
<1>1. /\ stage' = "done" /\ id' = Nobody
      /\ response' \in {"400", "401", "403", "500", "503"}
      /\ response' = "401" => err = "unauthenticated"
  BY StatusOfError, Zenon DEF writeAuthError, Respond
<1>2. Shapes'
  <2>1. AccessTypeOK'
    BY <1>1, NobodyShape, Zenon DEF AccessInv, Shapes, AccessTypeOK, Still, Identities
  <2> QED
    BY <1>1, <2>1, Zenon DEF AccessInv, Shapes, Still, Hints, Routes
<1>3. Remembers'
  BY Zenon DEF AccessInv, Remembers, Still, Memberships, ActiveTenants
<1>4. Places'
  BY <1>1, Zenon DEF Places, Granted
<1>5. AdminVerified'
  BY <1>1, NobodyShape, Zenon DEF AdminVerified
<1>6. OutageKnown'
  BY <1>1, Zenon DEF OutageKnown, OutageIsNot401
<1> QED
  BY <1>2, <1>3, <1>4, <1>5, <1>6, Zenon DEF AccessInv

\* Operators change the tables, and the histories with them.
LEMMA OperatorKeeps == ASSUME AccessInv, Operator PROVE AccessInv'
<1>1. /\ Change
      /\ status' \in [Tenants -> {"active", "suspended"}]
      /\ members' \in [Tenants -> Roles \cup {""}]
  BY Zenon DEF Operator, AddMember, RemoveMember, SetStatus, RevokeAPIKey, AccessInv, Shapes, Roles
<1>2. /\ stage \notin {"idle", "done"} /\ UNCHANGED <<auth, stage, credential, hint, route, id, adminErr, response, outage>>
      /\ owned \subseteq owned' /\ activeSeen \subseteq activeSeen'
  BY <1>1, Zenon DEF Change, request
<1>3. Remembers'
  BY <1>1, Zenon DEF Change, Remembers, Memberships, ActiveTenants
<1>4. Shapes'
  <2>1. auth' = auth /\ stage' = stage /\ response' = response /\ id' = id /\ AccessTypeOK
    BY <1>2, Zenon DEF AccessInv, Shapes
  <2>2. AccessTypeOK'
    BY <2>1, Zenon DEF AccessTypeOK
  <2> QED
    BY <1>1, <1>2, <2>2, Zenon DEF AccessInv, Shapes, Hints, Routes
<1>5. Places'
  <2>1. ~ Granted /\ ~ Granted'
    BY <1>2, Zenon DEF AccessInv, Places, Granted
  <2>2. Chosen => Chosen'
    BY <1>2, Zenon DEF Chosen, Owns, Scopes
  <2> QED
    BY <1>2, <2>1, <2>2, Zenon DEF AccessInv, Places, OwnVerifier, HasAdmin
<1>6. AdminVerified' /\ OutageKnown'
  BY <1>2, Zenon DEF AccessInv, AdminVerified, OutageKnown, OutageIsNot401
<1> QED
  BY <1>3, <1>4, <1>5, <1>6, Zenon DEF AccessInv

\* The first step of AuthenticateForTenant picks the method, and refuses a
\* credential of none.
LEMMA ArriveKeeps ==
  ASSUME AccessInv, NEW t \in Tokens, NEW h \in Hints, NEW r \in Routes, Arrive(t, h, r)
  PROVE  AccessInv'
<1>1. /\ UNCHANGED <<auth, status, members>>
      /\ credential' = t /\ hint' = h /\ route' = r /\ adminErr' = "" /\ (r = "tenants" => h = "")
      /\ owned' = Memberships /\ activeSeen' = ActiveTenants /\ outage' = FALSE /\ id' = Nobody
  BY Zenon DEF Arrive, database
<1>2. \/ stage' = "done" /\ response' \in {"400", "401", "403", "500", "503"}
      \/ stage' \in {"apikey", "jwt", "verify_user"} /\ response' = ""
      \/ stage' = "verify_admin" /\ response' = "" /\ OwnVerifier
  <2>1. t.form \in {"empty", "key", "hs256", "asymmetric", "other_alg", "opaque"}
    BY AccessAssumption, Zenon DEF TokenSpace
  <2>2. Dispatch(t) \in {"unauthenticated", "apikey", "jwt", "oidc"}
    BY <2>1, Zenon DEF Dispatch
  <2>3. \/ AfterDispatch(t) \in {"unauthenticated", "apikey", "jwt", "verify_user"}
        \/ AfterDispatch(t) = "verify_admin" /\ OwnVerifier
    BY <2>2, Zenon DEF AfterDispatch, AdminFirst
  <2>4. CASE AfterDispatch(t) = "unauthenticated"
    BY <2>4, StatusOfError, Zenon DEF Arrive, Respond, Errors
  <2>5. CASE AfterDispatch(t) # "unauthenticated"
    BY <2>3, <2>5, Zenon DEF Arrive
  <2> QED BY <2>4, <2>5
<1>3. Shapes'
  <2>1. AccessTypeOK'
    BY <1>1, <1>2, NobodyShape, Zenon DEF AccessInv, Shapes, AccessTypeOK, Identities
  <2> QED
    BY <1>1, <1>2, <2>1, Zenon DEF AccessInv, Shapes, Hints, Routes
<1>4. Remembers'
  BY <1>1, Zenon DEF Remembers, Memberships, ActiveTenants
<1>5. Places'
  BY <1>1, <1>2, Zenon DEF Places, Granted, OwnVerifier, HasAdmin
<1>6. AdminVerified'
  BY <1>1, NobodyShape, Zenon DEF AdminVerified
<1>7. OutageKnown'
  BY <1>1, Zenon DEF OutageKnown, OutageIsNot401
<1> QED
  BY <1>3, <1>4, <1>5, <1>6, <1>7, Zenon DEF AccessInv

\* The answer is not given yet.
LEMMA NoAnswerYet == ASSUME AccessInv, stage # "done" PROVE response = "" /\ ~ Granted
  BY Zenon DEF AccessInv, Places, Granted

\* An identity that names its own tenant goes on to that tenant or is refused.
LEMMA BoundKeeps ==
  ASSUME AccessInv, Still, UNCHANGED <<adminErr, outage>>, stage \in {"apikey", "jwt"},
         NEW i \in Identities, Bound(i), i.tenant \in Tenants, i.tenant \in activeSeen,
         i.role = "", ~ i.admin,
         \/ i.method = "api_key" /\ i.tenant = credential.tenant /\ i.scope = credential.scope /\ i.scope \in Scopes
         \/ i.method = "jwt" /\ i.tenant = credential.claim /\ credential.user = "ok"
  PROVE  AccessInv'
<1>1. CASE route # "tenants" /\ hint # "" /\ hint # i.tenant
  BY <1>1, RefuseKeeps, Zenon DEF Bound, AccessInv, Shapes, Errors
<1>2. CASE ~ (route # "tenants" /\ hint # "" /\ hint # i.tenant)
  <2>1. stage' = "authorize" /\ id' = i /\ response' = response
    BY <1>2, Zenon DEF Bound
  <2>2. response = "" /\ hint \in {"", i.tenant}
    BY <1>2, NoAnswerYet, Zenon DEF AccessInv, Shapes
  <2>3. Shapes'
    <3>1. AccessTypeOK'
      BY <2>1, Zenon DEF AccessInv, Shapes, AccessTypeOK, Still, Identities
    <3> QED
      BY <2>1, <3>1, Zenon DEF AccessInv, Shapes, Still, Hints, Routes
  <2>4. Remembers'
    BY Zenon DEF AccessInv, Remembers, Still, Memberships, ActiveTenants
  <2>5. Places'
    <3>1. Chosen'
      BY <2>1, <2>2, Zenon DEF Chosen, Owns, Still, Scopes
    <3> QED
      BY <2>1, <2>2, <3>1, Zenon DEF Places, Granted, Still
  <2>6. AdminVerified'
    BY <2>1, Zenon DEF AdminVerified
  <2>7. OutageKnown'
    BY <2>1, <2>2, Zenon DEF AccessInv, OutageKnown, OutageIsNot401
  <2> QED
    BY <2>3, <2>4, <2>5, <2>6, <2>7, Zenon DEF AccessInv
<1> QED BY <1>1, <1>2

\* A stored key that is not revoked, of an active tenant.
LEMMA APIKeyKeeps == ASSUME AccessInv, authenticateAPIKey PROVE AccessInv'
<1>1. stage = "apikey" /\ Still /\ UNCHANGED <<adminErr, outage>>
  BY Zenon DEF authenticateAPIKey, Still, database, history
<1>2. ~ outage /\ adminErr \in {"", "unauthenticated", "scope", "unavailable"}
  BY <1>1, Zenon DEF AccessInv, OutageKnown, Shapes
<1>3. CASE "api_key" \notin auth.methods \/ ~ KeyFound
  <2>1. writeAuthError("unauthenticated")
    BY <1>3, Zenon DEF authenticateAPIKey
  <2> QED
    BY <1>1, <1>2, <2>1, RefuseKeeps, Zenon DEF Errors
<1>4. CASE "api_key" \in auth.methods /\ KeyFound /\ status[credential.tenant] # "active"
  <2>1. writeAuthError("suspended")
    BY <1>4, Zenon DEF authenticateAPIKey
  <2> QED
    BY <1>1, <1>2, <2>1, RefuseKeeps, Zenon DEF Errors
<1>5. CASE "api_key" \in auth.methods /\ KeyFound /\ status[credential.tenant] = "active"
  <2> DEFINE i == [Nobody EXCEPT !.method = "api_key", !.tenant = credential.tenant, !.scope = credential.scope]
  <2>1. Bound(i)
    BY <1>5, Zenon DEF authenticateAPIKey
  <2>2. credential \in Tokens /\ credential.scope \in Scopes
    BY <1>1, <1>5, Zenon DEF KeyFound, AccessInv, Shapes
  <2>3. credential.tenant \in Tenants /\ credential.tenant \in activeSeen
    <3>1. credential.tenant \in Tenants
      BY <2>2, AccessAssumption, Zenon DEF Scopes
    <3> QED
      BY <1>1, <1>5, <3>1, Zenon DEF AccessInv, Remembers, ActiveTenants
  <2>4. /\ i \in Identities /\ i.method = "api_key" /\ i.tenant = credential.tenant /\ i.scope = credential.scope
        /\ i.role = "" /\ ~ i.admin
    BY <2>2, <2>3, Zenon DEF Nobody, Identities, Scopes, Roles
  <2> HIDE DEF i
  <2> QED
    BY <1>1, <2>1, <2>2, <2>3, <2>4, BoundKeeps, Zenon
<1> QED BY <1>3, <1>4, <1>5

\* A signed token whose claim names an active tenant.
LEMMA JWTKeeps == ASSUME AccessInv, authenticateJWT PROVE AccessInv'
<1>1. stage = "jwt" /\ Still /\ UNCHANGED <<adminErr, outage>>
  BY Zenon DEF authenticateJWT, Still, database, history
<1>2. ~ outage /\ adminErr \in {"", "unauthenticated", "scope", "unavailable"}
  BY <1>1, Zenon DEF AccessInv, OutageKnown, Shapes
<1>3. CASE credential.user # "ok" \/ credential.claim \notin Tenants
  <2>1. writeAuthError("unauthenticated")
    BY <1>3, Zenon DEF authenticateJWT
  <2> QED
    BY <1>1, <1>2, <2>1, RefuseKeeps, Zenon DEF Errors
<1>4. CASE credential.user = "ok" /\ credential.claim \in Tenants /\ status[credential.claim] # "active"
  <2>1. writeAuthError("suspended")
    BY <1>4, Zenon DEF authenticateJWT
  <2> QED
    BY <1>1, <1>2, <2>1, RefuseKeeps, Zenon DEF Errors
<1>5. CASE credential.user = "ok" /\ credential.claim \in Tenants /\ status[credential.claim] = "active"
  <2> DEFINE i == [Nobody EXCEPT !.method = "jwt", !.tenant = credential.claim]
  <2>1. Bound(i)
    BY <1>5, Zenon DEF authenticateJWT
  <2>2. credential.claim \in activeSeen
    BY <1>1, <1>5, Zenon DEF AccessInv, Remembers, ActiveTenants
  <2>3. i \in Identities /\ i.method = "jwt" /\ i.tenant = credential.claim /\ i.role = "" /\ ~ i.admin
    BY <1>5, Zenon DEF Nobody, Identities, Roles
  <2> HIDE DEF i
  <2> QED
    BY <1>1, <1>5, <2>1, <2>2, <2>3, BoundKeeps, Zenon
<1> QED BY <1>3, <1>4, <1>5

\* A verifier has accepted the token: the request goes on as its subject.
LEMMA VerifiedKeeps ==
  ASSUME AccessInv, Still, NEW r \in BOOLEAN, Verified(r), stage \notin {"idle", "done"},
         adminErr' \in {"", "unauthenticated", "scope", "unavailable"},
         r => /\ auth.server = "metrics" /\ "oidc" \in auth.methods /\ credential.recognised
              /\ IF auth.admin = "own" THEN credential.admin = "ok"
                 ELSE auth.admin = "same" /\ credential.user = "ok"
  PROVE  AccessInv'
<1>1. response' = response /\ response = ""
  BY NoAnswerYet, Zenon DEF Verified
<1>2. \/ stage' = "list" /\ route = "tenants"
      \/ stage' = "select_admin" /\ r
      \/ stage' = "select"
  BY Zenon DEF Verified
<1>3. id' \in Identities /\ id'.method = "oidc" /\ id'.admin = r
  <2>1. roleFor \in Roles
    <3>1. auth.adminRole \in Roles
      BY AccessAssumption, Zenon DEF AccessInv, Shapes, ConfigSpace
    <3> QED BY <3>1 DEF roleFor
  <2> QED
    BY <2>1, Zenon DEF Verified, Subject, Nobody, Identities
<1>4. Shapes'
  <2>1. AccessTypeOK'
    BY <1>1, <1>2, <1>3, Zenon DEF AccessInv, Shapes, AccessTypeOK, Still, Identities
  <2> QED
    BY <1>1, <1>2, <2>1, Zenon DEF AccessInv, Shapes, Still, Hints, Routes
<1>5. Remembers'
  BY Zenon DEF AccessInv, Remembers, Still, Memberships, ActiveTenants
<1>6. Places'
  BY <1>1, <1>2, <1>3, Zenon DEF Places, Granted, Still
<1>7. AdminVerified'
  BY <1>3, Zenon DEF AdminVerified, Still
<1>8. OutageKnown'
  BY <1>1, <1>2, Zenon DEF OutageKnown, OutageIsNot401
<1> QED
  BY <1>4, <1>5, <1>6, <1>7, <1>8, Zenon DEF AccessInv

\* The rule of administrators applies to a token their own verifier accepted;
\* its failure is kept, and never hides an outage.
LEMMA VerifyAdminKeeps == ASSUME AccessInv, VerifyAdmin PROVE AccessInv'
<1>1. PICK v \in Verdicts(credential.admin) :
        /\ outage' = (outage \/ v = "unavailable")
        /\ adminErr' = IF v = "ok" THEN "" ELSE AsError(v)
        /\ IF v = "ok" /\ credential.recognised THEN Verified(TRUE)
           ELSE IF credential.form = "opaque" /\ ~ auth.userIntro
             THEN IF adminErr' \notin {"", "unauthenticated"} THEN writeAuthError(adminErr')
                  ELSE stage' = "apikey" /\ UNCHANGED <<id, response>>
           ELSE stage' = "verify_user" /\ UNCHANGED <<id, response>>
  BY Zenon DEF VerifyAdmin
<1>2. stage = "verify_admin" /\ Still
  BY Zenon DEF VerifyAdmin, Still, database
<1>3. ~ outage /\ OwnVerifier /\ id = Nobody /\ response = "" /\ credential \in Tokens
  BY <1>2, NoAnswerYet, Zenon DEF AccessInv, OutageKnown, Places, Shapes
<1>4. v \in {"ok", "invalid", "scope", "unavailable"}
  BY <1>3, AccessAssumption, Zenon DEF Verdicts, TokenSpace
<1>5. /\ adminErr' \in {"", "unauthenticated", "scope", "unavailable"}
      /\ outage' => adminErr' = "unavailable"
  BY <1>1, <1>3, <1>4, Zenon DEF AsError
<1>6. CASE v = "ok" /\ credential.recognised
  <2>1. Verified(TRUE)
    BY <1>1, <1>6, Zenon
  <2>2. /\ auth.server = "metrics" /\ "oidc" \in auth.methods /\ auth.admin = "own"
        /\ credential.admin = "ok"
    BY <1>1, <1>3, <1>6, Zenon DEF OwnVerifier, HasAdmin, Verdicts
  <2> QED
    BY <1>2, <1>5, <1>6, <2>1, <2>2, VerifiedKeeps, Zenon
<1>7. CASE writeAuthError(adminErr') /\ adminErr' \notin {"", "unauthenticated"}
  BY <1>2, <1>5, <1>7, RefuseKeeps, Zenon DEF Errors
<1>8. CASE stage' \in {"apikey", "verify_user"} /\ UNCHANGED <<id, response>>
           /\ (stage' = "apikey" => adminErr' \in {"", "unauthenticated"})
  <2>1. Shapes'
    <3>1. AccessTypeOK'
      BY <1>2, <1>8, Zenon DEF AccessInv, Shapes, AccessTypeOK, Still
    <3> QED
      BY <1>2, <1>5, <1>8, <3>1, Zenon DEF AccessInv, Shapes, Still, Hints, Routes
  <2>2. Remembers'
    BY <1>2, Zenon DEF AccessInv, Remembers, Still, Memberships, ActiveTenants
  <2>3. Places'
    BY <1>3, <1>8, Zenon DEF Places, Granted
  <2>4. AdminVerified'
    BY <1>3, <1>8, NobodyShape, Zenon DEF AdminVerified
  <2>5. OutageKnown'
    BY <1>3, <1>5, <1>8, Zenon DEF OutageKnown, OutageIsNot401
  <2> QED
    BY <2>1, <2>2, <2>3, <2>4, <2>5, Zenon DEF AccessInv
<1> QED BY <1>1, <1>6, <1>7, <1>8

\* The user verifier's token, an administrator's if they have no other
\* verifier; its refusal gives way to an outage of theirs (preferAdminErr).
LEMMA VerifyUserKeeps == ASSUME AccessInv, VerifyUser PROVE AccessInv'
<1>1. PICK v \in Verdicts(credential.user) :
        /\ outage' = (outage \/ v = "unavailable")
        /\ IF v = "ok" THEN Verified(Recognised) ELSE writeAuthError(preferAdminErr(AsError(v)))
  BY Zenon DEF VerifyUser
<1>2. stage = "verify_user" /\ Still /\ adminErr' = adminErr
  BY Zenon DEF VerifyUser, Still, database
<1>3. /\ adminErr \in {"", "unauthenticated", "scope", "unavailable"}
      /\ outage => adminErr = "unavailable"
      /\ credential \in Tokens /\ auth \in AuthConfigs
  BY <1>2, Zenon DEF AccessInv, OutageKnown, Shapes
<1>4. v \in {"ok", "invalid", "scope", "unavailable"}
  BY <1>3, AccessAssumption, Zenon DEF Verdicts, TokenSpace
<1>5. CASE v = "ok"
  <2>1. Verified(Recognised)
    BY <1>1, <1>5, Zenon
  <2>2. credential.recognised \in BOOLEAN /\ auth.admin \in {"off", "same", "own"}
    BY <1>3, AccessAssumption, Zenon DEF TokenSpace, ConfigSpace
  <2>3. Recognised \in BOOLEAN
    BY <2>2, Zenon DEF Recognised, HasAdmin, OwnVerifier
  <2>4. Recognised =>
          /\ auth.server = "metrics" /\ "oidc" \in auth.methods /\ credential.recognised
          /\ auth.admin = "same" /\ credential.user = "ok"
    BY <1>1, <1>5, <2>2, Zenon DEF Recognised, HasAdmin, OwnVerifier, Verdicts
  <2> QED
    BY <1>2, <1>3, <2>1, <2>3, <2>4, VerifiedKeeps, Zenon
<1>6. CASE v # "ok"
  <2> DEFINE err == preferAdminErr(AsError(v))
  <2>1. writeAuthError(err)
    BY <1>1, <1>6, Zenon
  <2>2. err \in Errors /\ (err = "unauthenticated" => ~ outage')
    BY <1>1, <1>3, <1>4, <1>6, Zenon DEF preferAdminErr, AsError, Errors
  <2> HIDE DEF err
  <2> QED
    BY <1>2, <1>3, <2>1, <2>2, RefuseKeeps, Zenon
<1> QED BY <1>5, <1>6

\* A tenant is chosen for the subject of a verified token.
LEMMA ResolveKeeps ==
  ASSUME AccessInv, Still, UNCHANGED <<adminErr, outage>>, stage \in {"select", "select_admin"},
         NEW t \in Tenants, NEW r \in Roles \cup {""}, Resolve(t, r), hint \in {"", t},
         \/ id.admin
         \/ auth.trust /\ credential.claim = t /\ r = ""
         \/ <<t, r>> \in owned
  PROVE  AccessInv'
<1>1. stage' = "resolve" /\ id' = [id EXCEPT !.tenant = t, !.role = r] /\ response' = response /\ response = ""
  BY NoAnswerYet, Zenon DEF Resolve
<1>2. id \in Identities /\ id.method = "oidc"
  BY Zenon DEF AccessInv, Shapes, AccessTypeOK, Places
<1>3. /\ id' \in Identities /\ id'.method = "oidc" /\ id'.tenant = t /\ id'.role = r
      /\ id'.admin = id.admin
  BY <1>1, <1>2, Zenon DEF Identities
<1>4. Shapes'
  <2>1. AccessTypeOK'
    BY <1>1, <1>3, Zenon DEF AccessInv, Shapes, AccessTypeOK, Still
  <2> QED
    BY <1>1, <2>1, Zenon DEF AccessInv, Shapes, Still, Hints, Routes
<1>5. Remembers'
  BY Zenon DEF AccessInv, Remembers, Still, Memberships, ActiveTenants
<1>6. Places'
  <2>1. Chosen'
    BY <1>3, Zenon DEF Chosen, Owns, Still
  <2> QED
    BY <1>1, <1>3, <2>1, Zenon DEF Places, Granted
<1>7. AdminVerified'
  BY <1>3, Zenon DEF AccessInv, AdminVerified, Still
<1>8. OutageKnown'
  BY <1>1, Zenon DEF OutageKnown, OutageIsNot401
<1> QED
  BY <1>4, <1>5, <1>6, <1>7, <1>8, Zenon DEF AccessInv

\* selectTenant chooses the trusted claim or a membership that the hint allows.
LEMMA SelectKeeps == ASSUME AccessInv, selectTenant PROVE AccessInv'
<1>1. stage = "select" /\ Still /\ UNCHANGED <<adminErr, outage>>
  BY Zenon DEF selectTenant, Still, database, history
<1>2. adminErr \in {"", "unauthenticated", "scope", "unavailable"}
  BY Zenon DEF AccessInv, Shapes
<1>3. CASE writeAuthError("no_access") \/ writeAuthError("tenant_required")
  BY <1>1, <1>2, <1>3, RefuseKeeps, Zenon DEF Errors
<1>4. CASE credential.claim \in Tenants /\ auth.trust /\ hint \in {"", credential.claim} /\ Resolve(credential.claim, "")
  BY <1>1, <1>4, ResolveKeeps, Zenon
<1>5. ASSUME NEW c \in Choices, Resolve(c[1], c[2]) PROVE AccessInv'
  <2>1. c \in Memberships /\ hint \in {"", c[1]}
    BY Zenon DEF Choices
  <2>2. c[1] \in Tenants /\ c[2] \in Roles \cup {""} /\ c = <<c[1], c[2]>>
    <3>1. PICK t \in Tenants : c = <<t, members[t]>>
      BY <2>1, Zenon DEF Memberships
    <3>2. members[t] \in Roles \cup {""}
      BY Zenon DEF AccessInv, Shapes
    <3> QED
      BY <3>1, <3>2, Zenon
  <2>3. c \in owned
    BY <1>1, <2>1, Zenon DEF AccessInv, Remembers
  <2> QED
    BY <1>1, <1>5, <2>1, <2>2, <2>3, ResolveKeeps, Zenon
<1> QED
  BY <1>3, <1>4, <1>5, Zenon DEF selectTenant

\* An administrator's tenant is the hinted one, or the only active one.
LEMMA SelectAdminKeeps == ASSUME AccessInv, selectAdminTenant PROVE AccessInv'
<1>1. stage = "select_admin" /\ Still /\ UNCHANGED <<adminErr, outage>>
  BY Zenon DEF selectAdminTenant, Still, database, history
<1>2. /\ adminErr \in {"", "unauthenticated", "scope", "unavailable"}
      /\ id.role \in Roles \cup {""} /\ id.admin /\ hint \in Hints
  BY <1>1, Zenon DEF AccessInv, Shapes, AccessTypeOK, Identities, Places
<1>3. CASE writeAuthError("no_access") \/ writeAuthError("tenant_required")
  BY <1>1, <1>2, <1>3, RefuseKeeps, Zenon DEF Errors
<1>4. CASE hint \notin {"", "bad"} /\ Resolve(hint, id.role)
  <2>1. hint \in Tenants
    BY <1>2, <1>4, Zenon DEF Hints
  <2> QED
    BY <1>1, <1>2, <1>4, <2>1, ResolveKeeps, Zenon
<1>5. ASSUME NEW t \in ActiveTenants, hint = "", Resolve(t, id.role) PROVE AccessInv'
  BY <1>1, <1>2, <1>5, ResolveKeeps, Zenon DEF ActiveTenants
<1> QED
  BY <1>3, <1>4, <1>5, Zenon DEF selectAdminTenant

\* A step within the request that leaves its identity alone.
LEMMA GoesOn ==
  ASSUME AccessInv, Still, UNCHANGED <<adminErr, outage, id>>, stage \in {"resolve", "authorize", "list"},
         \/ stage = "resolve" /\ stage' = "authorize" /\ response' = response
         \/ stage' = "done" /\ response' \in {"200", "403"}
  PROVE  Shapes' /\ Remembers' /\ AdminVerified' /\ OutageKnown'
<1>1. response = ""
  BY NoAnswerYet, Zenon
<1>2. Shapes'
  <2>1. AccessTypeOK'
    BY <1>1, Zenon DEF AccessInv, Shapes, AccessTypeOK, Still
  <2> QED
    BY <2>1, Zenon DEF AccessInv, Shapes, Still, Hints, Routes
<1>3. Remembers'
  BY Zenon DEF AccessInv, Remembers, Still, Memberships, ActiveTenants
<1>4. AdminVerified'
  BY Zenon DEF AccessInv, AdminVerified, Still
<1>5. OutageKnown'
  BY <1>1, Zenon DEF OutageKnown, OutageIsNot401
<1> QED BY <1>2, <1>3, <1>4, <1>5

\* ResolveByTenantID: the chosen tenant is active.
LEMMA ResolveTenantKeeps == ASSUME AccessInv, resolveTenant PROVE AccessInv'
<1>1. stage = "resolve" /\ Still /\ UNCHANGED <<adminErr, outage>>
  BY Zenon DEF resolveTenant, Still, database, history
<1>2. /\ adminErr \in {"", "unauthenticated", "scope", "unavailable"}
      /\ id.tenant \in Tenants /\ Chosen /\ response = ""
  BY <1>1, NoAnswerYet, Zenon DEF AccessInv, Shapes, AccessTypeOK, Places
<1>3. CASE ~ Usable(id.tenant)
  <2>1. writeAuthError(IF id.admin THEN "no_access" ELSE "suspended")
    BY <1>3, Zenon DEF resolveTenant
  <2>2. CASE id.admin
    BY <1>1, <1>2, <2>1, <2>2, RefuseKeeps, Zenon DEF Errors
  <2>3. CASE ~ id.admin
    BY <1>1, <1>2, <2>1, <2>3, RefuseKeeps, Zenon DEF Errors
  <2> QED BY <2>2, <2>3
<1>4. CASE Usable(id.tenant)
  <2>1. stage' = "authorize" /\ UNCHANGED <<id, response>>
    BY <1>4, Zenon DEF resolveTenant
  <2>2. id.tenant \in activeSeen
    BY <1>1, <1>2, <1>4, Zenon DEF AccessInv, Remembers, ActiveTenants, Usable
  <2>3. Places'
    <3>1. Chosen'
      BY <1>1, <1>2, <2>1, Zenon DEF Chosen, Owns, Still, Scopes
    <3> QED
      BY <1>1, <1>2, <2>1, <2>2, <3>1, Zenon DEF Places, Granted, Still
  <2> QED
    BY <1>1, <2>1, <2>3, GoesOn, Zenon DEF AccessInv
<1> QED BY <1>3, <1>4

\* The route's access rule answers.
LEMMA AuthorizeKeeps == ASSUME AccessInv, Authorize PROVE AccessInv'
<1>1. /\ stage = "authorize" /\ Still /\ UNCHANGED <<adminErr, outage, id>>
      /\ stage' = "done" /\ response' = IF Allowed THEN "200" ELSE "403"
  BY Zenon DEF Authorize, Respond, Still, database, history
<1>2. Chosen /\ id.tenant \in activeSeen
  BY <1>1, Zenon DEF AccessInv, Places
<1>3. Places'
  <2>1. Chosen'
    BY <1>1, <1>2, Zenon DEF Chosen, Owns, Still, Scopes
  <2>2. Granted' => Allowed'
    BY <1>1, Zenon DEF Granted, Allowed, isCatalogKey, Still
  <2> QED
    BY <1>1, <1>2, <2>1, <2>2, Zenon DEF Places, Still
<1> QED
  BY <1>1, <1>3, GoesOn, Zenon DEF AccessInv

\* GET /v1/tenants answers with no tenant chosen.
LEMMA TenantsKeeps == ASSUME AccessInv, handleTenants PROVE AccessInv'
<1>1. /\ stage = "list" /\ Still /\ UNCHANGED <<adminErr, outage, id>>
      /\ stage' = "done" /\ response' = "200"
  BY Zenon DEF handleTenants, Respond, Still, database, history
<1>2. route = "tenants"
  BY <1>1, Zenon DEF AccessInv, Places
<1>3. Places'
  BY <1>1, <1>2, Zenon DEF Places, Granted, Still
<1> QED
  BY <1>1, <1>3, GoesOn, Zenon DEF AccessInv

\* The reply forgets the request.
LEMMA ReplyKeeps == ASSUME AccessInv, Replied PROVE AccessInv'
<1>1. /\ stage' = "idle" /\ hint' = "" /\ route' = "none" /\ id' = Nobody /\ adminErr' = "" /\ response' = ""
      /\ outage' = FALSE /\ UNCHANGED <<auth, status, members>>
  BY Zenon DEF Replied, database
<1>2. Shapes'
  <2>1. AccessTypeOK'
    BY <1>1, NobodyShape, Zenon DEF AccessInv, Shapes, AccessTypeOK
  <2> QED
    BY <1>1, <2>1, Zenon DEF AccessInv, Shapes
<1>3. Remembers' /\ Places' /\ OutageKnown'
  BY <1>1, Zenon DEF Remembers, Places, Granted, OutageKnown, OutageIsNot401
<1>4. AdminVerified'
  BY <1>1, NobodyShape, Zenon DEF AdminVerified
<1> QED
  BY <1>2, <1>3, <1>4, Zenon DEF AccessInv

\* Every step of a request, of an operator or of the provider keeps it.
LEMMA AccessStep == AccessInv /\ [AccessNext]_accessVars => AccessInv'
<1> SUFFICES ASSUME AccessInv, [AccessNext]_accessVars PROVE AccessInv'
  OBVIOUS
<1>1. CASE UNCHANGED accessVars
  <2>1. /\ UNCHANGED <<auth, status, members, stage, credential, hint, route, id>>
        /\ UNCHANGED <<adminErr, response, owned, activeSeen, outage>>
    BY <1>1, Zenon DEF accessVars, database, request, history
  <2>2. Shapes'
    <3>1. AccessTypeOK'
      BY <2>1, Zenon DEF AccessInv, Shapes, AccessTypeOK
    <3> QED
      BY <2>1, <3>1, Zenon DEF AccessInv, Shapes, Hints, Routes
  <2>3. Remembers' /\ AdminVerified' /\ OutageKnown'
    BY <2>1, Zenon DEF AccessInv, Remembers, Memberships, ActiveTenants, AdminVerified, OutageKnown, OutageIsNot401
  <2>4. Places'
    BY <2>1 DEF AccessInv, Places, Granted, Chosen, Owns, Scopes, Allowed, isCatalogKey, OwnVerifier, HasAdmin
  <2> QED
    BY <2>2, <2>3, <2>4, Zenon DEF AccessInv
<1>2. CASE Operator
  BY <1>2, OperatorKeeps, Zenon
<1>3. ASSUME NEW t \in Tokens, NEW h \in Hints, NEW r \in Routes, Arrive(t, h, r) PROVE AccessInv'
  BY <1>3, ArriveKeeps, Zenon
<1>4. CASE authenticateAPIKey \/ authenticateJWT
  BY <1>4, APIKeyKeeps, JWTKeeps, Zenon
<1>5. CASE VerifyAdmin \/ VerifyUser
  BY <1>5, VerifyAdminKeeps, VerifyUserKeeps, Zenon
<1>6. CASE selectTenant \/ selectAdminTenant
  BY <1>6, SelectKeeps, SelectAdminKeeps, Zenon
<1>7. CASE resolveTenant \/ Authorize \/ handleTenants
  BY <1>7, ResolveTenantKeeps, AuthorizeKeeps, TenantsKeeps, Zenon
<1>8. CASE LookupFails
  <2>1. writeAuthError("internal") /\ stage # "idle" /\ Still /\ UNCHANGED adminErr
    BY <1>8, Zenon DEF LookupFails, Still, database, history
  <2>2. adminErr \in {"", "unauthenticated", "scope", "unavailable"}
    BY Zenon DEF AccessInv, Shapes
  <2> QED
    BY <2>1, <2>2, RefuseKeeps, Zenon DEF Errors
<1>9. CASE Replied
  BY <1>9, ReplyKeeps, Zenon
<1> QED
  BY <1>1, <1>2, <1>3, <1>4, <1>5, <1>6, <1>7, <1>8, <1>9, Zenon DEF AccessNext, Request

\* So it holds in every behaviour.
LEMMA AccessAlways == AccessSpec => []AccessInv
<1>1. AccessInit => AccessInv
  <2> SUFFICES ASSUME AccessInit PROVE AccessInv
    OBVIOUS
  <2>1. Shapes
    <3>1. AccessTypeOK
      BY NobodyShape, AccessAssumption, Zenon DEF AccessInit, AccessTypeOK
    <3> QED
      BY <3>1, Zenon DEF AccessInit, Shapes
  <2>2. Remembers /\ Places /\ OutageKnown
    BY Zenon DEF AccessInit, Remembers, Places, Granted, OutageKnown, OutageIsNot401
  <2>3. AdminVerified
    BY NobodyShape, Zenon DEF AccessInit, AdminVerified
  <2> QED
    BY <2>1, <2>2, <2>3, Zenon DEF AccessInv
<1> QED
  BY <1>1, AccessStep, PTL DEF AccessSpec

\* For any tenants, configurations and credentials, whatever operators change
\* meanwhile: a request reaches only a tenant that its verified identity owns,
\* that was active, and that the hint names if it names one
\* (AuthenticateForTenant, selectTenant, selectAdminTenant).
THEOREM TenantAlwaysOwned == AccessSpec => []TenantIsOwned
<1>1. AccessInv => TenantIsOwned
  BY Zenon DEF AccessInv, Places, Chosen, Owns, TenantIsOwned
<1> QED
  BY <1>1, AccessAlways, PTL

\* A 401 is never what an outage of a provider is reported as, the admin
\* provider's included (authenticateOIDC, preferAdminErr, writeAuthError).
THEOREM OutageNever401 == AccessSpec => []OutageIsNot401
<1>1. AccessInv => OutageIsNot401
  BY Zenon DEF AccessInv, OutageKnown
<1> QED
  BY <1>1, AccessAlways, PTL

\* An administrator was recognised and verified as configured, a key reaches
\* the routes of its scope only, and whoever else writes holds the admin role
\* (readOnlyAccess, catalogWriteAccess, layoutWriteAccess, roleFor).
THEOREM RightsAlwaysVerified == AccessSpec => []RightsAreVerified
<1>1. AccessInv => RightsAreVerified
  <2> SUFFICES ASSUME AccessInv PROVE RightsAreVerified
    OBVIOUS
  <2>1. ASSUME Granted
        PROVE  /\ Chosen /\ Allowed /\ route \in Routes
               /\ id.method \in {"none", "api_key", "jwt", "oidc"}
    BY <2>1, Zenon DEF AccessInv, Places, Granted, Shapes, AccessTypeOK, Identities
  <2>2. ASSUME Granted, id.method = "api_key"
        PROVE  <<route, credential.scope>> \in {<<"export", "public_ingest">>, <<"read", "metrics_query">>,
                                           <<"catalog", "metrics_admin">>}
    BY <2>1, <2>2, Zenon DEF Chosen, Allowed, isCatalogKey, Routes, Scopes
  <2>3. ASSUME Granted, route \in {"catalog", "layout"}, id.method # "api_key"
        PROVE  id.method = "oidc" /\ id.role = "admin" /\ (id.admin \/ <<id.tenant, "admin">> \in owned)
    BY <2>1, <2>3, Zenon DEF Chosen, Owns, Allowed, isCatalogKey
  <2> QED
    BY <2>2, <2>3, Zenon DEF RightsAreVerified, AccessInv, AdminVerified
<1> QED
  BY <1>1, AccessAlways, PTL
=============================================================================
