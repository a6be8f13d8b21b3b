---------------------------- MODULE VendorSeries ----------------------------
(***************************************************************************)
(* The queries over a vendor's counters, durations and values: a series,   *)
(* its labels and its groups (query_counters.go, query_measures.go,        *)
(* query_values.go, query_dims.go), and the percentiles estimated from     *)
(* histograms (measure_percentiles.go).                                    *)
(*                                                                         *)
(* An answer takes one SQL statement for each of its parts, outside a      *)
(* transaction, and data points arrive in between; so they do between the  *)
(* requests for two pages.  A data point is a histogram of what a process  *)
(* observed; its sum, and min and max, are optional.  A counter is the     *)
(* case where only counts are read.  The request's range and filters only  *)
(* choose the points, none of which leaves it by the retention meanwhile;  *)
(* it narrows the series to no label.                                      *)
(***************************************************************************)
EXTENDS Integers, Sequences, FiniteSets, FiniteSetsExt, SequencesExt

CONSTANTS
  DataPoints, \* time, metric, label, install, seen (a sequence), sums, extremes
  AllBounds,  \* MeasureBounds and ValueBounds
  Width,      \* ticks in a bucket of the series
  SeriesLimits, \* page sizes of requests
  DimKey,     \* the dimension that the request groups by
  MaxPoints,  \* bound: points recorded
  None,
  OtherLabel  \* the label that stands for all those past the cap

VARIABLES
  recorded,   \* the data points stored
  bounds,     \* the bounds of the metric that is asked for
  plan,       \* the statements of the answer that are still to run
  read        \* statement -> the points it saw

seriesVars == <<recorded, bounds, plan, read>>

\* The statements of a series' answer, and that of the series again in the
\* request for the next page.
SeriesPlan == <<"series", "labels", "groups", "next">>

SeriesInit(plans) ==
  /\ recorded = {} /\ bounds \in AllBounds
  /\ plan \in plans /\ read = [s \in {} |-> {}]

\* A point arrives before the answer is complete.
Record ==
  /\ Cardinality(recorded) < MaxPoints /\ plan # <<>>
  /\ \E p \in DataPoints \ recorded : recorded' = recorded \cup {p}
  /\ UNCHANGED <<bounds, plan, read>>

\* The next statement runs and sees what is stored by then.
Statement ==
  /\ plan # <<>>
  /\ read' = [s \in DOMAIN read \cup {Head(plan)} |->
               IF s = Head(plan) THEN recorded ELSE read[s]]
  /\ plan' = Tail(plan)
  /\ UNCHANGED <<recorded, bounds>>

SeriesNext == Record \/ Statement

SeriesSpec == SeriesInit({SeriesPlan}) /\ [][SeriesNext]_seriesVars
-----------------------------------------------------------------------------
(* Aggregates.                                                             *)

MinOf(S) == IF S = {} THEN None ELSE Min(S)
MaxOf(S) == IF S = {} THEN None ELSE Max(S)

\* The histogram's bucket of a value: (-inf, b1], (b1, b2], ..., (bn, inf).
HistBucket(v) == 1 + Quantify(DOMAIN bounds, LAMBDA i : bounds[i] < v)
HistBuckets == 1..(Len(bounds) + 1)

SumOver(ps, f(_)) == MapThenSumSet(f, ps)

\* measureAggregates over the rows of a group; the sum, and the extremes, are of
\* the points that report them.
Agg(ps) ==
  LET summed == {p \in ps : p.sums}
      told == UNION {Range(p.seen) : p \in {q \in ps : q.extremes}}
  IN  [count |-> SumOver(ps, LAMBDA p : Len(p.seen)),
       points |-> Cardinality(ps),
       sum |-> IF summed = {} THEN None
               ELSE SumOver(summed, LAMBDA p : FoldLeft(LAMBDA a, v : a + v, 0, p.seen)),
       min |-> MinOf(told), max |-> MaxOf(told),
       buckets |-> [i \in HistBuckets |->
         SumOver(ps, LAMBDA p : Quantify(DOMAIN p.seen, LAMBDA n : HistBucket(p.seen[n]) = i))]]

AddSums(a, b) == IF b = None THEN a ELSE IF a = None THEN b ELSE a + b

\* Mutant of merge: the extremes of the first histogram stay.
MergeKeeps(a, b) ==
  [count |-> a.count + b.count, points |-> a.points + b.points, sum |-> AddSums(a.sum, b.sum),
   min |-> IF a.min = None THEN b.min ELSE a.min,
   max |-> IF a.max = None THEN b.max ELSE a.max,
   buckets |-> [i \in HistBuckets |-> a.buckets[i] + b.buckets[i]]]

merge(a, b) ==
  [count |-> a.count + b.count, points |-> a.points + b.points, sum |-> AddSums(a.sum, b.sum),
   min |-> MinOf({a.min, b.min} \ {None}), max |-> MaxOf({a.max, b.max} \ {None}),
   buckets |-> [i \in HistBuckets |-> a.buckets[i] + b.buckets[i]]]

Cum(a, i) == SumOver(1..i, LAMBDA j : a.buckets[j])

\* Mutant of RankBucket: a rank at a bucket's very end falls in the next.
RankBucketNext(a, n, d) ==
  Min({j \in HistBuckets : a.buckets[j] > 0
        /\ (Cum(a, j) * d > n * Cum(a, Len(bounds) + 1) \/ Cum(a, j) = Cum(a, Len(bounds) + 1))})

\* The loop of histQuantile: the bucket in which the rank of q = n / d falls.
RankBucket(a, n, d) ==
  Min({j \in HistBuckets : a.buckets[j] > 0
        /\ (Cum(a, j) * d >= n * Cum(a, Len(bounds) + 1) \/ j = Len(bounds) + 1)})

LowerEdge(i, min) ==
  CASE i > 1 -> bounds[i - 1]
    [] i = 1 /\ min # None /\ min < bounds[1] -> min
    [] i = 1 /\ (min = None \/ min >= bounds[1]) -> IF bounds[1] <= 0 THEN bounds[1] ELSE 0

UpperEdge(i, lower, max) ==
  CASE i <= Len(bounds) -> bounds[i]
    [] i > Len(bounds) /\ max # None /\ max > lower -> max
    [] i > Len(bounds) /\ (max = None \/ max <= lower) -> lower

\* The estimate, as a numerator and a denominator, clamped to [min, max].
histQuantile(a, n, d) ==
  LET total == Cum(a, Len(bounds) + 1)
      i == RankBucket(a, n, d)
      lower == LowerEdge(i, a.min)
      den == d * a.buckets[i]
      num == lower * den + (UpperEdge(i, lower, a.max) - lower) * (n * total - Cum(a, i - 1) * d)
      at == IF a.min # None /\ num < a.min * den THEN [num |-> a.min, den |-> 1]
            ELSE [num |-> num, den |-> den]
  IN  IF total = 0 THEN None
      ELSE IF a.max # None /\ at.num > a.max * at.den THEN [num |-> a.max, den |-> 1] ELSE at
-----------------------------------------------------------------------------
(* The parts of an answer.                                                 *)

Metric(ps) == {p \in ps : p.metric = "vendor"}

BucketOf(p) == p.time - (p.time % Width)
BucketsOf(ps) == SetToSortSeq({BucketOf(p) : p \in ps}, <)
InBucketOf(ps, b) == {p \in ps : BucketOf(p) = b}

\* The statement of the series, a page of it: buckets and their aggregates.
Series(statement, limit, offset) ==
  LET ps == Metric(read[statement])
      all == BucketsOf(ps)
      page == SubSeq(all, offset + 1, Min({Len(all), offset + limit}))
  IN  [i \in DOMAIN page |-> [bucket |-> page[i], agg |-> Agg(InBucketOf(ps, page[i]))]]

NoAgg == Agg({})

\* Stats of ValueSeries: the merge of the buckets that were scanned.
WindowStats(limit, offset) ==
  FoldLeft(LAMBDA acc, r : merge(acc, r.agg), NoAgg, Series("series", limit, offset))

\* The labels, or the groups, that the limit keeps: most recorded first, and
\* any of those that tie.
Listed(f, limit) ==
  {K \in SUBSET DOMAIN f :
     /\ Cardinality(K) = Min({limit, Cardinality(DOMAIN f)})
     /\ \A k \in K, l \in DOMAIN f \ K : f[k].count >= f[l].count}

LabelTotals ==
  LET ps == Metric(read["labels"])
  IN  [l \in {p.label : p \in ps} |-> Agg({p \in ps : p.label = l})]

\* dimExpr: a label folded whole into OtherLabel has every key as OtherLabel.
dimExpr(label, k) ==
  CASE label = None -> None
    [] label = OtherLabel -> OtherLabel
    [] label \notin {None, OtherLabel} -> IF k \in DOMAIN label THEN label[k] ELSE None

\* A group merges the aggregates of its buckets, in their order.
Groups ==
  LET ps == Metric(read["groups"])
      merged(own) ==
        FoldLeft(LAMBDA acc, b : merge(acc, Agg(InBucketOf(own, b))), NoAgg, BucketsOf(own))
  IN  [v \in {dimExpr(p.label, DimKey) : p \in ps} |->
        merged({p \in ps : dimExpr(p.label, DimKey) = v})]
-----------------------------------------------------------------------------
(* Properties.                                                             *)

SeriesTypeOK == recorded \subseteq DataPoints /\ \A s \in DOMAIN read : read[s] \subseteq recorded

Answered == plan = <<>> /\ "series" \in DOMAIN read

CountIn(f, K) == MapThenSumSet(LAMBDA k : f[k].count, K)

\* The labels that are listed, and the groups, add up to at least what the
\* series' page shows unless the limit cuts some of them, and to no more than
\* that if the page is the whole series and nothing arrived in between.  What a
\* group merges from its buckets is the aggregate of its points.  A client that
\* goes on to the next page misses no bucket there was at the first, whatever
\* arrives before it: it is on the first page, or still ahead.  If the next page
\* is the last, the two show at least the counts there were at the first.
TotalsAgree ==
  Answered => LET labels == LabelTotals  groups == Groups IN \A limit \in SeriesLimits :
    LET page == Series("series", limit, 0)
        next == Series("next", limit, limit)
        Shown(rows) == FoldLeft(LAMBDA a, r : a + r.agg.count, 0, rows)
        Whole(f) == Cardinality(DOMAIN f) <= limit
        first == BucketsOf(Metric(read["series"]))
        second == BucketsOf(Metric(read["next"]))
        Ahead(b) == \E i \in DOMAIN second : i > limit /\ second[i] = b
        AddsUp(f, statement) == \A K \in Listed(f, limit) :
          /\ Whole(f) => Shown(page) <= CountIn(f, K)
          /\ Len(first) <= limit /\ read["series"] = read[statement] => CountIn(f, K) <= Shown(page)
    IN  /\ AddsUp(labels, "labels") /\ AddsUp(groups, "groups")
        /\ \A v \in DOMAIN groups :
             groups[v] = Agg({p \in Metric(read["groups"]) : dimExpr(p.label, DimKey) = v})
        /\ \A b \in Range(first) : Ahead(b) \/ \E i \in DOMAIN page : page[i].bucket = b
        /\ Len(second) <= 2 * limit =>
             Agg(Metric(read["series"])).count <= Shown(page) + Shown(next)

\* All the values of ps, sorted.
Sorted(ps) ==
  SortSeq(FoldSet(LAMBDA p, acc : acc \o p.seen, <<>>, ps), <)

\* The points of a group, and the value at the rank of n / 4 among theirs.
GroupOf(v) == {p \in Metric(read["groups"]) : dimExpr(p.label, DimKey) = v}
ValueAtRank(s, n) == s[(n * Len(s) + 3) \div 4]

\* The estimate q for points of which s are the values and i the bucket of that
\* at the rank.
InItsBucket(own, s, q, i) ==
  (\A p, r \in own : p.extremes = r.extremes) =>
    /\ i > 1 => q.num >= bounds[i - 1] * q.den
    /\ i <= Len(bounds) => q.num <= bounds[i] * q.den
    /\ (\E p \in own : p.extremes) => s[1] * q.den <= q.num /\ q.num <= s[Len(s)] * q.den

\* Where all the points of a group report their extremes, or none does, the
\* estimate is in the histogram's bucket of the value at that rank; where they
\* do, it is also no lower than the least value and no higher than the greatest.
QuantileInItsBucket ==
  Answered => LET groups == Groups IN \A v \in DOMAIN groups, n \in {1, 3} :
    LET s == Sorted(GroupOf(v))
    IN  InItsBucket(GroupOf(v), s, histQuantile(groups[v], n, 4), HistBucket(ValueAtRank(s, n)))

WithinWidth(value, q, i) ==
  LET width == bounds[i] - bounds[i - 1]
  IN  (value - width) * q.den <= q.num /\ q.num <= (value + width) * q.den

\* What histQuantile says of its estimate: "it can't be off by more than the
\* bucket's width", where the bucket has one.
QuantileWithinWidth ==
  Answered => LET groups == Groups IN \A v \in DOMAIN groups, n \in {1, 3} :
    LET value == ValueAtRank(Sorted(GroupOf(v)), n)
        i == HistBucket(value)
    IN  i \in 2..Len(bounds) => WithinWidth(value, histQuantile(groups[v], n, 4), i)

\* "With `name`, its statistics over the whole window (`stats`)": the answer's
\* Stats are those of all the points of the window.
StatsCoverTheWindow ==
  "series" \in DOMAIN read => \A limit \in SeriesLimits :
    WindowStats(limit, 0) = Agg(Metric(read["series"]))
=============================================================================
