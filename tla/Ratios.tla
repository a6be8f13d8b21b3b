------------------------------- MODULE Ratios -------------------------------
(***************************************************************************)
(* Ratio metrics (internal/storage/query_ratios.go): the series of one     *)
(* operand over another's, and their totals.  Each side's series is a      *)
(* statement of its own, and so is the total of active installs; sessions  *)
(* and commands' invocations arrive as data points do, between them.       *)
(*                                                                         *)
(* Distinct counts are HyperLogLog estimates in the database and exact     *)
(* here.  The scale is left out.                                           *)
(***************************************************************************)
EXTENDS VendorSeries

CONSTANT RatioMetrics  \* num and den: kind, and where: None or a value of DimKey

\* Mutant of RatioPlan: the denominator is read first.
RatioPlanDenominatorFirst == <<"den", "denTotal", "num", "numTotal">>

\* The statements of a ratio.  That of a total runs only for active installs;
\* what it would see is read by no other operand.
RatioPlan == <<"num", "numTotal", "den", "denTotal">>

\* The rows an operand reads.  A command's name is its value of DimKey.
Source(kind) ==
  CASE kind \in {"count", "sum"} -> "vendor"
    [] kind = "command_invocations" -> "command"
    [] kind \in {"sessions", "active_installs"} -> "session"

OperandPoints(o, ps) ==
  {p \in ps : p.metric = Source(o.kind) /\ (o.where = None \/ dimExpr(p.label, DimKey) = o.where)}

\* distinct_count: NULL when no row has an install.
Distinct(ps) ==
  LET installs == {p.install : p \in ps} \ {None}
  IN  IF installs = {} THEN None ELSE Cardinality(installs)

\* The operand's expression over some of its rows.  "count" is sum(total) of a
\* counter, or the count of a duration or a value; "sum" is sum(value_sum).
Valued(kind, ps) ==
  CASE kind \in {"count", "sum"} -> Agg(ps)[kind]
    [] kind \in {"command_invocations", "sessions"} -> Cardinality(ps)
    [] kind = "active_installs" -> Distinct(ps)

\* Value per bucket; a bucket in which it is NULL is not put in the map.
operandSeries(o, side) ==
  LET ps == OperandPoints(o, read[side])
      all == [b \in {BucketOf(p) : p \in ps} |-> Valued(o.kind, InBucketOf(ps, b))]
  IN  [b \in {c \in DOMAIN all : all[c] # None} |-> all[b]]

SumOfBuckets(series) == MapThenSumSet(LAMBDA b : series[b], DOMAIN series)

\* The window's total: the sum of the buckets, except of distinct installs.
operandTotal(o, side, series) ==
  IF o.kind # "active_installs" THEN SumOfBuckets(series)
  ELSE LET n == Distinct(OperandPoints(o, read[IF side = "num" THEN "numTotal" ELSE "denTotal"]))
       IN  IF n = None THEN 0 ELSE n

ratioPoint(n, d) == [numerator |-> n, denominator |-> d, value |-> IF d # 0 THEN <<n, d>> ELSE None]

\* The two series joined by their buckets, and the totals.
assembleRatio(m, ns, ds) ==
  LET at(f, b) == IF b \in DOMAIN f THEN f[b] ELSE 0
  IN  [series |-> [b \in DOMAIN ns \cup DOMAIN ds |-> ratioPoint(at(ns, b), at(ds, b))],
       total |-> ratioPoint(operandTotal(m.num, "num", ns), operandTotal(m.den, "den", ds))]

Ratio(m) == assembleRatio(m, operandSeries(m.num, "num"), operandSeries(m.den, "den"))
-----------------------------------------------------------------------------
(* Properties.                                                             *)

\* The denominator counts everything that the numerator counts, and more.
IsShare(m) ==
  \/ m.num.kind = m.den.kind /\ m.den.where = None /\ m.num.kind # "sum"
  \/ m.num.kind = "active_installs" /\ m.den.kind = "sessions"

\* The total of a side, the values of its buckets, what its statement makes of
\* all the rows it saw, and whether the total's statement saw the same.
SideAddsUp(o, total, buckets, all, same) ==
  IF o.kind # "active_installs" THEN total = IF all = None THEN 0 ELSE all
  ELSE (\A b \in DOMAIN buckets : buckets[b] <= total) /\ (same => total <= SumOfBuckets(buckets))

RatioAgrees(m, ratio) ==
  /\ IsShare(m) => \A r \in {ratio.total} \cup Range(ratio.series) : r.numerator <= r.denominator
  /\ SideAddsUp(m.num, ratio.total.numerator,
                [b \in DOMAIN ratio.series |-> ratio.series[b].numerator],
                Valued(m.num.kind, OperandPoints(m.num, read["num"])), read["num"] = read["numTotal"])
  /\ SideAddsUp(m.den, ratio.total.denominator,
                [b \in DOMAIN ratio.series |-> ratio.series[b].denominator],
                Valued(m.den.kind, OperandPoints(m.den, read["den"])), read["den"] = read["denTotal"])

\* A share is never more than the whole, in any bucket and in total, although
\* rows arrive between the statements of its sides; a total is that of all the
\* rows its series saw, and one of active installs neither less than a bucket's
\* nor, if nothing arrived in between, more than their sum.
RatiosAgree ==
  plan = <<>> /\ "num" \in DOMAIN read => \A m \in RatioMetrics : RatioAgrees(m, Ratio(m))
=============================================================================
