---------------------------- MODULE CommandStats ----------------------------
(***************************************************************************)
(* The queries over the rollups (storage/query.go, query_unknown.go):      *)
(* invocations and errors per command at every granularity, exit codes,    *)
(* and unknown commands next to them.                                      *)
(***************************************************************************)
EXTENDS Rollups, Sequences, FiniteSetsExt, SequencesExt

CONSTANTS
  Week,         \* hours in a week
  Null,         \* no exit code; sorts last
  PageLimit     \* the request's limit

-----------------------------------------------------------------------------
(* The queries.  Granularities are bucket widths: 1, Day or Week.          *)

\* date_trunc of a bucket's start.
rebucket(b, h) == h - (h % b)

\* A rollup's rows: the spans with the start of the bucket that counts them.
Rows(view, grain) == {[span |-> s, bucket |-> rebucket(grain, s.hour)] : s \in view}

\* The hourly rollup backs hour, the daily one everything coarser.
commandStatsSource(b) == IF b = 1 THEN Rows(HourView, 1) ELSE Rows(DayView, Day)

InRange(rows, from, to) == {r \in rows : r.bucket >= from /\ r.bucket < to}

\* ORDER BY the group's key, then LIMIT and OFFSET.
Page(keys, limit, offset) ==
  LET less(k, l) == \E i \in DOMAIN k : k[i] < l[i] /\ \A j \in 1..(i - 1) : k[j] = l[j]
      all == SetToSortSeq(keys, less)
  IN  SubSeq(all, offset + 1, Min({Len(all), offset + limit}))

\* Mutant of Failed: a span without an exit code did not fail.
FailedWithCode(s) == s.code \notin {0, Null}

\* exit_code IS DISTINCT FROM 0
Failed(s) == s.code # 0

\* commandStats: invocations and errors of every bucket and command.
commandStats(b, from, to, limit, offset) ==
  LET rows == InRange(commandStatsSource(b), from, to)
      key(r) == <<rebucket(b, r.bucket), r.span.command>>
      page == Page({key(r) : r \in rows}, limit, offset)
  IN  [i \in DOMAIN page |->
        [bucket |-> page[i][1], command |-> page[i][2],
         invocations |-> Quantify(rows, LAMBDA r : key(r) = page[i]),
         errors |-> Quantify(rows, LAMBDA r : key(r) = page[i] /\ Failed(r.span))]]

\* ExitCodeDistribution re-buckets an hourly rollup for every granularity.
ExitCodeDistribution(b, from, to, limit, offset) ==
  LET rows == InRange(Rows(HourView, 1), from, to)
      key(r) == <<rebucket(b, r.bucket), r.span.command, r.span.code>>
      page == Page({key(r) : r \in rows}, limit, offset)
  IN  [i \in DOMAIN page |->
        [bucket |-> page[i][1], command |-> page[i][2], code |-> page[i][3],
         invocations |-> Quantify(rows, LAMBDA r : key(r) = page[i])]]

\* unknownCommandSeries: events of the logs, chosen by their time, next to
\* buckets of the rollup, chosen by their start.
unknownCommandSeries(b, from, to) ==
  LET made == {a \in attempts : a.hour >= from /\ a.hour < to}
      rows == InRange(commandStatsSource(b), from, to)
  IN  [k \in {rebucket(b, a.hour) : a \in made} \cup {rebucket(b, r.bucket) : r \in rows} |->
        [attempts |-> Quantify(made, LAMBDA a : rebucket(b, a.hour) = k),
         invocations |-> Quantify(rows, LAMBDA r : rebucket(b, r.bucket) = k)]]

-----------------------------------------------------------------------------
(* Properties.                                                             *)

\* No bucket of a view lacks a span.  The exit codes have an hourly rollup of
\* their own, with the policies of the command statistics, so the model has one.
Settled == HourView = sent /\ DayView = sent

\* The starts of the weeks that hold a span or an attempt, and their end.
Weeks ==
  {h \in 0..(Max({x.hour : x \in Spans \cup Attempts}) + Week) : h % Week = 0}

\* The pages of an answer, one after the other.  It has a row per span at most.
Pages(query(_, _)) ==
  FlattenSeq([p \in 1..MaxSpans |-> query(PageLimit, (p - 1) * PageLimit)])

SumOf(rows, value(_)) == FoldLeft(LAMBDA sum, r : sum + value(r), 0, rows)

\* Over whole weeks, and once the views hold every span, all granularities tell
\* the same invocations and errors, read from whichever rollup and page by
\* page; the exit codes of a bucket and command add up to its row; and next to
\* the unknown commands of a bucket stand the invocations of all its commands,
\* in every bucket that has either.
GranularitiesAgree ==
  (sent # {} /\ Settled) => \A from \in Weeks, to \in Weeks, b \in {1, Day, Week} : from < to =>
    LET stats == Pages(LAMBDA limit, offset : commandStats(b, from, to, limit, offset))
        codes == Pages(LAMBDA limit, offset : ExitCodeDistribution(b, from, to, limit, offset))
        chosen == {s \in sent : s.hour >= from /\ s.hour < to}
    IN  /\ SumOf(stats, LAMBDA r : r.invocations) = Cardinality(chosen)
        /\ SumOf(codes, LAMBDA r : r.invocations) = Cardinality(chosen)
        /\ \A i \in DOMAIN stats :
             LET own == SelectSeq(codes, LAMBDA c : c.bucket = stats[i].bucket
                                                     /\ c.command = stats[i].command)
             IN  /\ SumOf(own, LAMBDA c : c.invocations) = stats[i].invocations
                 /\ SumOf(SelectSeq(own, LAMBDA c : c.code # 0), LAMBDA c : c.invocations)
                      = stats[i].errors
        /\ LET unknown == unknownCommandSeries(b, from, to)
               made == {a \in attempts : a.hour >= from /\ a.hour < to}
           IN  /\ DOMAIN unknown = {rebucket(b, x.hour) : x \in made \cup chosen}
               /\ \A k \in DOMAIN unknown :
                    /\ unknown[k].attempts = Quantify(made, LAMBDA a : rebucket(b, a.hour) = k)
                    /\ unknown[k].invocations =
                         SumOf(SelectSeq(stats, LAMBDA r : r.bucket = k), LAMBDA r : r.invocations)
=============================================================================
