------------------------------ MODULE Journeys ------------------------------
(***************************************************************************)
(* The journey queries of the metrics API that read raw logs: sessions     *)
(* (query_sessions.go), retries (query_retries.go), the retention grid     *)
(* (query.go) and error fingerprints (query_errors.go), over a table that  *)
(* ingest fills in any order of the events' times, that retention prunes,  *)
(* and whose tenant may change its consent ceiling.                        *)
(*                                                                         *)
(* Each query is one SQL statement and so sees one state of the table.     *)
(* Its window functions are kept as they are: a partition is a sequence    *)
(* sorted as the statement says, lag and lead are its neighbours, a        *)
(* running sum counts what came before.  The request's range and filters   *)
(* only choose the rows, so a table of the chosen rows stands for them.    *)
(***************************************************************************)
EXTENDS Integers, Sequences, FiniteSets, FiniteSetsExt, SequencesExt

CONSTANTS
  Runs,         \* cli.command.completed: id, install, time, command, failed
  Starts,       \* cli.session.started: id, install, time
  Errors,       \* error events: id, install, time, fp, tier
  Gap,          \* SessionGap
  Edges,        \* sessionLengthEdges
  MaxSequence,  \* MaxSequenceLength
  Window,       \* the request's retry window
  Repeats,      \* RepeatedFailureCount
  Period,       \* ticks in a cohort bucket
  Ceilings,     \* ranks of the tiers a tenant_config may name
  Limit,        \* the page size of the request
  MaxRows,      \* bound: rows in a table
  NoCommand     \* command_name IS NULL

VARIABLES
  table,        \* the rows of the logs that the request chooses
  ceiling       \* tier_ceiling of the tenant

journeyVars == <<table, ceiling>>

\* A behaviour is about the events of one of the queries.
Kinds == {Runs, Starts, Errors}

JourneysInit == table = {} /\ ceiling \in Ceilings

\* Ingest stores an event of the kind the behaviour is about, however late.
Arrive ==
  /\ Cardinality(table) < MaxRows
  /\ \E kind \in Kinds : table \subseteq kind /\ \E r \in kind \ table : table' = table \cup {r}
  /\ UNCHANGED ceiling

\* Retention drops what is older than its horizon.
Prune ==
  /\ \E r \in table : table' = {x \in table : x.time > r.time}
  /\ UNCHANGED ceiling

\* `tenant config` sets another ceiling; rows keep the tier they were sent at.
SetCeiling ==
  /\ table \subseteq Errors
  /\ ceiling' \in Ceilings \ {ceiling}
  /\ UNCHANGED table

JourneysNext == Arrive \/ Prune \/ SetCeiling

JourneysSpec == JourneysInit /\ [][JourneysNext]_journeyVars
-----------------------------------------------------------------------------
(* Sessions.                                                               *)

Installs == {r.install : r \in table}

\* ORDER BY time, command_name, id; a NULL command sorts last.
CommandOrder(r) == IF r.command = NoCommand THEN 9 ELSE r.command
EventOrder(r, s) ==
  \/ r.time < s.time
  \/ r.time = s.time /\ CommandOrder(r) < CommandOrder(s)
  \/ r.time = s.time /\ r.command = s.command /\ r.id < s.id

EventsOf(i) == SetToSortSeq({r \in table : r.install = i}, EventOrder)

\* Mutant of StartsSession: a gap of exactly SessionGap ends the session.
StartsSessionEarly(s, n) == n > 1 /\ s[n].time - s[n - 1].time >= Gap

\* time - lag(time) > gap; the first event has no predecessor.
StartsSession(s, n) == n > 1 /\ s[n].time - s[n - 1].time > Gap

\* The running sum of starts_session.
SessionNo(s, n) == Cardinality({m \in 1..n : StartsSession(s, m)})

\* The sessions of an install, as contiguous sequences of its events.
SessionsOf(i) ==
  LET s == EventsOf(i)
      no == [n \in DOMAIN s |-> SessionNo(s, n)]
  IN  [k \in {no[n] : n \in DOMAIN s} |-> SelectSeq(s, LAMBDA r :
         \E n \in DOMAIN s : s[n] = r /\ no[n] = k)]

Sessions == UNION {Range(SessionsOf(i)) : i \in Installs}

LengthOf(session) == session[Len(session)].time - session[1].time

\* The bucket of a length: zero has its own, then width_bucket over the edges.
LengthBucket(length) ==
  IF length = 0 THEN 0 ELSE 1 + Quantify(DOMAIN Edges, LAMBDA n : Edges[n] <= length)

\* The buckets as the answer labels them; the last is open.
MinSeconds(b) == IF b > 1 THEN Edges[b - 1] ELSE 0
InBucket(length, b) ==
  IF b = 0 THEN length = 0
  ELSE /\ length >= MinSeconds(b) /\ length > 0
       /\ b - 1 < Len(Edges) => length < Edges[b]

SessionLengthDistribution(sessions) ==
  [b \in 0..(Len(Edges) + 1) |-> Quantify(sessions, LAMBDA s : LengthBucket(LengthOf(s)) = b)]

\* The session's commands in order, named ones only, repeats collapsed, the
\* first MaxSequence of them.
SequenceOf(session) ==
  LET named == SelectSeq(session, LAMBDA r : r.command # NoCommand)
      fresh == {n \in DOMAIN named : n = 1 \/ named[n].command # named[n - 1].command}
      steps == SetToSortSeq(fresh, <)
  IN  [n \in 1..Min({Len(steps), MaxSequence}) |-> named[steps[n]].command]

\* How many sessions ran each sequence of at least minLength commands.
SessionSequences(sessions, minLength) ==
  LET long == {s \in sessions : Len(SequenceOf(s)) >= Max({minLength, 1})}
  IN  [q \in {SequenceOf(s) : s \in long} |-> Quantify(long, LAMBDA s : SequenceOf(s) = q)]
-----------------------------------------------------------------------------
(* Retries.                                                                *)

RunOrder(r, s) == r.time < s.time \/ (r.time = s.time /\ r.id < s.id)

RunsOf(i, c) == SetToSortSeq({r \in table : r.install = i /\ r.command = c}, RunOrder)

\* Mutant of StartsChain: any earlier run within the window continues a chain.
StartsChainAfterGap(s, n) == ~ (n > 1 /\ s[n].time - s[n - 1].time <= Window)

StartsChain(s, n) ==
  ~ (n > 1 /\ s[n - 1].failed /\ s[n].time - s[n - 1].time <= Window)

ChainNo(s, n) == Cardinality({m \in 1..n : StartsChain(s, m)})

Retried(s, n) == s[n].failed /\ n < Len(s) /\ s[n + 1].time - s[n].time <= Window

\* lead(time, Repeats - 1) within the chain's failures is within the window.
Repeated(s, n) ==
  LET later == SetToSortSeq({m \in n..Len(s) :
                 s[m].failed /\ ChainNo(s, m) = ChainNo(s, n)}, <)
  IN  /\ s[n].failed /\ Len(later) >= Repeats
      /\ s[later[Repeats]].time - s[n].time <= Window

\* A chain with a failure, aggregated.
Chain(s, k) ==
  LET ms == {n \in DOMAIN s : ChainNo(s, n) = k}
  IN  [failures |-> Quantify(ms, LAMBDA n : s[n].failed),
       retried |-> Quantify(ms, LAMBDA n : Retried(s, n)),
       runs |-> Cardinality(ms),
       recovered |-> \E n \in ms : ~ s[n].failed,
       repeated |-> \E n \in ms : Repeated(s, n)]

ChainsOf(s) ==
  LET all == [k \in {ChainNo(s, n) : n \in DOMAIN s} |-> Chain(s, k)]
  IN  [k \in {j \in DOMAIN all : all[j].failures > 0} |-> all[k]]

\* What Retries answers for a command, of one install's runs.
RetryPoint(s) ==
  LET chains == ChainsOf(s)  ks == DOMAIN chains
  IN  [failed |-> MapThenSumSet(LAMBDA k : chains[k].failures, ks),
       retried |-> MapThenSumSet(LAMBDA k : chains[k].retried, ks),
       sequences |-> Quantify(ks, LAMBDA k : chains[k].runs >= 2),
       recovered |-> Quantify(ks, LAMBDA k : chains[k].recovered),
       repeated |-> \E k \in ks : chains[k].repeated,
       longest |-> Max({0} \cup {chains[k].failures : k \in ks})]
-----------------------------------------------------------------------------
(* The retention grid.                                                     *)

Trunc(t) == t \div Period

\* Mutant of SessionRows: the sessions before the range are left out.
SessionRowsInRange(i, from) == {r \in table : r.install = i /\ r.time >= from}

\* The sessions of an install that the statement reads: from the range's end
\* backwards, those before the range too.
SessionRows(i, from) == {r \in table : r.install = i}

PeriodsOf(i, from) == {Trunc(r.time) : r \in SessionRows(i, from)}

\* The first period seen.
CohortOf(i, from) == Min(PeriodsOf(i, from))

\* A row for every cohort and period, in that order, and a page of them.  The
\* size is taken before the page is cut.
Retention(from, limit, offset) ==
  LET chosen == {i \in Installs : PeriodsOf(i, from) # {} /\ CohortOf(i, from) >= Trunc(from)}
      grid == UNION {{<<CohortOf(i, from), p - CohortOf(i, from)>> : p \in PeriodsOf(i, from)} :
                      i \in chosen}
      retained(c, d) ==
        Quantify(chosen, LAMBDA i : CohortOf(i, from) = c /\ (c + d) \in PeriodsOf(i, from))
      first(c) == Min({x[2] : x \in {y \in grid : y[1] = c}})
      less(x, y) == x[1] < y[1] \/ (x[1] = y[1] /\ x[2] < y[2])
      all == SetToSortSeq(grid, less)
      page == SubSeq(all, offset + 1, Min({Len(all), offset + limit}))
  IN  [n \in DOMAIN page |-> LET c == page[n][1]  d == page[n][2] IN
        [cohort |-> c, period |-> d, size |-> retained(c, first(c)), retained |-> retained(c, d)]]
-----------------------------------------------------------------------------
(* Error fingerprints.                                                     *)

\* Mutant of Readable: the tier is compared with the highest there is.
ReadableOnce(r) == r.tier <= Max(Ceilings)

\* consent_tier IN (SELECT name FROM readable)
Readable(r) == r.tier <= ceiling

Ev == {r \in table : Readable(r)}

EventsWith(fp) == {r \in Ev : r.fp = fp}

Affected(fp) == Cardinality({r.install : r \in EventsWith(fp)})

\* ORDER BY affected_installs DESC, event_count DESC, fp
RankOrder(a, b) ==
  LET na == Cardinality(EventsWith(a))  nb == Cardinality(EventsWith(b))
  IN  \/ Affected(a) > Affected(b)
      \/ Affected(a) = Affected(b) /\ na > nb
      \/ Affected(a) = Affected(b) /\ na = nb /\ a < b

\* The page of the ranking from an offset on.
PageFrom(offset) ==
  LET ranked == SetToSortSeq({r.fp : r \in Ev}, RankOrder)
  IN  SubSeq(ranked, offset + 1, Min({Len(ranked), offset + Limit}))

\* What is said of a fingerprint: its count, trend and latest sample.
Cause(fp) ==
  LET es == EventsWith(fp)
  IN  [count |-> Cardinality(es), installs |-> Affected(fp),
       trend |-> [p \in {Trunc(r.time) : r \in es} |->
         Cardinality({r \in es : Trunc(r.time) = p})],
       sample |-> CHOOSE r \in es : \A x \in es : x.time <= r.time]

ErrorFingerprints(offset) ==
  LET page == PageFrom(offset) IN [n \in DOMAIN page |-> Cause(page[n])]
-----------------------------------------------------------------------------
(* Properties: each query against a definition that mentions no window.    *)

TableTypeOK == (\E kind \in Kinds : table \subseteq kind) /\ ceiling \in Ceilings

\* Nothing happened for longer than the gap, somewhere from a to b.
Silence(i, a, b) ==
  \E t \in a..(b - 1) : ~ \E r \in table : r.install = i /\ r.time \in (t + 1)..(t + Gap)

\* Two events of an install are in one session exactly if the install was never
\* silent for longer than SessionGap between them, in whatever order they were
\* stored and with whatever ties; a session's sequence repeats no command in a
\* row and leaves one out only beyond MaxSequence; every session is counted in
\* the one length bucket whose label it fits, and in one sequence if it names a
\* command.
SessionsByGap ==
  table \subseteq Runs =>
    LET sessions == Sessions
        lengths == SessionLengthDistribution(sessions)
        told == SessionSequences(sessions, 0)
    IN
    /\ \A r, x \in table : (r.install = x.install /\ r.time <= x.time) =>
         ((\E s \in sessions : {r, x} \subseteq Range(s)) <=> ~ Silence(r.install, r.time, x.time))
    /\ \A s \in sessions :
         LET q == SequenceOf(s)
             named == {r.command : r \in Range(s)} \ {NoCommand}
         IN  /\ \A n \in 1..(Len(q) - 1) : q[n] # q[n + 1]
             /\ Range(q) = named \/ (Len(q) = MaxSequence /\ Range(q) \subseteq named)
    /\ \A b \in DOMAIN lengths :
         lengths[b] = Quantify(sessions, LAMBDA s : InBucket(LengthOf(s), b))
    /\ MapThenSumSet(LAMBDA q : told[q], DOMAIN told) =
         Quantify(sessions, LAMBDA s : \E r \in Range(s) : r.command # NoCommand)

\* What Retries says of a command follows from its runs alone: a failure is
\* retried if any later run is within the window; a sequence begins with a
\* retried failure that retries nothing, and recovers in a success that does;
\* streaks are failures in a row, each within the window of the one before.
RetriesFollowTheRuns ==
  table \subseteq Runs => \A i \in Installs : \A c \in {r.command : r \in table} \ {NoCommand} :
    LET s == RunsOf(i, c)
        p == RetryPoint(s)
        Near(m, n) == s[n].time - s[m].time <= Window
        Retries(n) == n > 1 /\ s[n - 1].failed /\ Near(n - 1, n)
        Streak(m, n) == /\ \A k \in m..n : s[k].failed
                        /\ \A k \in m..(n - 1) : Near(k, k + 1)
        later(n) == (n + 1)..Len(s)
    IN  /\ p.failed = Quantify(DOMAIN s, LAMBDA n : s[n].failed)
        /\ p.retried = Quantify(DOMAIN s, LAMBDA n :
             s[n].failed /\ \E m \in later(n) : Near(n, m))
        /\ p.sequences = Quantify(DOMAIN s, LAMBDA n :
             s[n].failed /\ ~ Retries(n) /\ \E m \in later(n) : Near(n, m))
        /\ p.recovered = Quantify(DOMAIN s, LAMBDA n : ~ s[n].failed /\ Retries(n))
        /\ p.repeated <=> \E n \in DOMAIN s : n + Repeats - 1 \in DOMAIN s
             /\ Streak(n, n + Repeats - 1) /\ Near(n, n + Repeats - 1)
        /\ p.longest = Max({0} \cup {x[2] - x[1] + 1 : x \in
             {y \in (1..Len(s)) \X (1..Len(s)) : y[1] <= y[2] /\ Streak(y[1], y[2])}})

\* Ranges that begin with a period, and within one.
RangeStarts == {0, Period, Period + 1}

RetentionPages(from) ==
  FlattenSeq([n \in 1..MaxRows |-> Retention(from, Limit, (n - 1) * Limit)])

\* The pages of the grid have a cohort for every period, from that of the
\* range's start on, in which an install was first seen, and no other: an
\* install seen in an earlier period is in none.  A row tells how many of the
\* cohort's installs came back in its period, next to all of them, also where a
\* page begins in the middle of a cohort; each row is told once.
GridCountsEachOnce ==
  table \subseteq Starts => \A from \in RangeStarts :
    LET rows == RetentionPages(from)
        Seen(i, p) == \E r \in table : r.install = i /\ Trunc(r.time) = p
        New(c) == {i \in Installs : Seen(i, c) /\ \A p \in 0..(c - 1) : ~ Seen(i, p)}
    IN  /\ {rows[n].cohort : n \in DOMAIN rows} =
             {c \in {Trunc(r.time) : r \in table} : c >= Trunc(from) /\ New(c) # {}}
        /\ \A n \in DOMAIN rows : LET row == rows[n] IN
             /\ row.size = Cardinality(New(row.cohort))
             /\ row.retained = Quantify(New(row.cohort), LAMBDA i : Seen(i, row.cohort + row.period))
             /\ row.retained > 0 /\ (row.period = 0 => row.retained = row.size)
             /\ \A m \in DOMAIN rows :
                  rows[m].cohort = row.cohort /\ rows[m].period = row.period => m = n

\* What openapi.yaml says of the grid: it is "for cohorts starting within
\* [from, to)".
CohortsStartInRange ==
  table \subseteq Starts => \A from \in RangeStarts :
    LET rows == RetentionPages(from) IN \A n \in DOMAIN rows : rows[n].cohort * Period >= from

\* What is shown of errors was sent at a tier the tenant's ceiling allows now,
\* whatever it was when the event was stored; the pages show every such cause
\* once, and a trend adds up to its count.
DetailWithinCeiling ==
  table \subseteq Errors =>
    LET pages == PageFrom(0) \o PageFrom(Limit) \o PageFrom(2 * Limit)
        told == ErrorFingerprints(0) \o ErrorFingerprints(Limit) \o ErrorFingerprints(2 * Limit)
    IN  /\ \A n \in DOMAIN told :
             LET t == told[n].trend IN
             /\ told[n].sample.tier <= ceiling
             /\ told[n].count = Quantify(table, LAMBDA r : r.fp = pages[n] /\ r.tier <= ceiling)
             /\ told[n].count = MapThenSumSet(LAMBDA b : t[b], DOMAIN t)
        /\ \A m, n \in DOMAIN pages : pages[m] = pages[n] => m = n
        /\ Range(pages) = {r.fp : r \in {x \in table : x.tier <= ceiling}}
=============================================================================
