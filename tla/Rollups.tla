------------------------------ MODULE Rollups ------------------------------
(***************************************************************************)
(* The rollups behind the command statistics: spans in the traces          *)
(* hypertable and the hourly and daily continuous aggregates built from    *)
(* them, while late spans arrive, refresh jobs run behind, and retention   *)
(* prunes spans and buckets.                                               *)
(*                                                                         *)
(* What TimescaleDB does is modelled from how the migrations set it up:    *)
(* a view reads materialized buckets below a watermark and aggregates what *)
(* is beneath it above (materialized_only = false); a change below the     *)
(* watermark marks its bucket stale; a refresh recomputes the stale and    *)
(* the new buckets of its window and moves the watermark.  A bucket is the *)
(* set of spans counted in it.  A tick is an hour, and the daily aggregate *)
(* is built on the hourly one.                                             *)
(***************************************************************************)
EXTENDS Integers, FiniteSets

CONSTANTS
  Spans,        \* what clients send: records of id, hour, command and exit code
  Attempts,     \* cli.command.unknown events: id, hour
  Day,          \* hours in a day
  Skew, SkewFuture,  \* max_timestamp_skew_past and _future
  HourlyStart, DailyStart,  \* start_offset of the refresh policies
  Lag,          \* hours within which a refresh job runs again
  TracesKeep,   \* storage.traces.retention_after
  TenantKeep,   \* retention_traces_days of the tenant
  HourlyKeep,   \* retention of the hourly aggregate
  MaxSpans, MaxAttempts, MaxHour  \* bounds

VARIABLES
  hour,         \* the current hour
  traces,       \* spans stored and not pruned
  hourly, daily,  \* the spans counted in the materialized buckets
  hourlyMark, dailyMark,  \* watermarks: buckets below are read from these
  staleHours, staleDays,  \* buckets changed since they were materialized
  hourlyRun, dailyRun,    \* when the refresh jobs last ran
  attempts,     \* unknown-command events in the logs
  sent          \* history: every span ever stored

rollupVars == <<hour, traces, hourly, daily, hourlyMark, dailyMark, staleHours, staleDays,
                hourlyRun, dailyRun, attempts, sent>>

DayOf(h) == h - (h % Day)

\* A watermark only moves forward.
Later(mark, end) == IF mark >= end THEN mark ELSE end

ASSUME RollupsAssumption ==
  /\ Day \in Nat \ {0} /\ \A s \in Spans : s.hour \in Nat
  /\ HourlyStart \in Nat /\ DailyStart \in Nat /\ Lag \in Nat /\ MaxHour \in Nat
  /\ TracesKeep \in Nat /\ TenantKeep \in Nat /\ HourlyKeep \in Nat

\* A job that runs again within Lag still reaches every bucket it has not yet
\* computed, and nothing that a job may compute again is pruned before.
PoliciesFit ==
  /\ Lag < HourlyStart /\ HourlyStart <= TracesKeep /\ HourlyStart <= TenantKeep
  /\ Lag + Day <= DailyStart /\ DailyStart <= HourlyKeep

RollupsInit ==
  /\ hour = 0 /\ traces = {} /\ hourly = {} /\ daily = {}
  /\ hourlyMark = 0 /\ dailyMark = 0 /\ staleHours = {} /\ staleDays = {}
  /\ hourlyRun = 0 /\ dailyRun = 0 /\ attempts = {} /\ sent = {}
-----------------------------------------------------------------------------
(* The views.                                                              *)

HourView == {s \in hourly : s.hour < hourlyMark} \cup {s \in traces : s.hour >= hourlyMark}

DayView ==
  {s \in daily : DayOf(s.hour) < dailyMark} \cup {s \in HourView : DayOf(s.hour) >= dailyMark}
-----------------------------------------------------------------------------
(* Ingest, refresh and retention.                                          *)

StoreSpan(s) ==
  /\ s \notin sent /\ Cardinality(sent) < MaxSpans
  /\ traces' = traces \cup {s} /\ sent' = sent \cup {s}
  /\ staleHours' = IF s.hour < hourlyMark THEN staleHours \cup {s.hour} ELSE staleHours
  /\ UNCHANGED <<hour, hourly, daily, hourlyMark, dailyMark, staleDays, hourlyRun, dailyRun,
                 attempts>>

\* Mutant of Ingest: a span of any age is stored.
IngestAnyAge(s) == s.hour <= hour + SkewFuture /\ StoreSpan(s)

\* A timestamp not older, and not further ahead, than the skew allows.
Timely(h) == h >= hour - Skew /\ h <= hour + SkewFuture

\* A span is stored unless its timestamp is out of these bounds.
Ingest(s) == Timely(s.hour) /\ StoreSpan(s)

Attempt(a) ==
  /\ a \notin attempts /\ Cardinality(attempts) < MaxAttempts
  /\ Timely(a.hour)
  /\ attempts' = attempts \cup {a}
  /\ UNCHANGED <<hour, traces, hourly, daily, hourlyMark, dailyMark, staleHours, staleDays,
                 hourlyRun, dailyRun, sent>>

\* The window of the job is [now - start_offset, now - 1 hour); of its buckets
\* the stale ones and those above the watermark are computed.
HourlyDue ==
  {h \in 0..MaxHour : /\ h >= hour - HourlyStart /\ h < hour - 1
                      /\ h >= hourlyMark \/ h \in staleHours}

RefreshHourly ==
  LET due == HourlyDue
      kept == {s \in hourly : s.hour \notin due}
      new == {s \in traces : s.hour \in due}
      changed == {s.hour : s \in (hourly \ (kept \cup new)) \cup (new \ hourly)}
  IN  /\ hourly' = kept \cup new
      /\ hourlyMark' = Later(hourlyMark, hour - 1)
      /\ staleHours' = staleHours \ due
      /\ staleDays' = staleDays \cup {d \in {DayOf(h) : h \in changed} : d < dailyMark}
      /\ hourlyRun' = hour
      /\ UNCHANGED <<hour, traces, daily, dailyMark, dailyRun, attempts, sent>>

Days == {d \in 0..MaxHour : d % Day = 0}

DailyDue ==
  {d \in Days : /\ d >= hour - DailyStart /\ d + Day <= hour - 1
                /\ d >= dailyMark \/ d \in staleDays}

RefreshDaily ==
  LET due == DailyDue IN
  /\ daily' = {s \in daily : DayOf(s.hour) \notin due} \cup {s \in HourView : DayOf(s.hour) \in due}
  /\ dailyMark' = Later(dailyMark, DayOf(hour - 1))
  /\ staleDays' = staleDays \ due
  /\ dailyRun' = hour
  /\ UNCHANGED <<hour, traces, hourly, hourlyMark, staleHours, hourlyRun, attempts, sent>>

\* Spans older than a horizon go; the buckets they were in are stale by that.
PruneSpans(keep) ==
  LET gone == {s \in traces : s.hour < hour - keep} IN
  /\ gone # {}
  /\ traces' = traces \ gone
  /\ staleHours' = staleHours \cup {h \in {s.hour : s \in gone} : h < hourlyMark}
  /\ UNCHANGED <<hour, hourly, daily, hourlyMark, dailyMark, staleDays, hourlyRun, dailyRun,
                 attempts, sent>>

\* The retention policy of the hypertable drops chunks.
DropChunks == PruneSpans(TracesKeep)

\* Mutant of SweepTenantRetention: the days are taken for hours.
SweepTooMuch == PruneSpans(0)

\* The DELETE of `argvio retention sweep`.
SweepTenantRetention == PruneSpans(TenantKeep)

\* The retention of the hourly aggregate.
DropHourly ==
  /\ \E s \in hourly : s.hour < hour - HourlyKeep
  /\ hourly' = {s \in hourly : s.hour >= hour - HourlyKeep}
  /\ staleDays' = staleDays \cup {d \in {DayOf(s.hour) : s \in hourly \ hourly'} : d < dailyMark}
  /\ UNCHANGED <<hour, traces, daily, hourlyMark, dailyMark, staleHours, hourlyRun, dailyRun,
                 attempts, sent>>

\* Time passes no faster than the jobs run.
NextHour ==
  /\ hour < MaxHour /\ hour - hourlyRun < Lag /\ hour - dailyRun < Lag
  /\ hour' = hour + 1
  /\ UNCHANGED <<traces, hourly, daily, hourlyMark, dailyMark, staleHours, staleDays, hourlyRun,
                 dailyRun, attempts, sent>>

RollupsNext ==
  \/ \E s \in Spans : Ingest(s)
  \/ \E a \in Attempts : Attempt(a)
  \/ RefreshHourly \/ RefreshDaily
  \/ DropChunks \/ SweepTenantRetention \/ DropHourly
  \/ NextHour

\* The jobs are scheduled every hour.
RollupsFairness == WF_rollupVars(RefreshHourly) /\ WF_rollupVars(RefreshDaily)

RollupsSpec == RollupsInit /\ [][RollupsNext]_rollupVars /\ RollupsFairness
-----------------------------------------------------------------------------
(* Properties.                                                             *)

RollupsTypeOK ==
  /\ hour \in 0..MaxHour /\ sent \subseteq Spans /\ attempts \subseteq Attempts
  /\ traces \subseteq sent /\ hourly \subseteq sent /\ daily \subseteq sent
  /\ hourlyMark \in 0..hour /\ dailyMark \in Days

\* A span the daily view counts is counted from then on: neither the move of a
\* watermark, nor a refresh, nor the pruning of spans or hourly buckets takes
\* it out again.
CountedForGood == [][DayView \subseteq DayView']_rollupVars

\* Every span that was accepted, however late, comes to be counted: the daily
\* view gets to hold all of them, again after each arrival.
EventuallyCounted == []<>(sent \subseteq DayView)
=============================================================================
