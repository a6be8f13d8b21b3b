------------------------------ MODULE Installs ------------------------------
(***************************************************************************)
(* Install and discovery tracking (internal/storage/installs.go,           *)
(* discoveries.go): what ProcessLogs does with the logs of one tenant once *)
(* they are stored, the backfill that replays stored logs through the same *)
(* code, and the retention sweep of the three tables.                      *)
(*                                                                         *)
(* Postgres runs at READ COMMITTED.  A transaction's own writes are kept   *)
(* in rows, recorded and the deleted* variables until it commits; lock is  *)
(* the row lock on a primary key of installs, which an uncommitted INSERT  *)
(* holds as well.  last_os and last_arch follow the rule of last_version   *)
(* and are left out.                                                       *)
(***************************************************************************)
EXTENDS Integers, Sequences, FiniteSets, Functions, Folds, FiniteSetsExt

CONSTANTS
  Exports,    \* goroutines that handle a logs export
  Backfill,   \* the `argvio installs backfill` command
  Sweeper,    \* the `argvio retention sweep` command
  EventBatches,    \* sequences of log records a client may send, in arrival order
  InstallIds, \* integers, in the order of TrackInstalls
  Versions, Methods,
  Semver,     \* the versions that parse, each with its place in semver order
  Chunk,      \* backfillChunk
  Cutoffs,    \* times before which a sweep may delete
  MaxExports, MaxBackfills, MaxSweeps,   \* bounds on the operations
  None

Trackers == Exports \cup {Backfill}

\* The log records clients send.
Records == UNION {Range(s) : s \in EventBatches}

ASSUME TrackersAssumption ==
  /\ IsFiniteSet(Exports) /\ Backfill \notin Exports
  /\ Sweeper \notin Trackers \cup {None} /\ None \notin Trackers
ASSUME RecordsAssumption ==
  /\ InstallIds \subseteq Nat /\ None \notin InstallIds
  /\ \A s \in EventBatches : s \in Seq(Range(s))
  /\ \A r \in Records : r.install \in InstallIds \cup {None}
ASSUME ChunkAssumption == Chunk \in Nat \ {0}

VARIABLES
  logs,         \* the log records stored
  installs,     \* table installs: install -> row
  changes,      \* table install_version_changes
  discoveries,  \* table install_discoveries: <<install, kind, name>> -> first_at
  rowLock,         \* install -> the transaction that holds its row lock
  step, batch, todo, existing, rows, recorded,  \* each tracker's transaction
  chunks,       \* the chunks the backfill has still to flush
  spc, cutoff, candidates, deleted, deletedChanges, deletedDiscoveries,
  folded,       \* history: the events folded into each row since it exists
  sighted,      \* history: the sightings behind each discovery since it exists
  dropped,      \* history: the events that went with a swept row
  snapshot,     \* history: the events the latest backfill read
  count         \* how many of each operation have begun

installTables == <<logs, installs, changes, discoveries>>
tx == <<batch, todo, existing, rows, recorded>>
sweep == <<spc, cutoff, candidates, deleted, deletedChanges, deletedDiscoveries>>
installHistory == <<folded, sighted, dropped, snapshot, count>>
installVars == <<installTables, rowLock, step, tx, chunks, sweep, installHistory>>

\* InstallEventFromLog: session starts and completed commands with an id.
IsInstallEvent(r) == r.event \in {"session", "completed"} /\ r.install # None

\* DiscoveryEventsFromLog: a name counts once, an empty one not at all.
DiscoveryKeys(r) ==
  IF r.event \in {"feature", "flag"} /\ r.install # None
    THEN {<<r.install, r.event, n>> : n \in r.names}
    ELSE {}

InstallEvents(s) == SelectSeq(s, IsInstallEvent)
Tracked(s) == {r \in Range(s) : IsInstallEvent(r)}
Ids(E) == {e.install : e \in E}
Of(s, k) == SelectSeq(s, LAMBDA e : e.install = k)

\* S in any order.
Orders(S) == Bijection(1..Cardinality(S), S)

\* sort.SliceStable: the n-th event is the one with n - 1 before it.
SortedByTime(s) ==
  LET Before(i, j) == s[i].at < s[j].at \/ (s[i].at = s[j].at /\ i < j)
  IN  [n \in DOMAIN s |->
         s[CHOOSE j \in DOMAIN s : Cardinality({i \in DOMAIN s : Before(i, j)}) = n - 1]]

Coalesce(a, b) == IF a # None THEN a ELSE b

Earliest(cur, t) == IF cur = None \/ (t # None /\ t < cur) THEN t ELSE cur

\* compareVersions finds two versions that parse and are not equal.
Differ(a, b) == {a, b} \subseteq DOMAIN Semver /\ Semver[a] # Semver[b]

NewRow(e) ==
  [first_seen |-> e.at, last_seen |-> e.at,
   first_version |-> e.version, last_version |-> e.version,
   install_method |-> None, first_command_at |-> None, first_success_at |-> None]

\* One turn of the loop of planInstall.
FoldEvent(st, e) ==
  LET newer == e.at >= st.last_seen
      succeeded == e.event = "completed" /\ e.exit = 0
  IN  [first_seen |-> Earliest(st.first_seen, e.at),
       first_version |-> IF e.at < st.first_seen THEN Coalesce(e.version, st.first_version)
                         ELSE st.first_version,
       last_seen |-> IF newer THEN e.at ELSE st.last_seen,
       last_version |-> IF newer THEN Coalesce(e.version, st.last_version)
                        ELSE st.last_version,
       install_method |-> Coalesce(e.method, st.install_method),
       first_command_at |-> IF e.event = "completed" THEN Earliest(st.first_command_at, e.at)
                            ELSE st.first_command_at,
       first_success_at |-> IF succeeded THEN Earliest(st.first_success_at, e.at)
                            ELSE st.first_success_at]

\* Mutant of Change: any event may reveal a change.
ChangeOfAny(st, e) ==
  IF Differ(st.last_version, e.version)
    THEN {[install |-> e.install, at |-> e.at, from |-> st.last_version, to |-> e.version,
           upgrade |-> Semver[st.last_version] < Semver[e.version]]}
    ELSE {}

Change(st, e) ==
  IF e.at > st.last_seen /\ Differ(st.last_version, e.version)
    THEN {[install |-> e.install, at |-> e.at, from |-> st.last_version, to |-> e.version,
           upgrade |-> Semver[st.last_version] < Semver[e.version]]}
    ELSE {}

planInstall(row, events) ==
  LET sorted == SortedByTime(events)
      start == IF row = None THEN NewRow(sorted[1]) ELSE row
      Step(e, acc) == [row |-> FoldEvent(acc.row, e),
                       changes |-> acc.changes \cup Change(acc.row, e)]
  IN  MapThenFoldSet(Step, [row |-> start, changes |-> {}],
                     LAMBDA i : sorted[i], Max, DOMAIN sorted)

\* Mutant of upsertInstall: the planned row replaces the stored one.
upsertReplaces(cur, new) == new

\* The ON CONFLICT clause of upsertInstall: the stored row cur, the planned new.
upsertInstall(cur, new) ==
  [first_version |-> IF new.first_seen < cur.first_seen
                     THEN Coalesce(new.first_version, cur.first_version)
                     ELSE cur.first_version,
   last_version |-> IF new.last_seen >= cur.last_seen
                    THEN Coalesce(new.last_version, cur.last_version)
                    ELSE cur.last_version,
   install_method |-> Coalesce(new.install_method, cur.install_method),
   first_seen |-> Min({cur.first_seen, new.first_seen}),
   last_seen |-> Max({cur.last_seen, new.last_seen}),
   first_command_at |-> Earliest(cur.first_command_at, new.first_command_at),
   first_success_at |-> Earliest(cur.first_success_at, new.first_success_at)]
-----------------------------------------------------------------------------
(* The state machine.                                                      *)

NoRows == [k \in {} |-> None]

\* new's entries replace old's.
Over(new, old) == [k \in DOMAIN new \cup DOMAIN old |->
                     IF k \in DOMAIN new THEN new[k] ELSE old[k]]

InstallsInit ==
  /\ logs = {} /\ installs = NoRows /\ changes = {} /\ discoveries = NoRows
  /\ rowLock = [k \in InstallIds |-> None]
  /\ step = [p \in Trackers |-> "idle"]
  /\ batch = [p \in Trackers |-> <<>>]
  /\ todo = [p \in Trackers |-> {}]
  /\ existing = [p \in Trackers |-> None]
  /\ rows = [p \in Trackers |-> NoRows]
  /\ recorded = [p \in Trackers |-> {}]
  /\ chunks = <<>>
  /\ spc = "idle" /\ cutoff = 0 /\ candidates = {}
  /\ deleted = {} /\ deletedChanges = {} /\ deletedDiscoveries = {}
  /\ folded = NoRows /\ sighted = NoRows /\ dropped = {} /\ snapshot = {}
  /\ count = [exports |-> 0, backfills |-> 0, sweeps |-> 0]

\* TrackInstalls begins on the install events of s, or has nothing to do.
BeginTracking(p, s, otherwise) ==
  /\ batch' = [batch EXCEPT ![p] = s]
  /\ todo' = [todo EXCEPT ![p] = Ids(Tracked(s))]
  /\ step' = [step EXCEPT ![p] = IF Tracked(s) = {} THEN otherwise ELSE "select"]
  /\ existing' = [existing EXCEPT ![p] = None]
  /\ rows' = [rows EXCEPT ![p] = NoRows]
  /\ recorded' = [recorded EXCEPT ![p] = {}]

Released(p) == [k \in InstallIds |-> IF rowLock[k] = p THEN None ELSE rowLock[k]]

EndTracking(p, next) ==
  /\ step' = [step EXCEPT ![p] = next]
  /\ batch' = [batch EXCEPT ![p] = IF next = "discover" THEN @ ELSE <<>>]
  /\ todo' = [todo EXCEPT ![p] = {}]
  /\ existing' = [existing EXCEPT ![p] = None]
  /\ rows' = [rows EXCEPT ![p] = NoRows]
  /\ recorded' = [recorded EXCEPT ![p] = {}]

\* ProcessLogs has stored the batch; a client may send one it sent before.
Store(x, s) ==
  /\ step[x] = "idle" /\ count.exports < MaxExports
  /\ logs' = logs \cup Range(s)
  /\ BeginTracking(x, s, "discover")
  /\ count' = [count EXCEPT !.exports = @ + 1]
  /\ UNCHANGED <<installs, changes, discoveries, rowLock, chunks, sweep,
                 folded, sighted, dropped, snapshot>>

\* Mutant of Key: a map's keys in no stable order.
KeyUnsorted(p) == IF p = CHOOSE x \in Exports : TRUE THEN Max(todo[p]) ELSE Min(todo[p])

Key(p) == Min(todo[p])

\* SELECT ... FOR UPDATE waits for the lock of a row that exists.  It neither
\* sees nor waits for a row another transaction is about to insert.
Select(p) ==
  /\ step[p] = "select"
  /\ IF Key(p) \in DOMAIN installs
       THEN /\ rowLock[Key(p)] = None
            /\ rowLock' = [rowLock EXCEPT ![Key(p)] = p]
            /\ existing' = [existing EXCEPT ![p] = installs[Key(p)]]
       ELSE /\ existing' = [existing EXCEPT ![p] = None]
            /\ UNCHANGED rowLock
  /\ step' = [step EXCEPT ![p] = "upsert"]
  /\ UNCHANGED <<installTables, batch, todo, rows, recorded, chunks, sweep, installHistory>>

Planned(p) == planInstall(existing[p], Of(InstallEvents(batch[p]), Key(p)))

\* The upsert waits for whoever inserts or holds the row and then merges into
\* what that transaction left; the version changes follow.
Upsert(p) ==
  LET k == Key(p)
      row == IF k \in DOMAIN installs THEN upsertInstall(installs[k], Planned(p).row)
             ELSE Planned(p).row
  IN  /\ step[p] = "upsert"
      /\ rowLock[k] \in {None, p}
      /\ rowLock' = [rowLock EXCEPT ![k] = p]
      /\ rows' = [rows EXCEPT ![p] = Over([i \in {k} |-> row], @)]
      /\ recorded' = [recorded EXCEPT ![p] = @ \cup
           {c \in Planned(p).changes : \A d \in changes : <<d.install, d.at>> # <<c.install, c.at>>}]
      /\ todo' = [todo EXCEPT ![p] = @ \ {k}]
      /\ existing' = [existing EXCEPT ![p] = None]
      /\ step' = [step EXCEPT ![p] = IF todo[p] = {k} THEN "commit" ELSE "select"]
      /\ UNCHANGED <<installTables, batch, chunks, sweep, installHistory>>

FoldedBy(p) ==
  LET Mine(k) == {e \in Tracked(batch[p]) : e.install = k}
  IN  [k \in DOMAIN rows[p] |-> IF k \in DOMAIN installs THEN folded[k] \cup Mine(k) ELSE Mine(k)]

\* An export goes on to its discoveries, the backfill to its next chunk.
CommitRows(p) ==
  /\ step[p] = "commit"
  /\ installs' = Over(rows[p], installs)
  /\ changes' = changes \cup recorded[p]
  /\ folded' = Over(FoldedBy(p), folded)
  /\ rowLock' = Released(p)
  /\ IF p = Backfill /\ chunks # <<>>
       THEN BeginTracking(p, Head(chunks), "query") /\ chunks' = Tail(chunks)
       ELSE EndTracking(p, IF p = Backfill THEN "query" ELSE "discover") /\ UNCHANGED chunks
  /\ UNCHANGED <<logs, discoveries, sweep, sighted, dropped, snapshot, count>>

\* A statement fails and the transaction rolls back: an export logs that and
\* goes on, the backfill stops.
FailRows(p) ==
  /\ step[p] \in {"select", "upsert", "commit"}
  /\ rowLock' = Released(p)
  /\ EndTracking(p, IF p = Backfill THEN "idle" ELSE "discover")
  /\ chunks' = IF p = Backfill THEN <<>> ELSE chunks
  /\ UNCHANGED <<installTables, sweep, installHistory>>

\* The earliest sighting of k in the batch.
Sighting(p, k) == Min({r.at : r \in {q \in Range(batch[p]) : k \in DiscoveryKeys(q)}})

\* TrackDiscoveries, one statement: it waits for a sweep that has deleted one
\* of its rows, and keeps the earlier of two sightings.
Discover(p) ==
  LET K == UNION {DiscoveryKeys(r) : r \in Range(batch[p])}
      times(k) == {r.at : r \in {q \in Range(batch[p]) : k \in DiscoveryKeys(q)}}
  IN  /\ step[p] = "discover"
      /\ K \cap deletedDiscoveries = {}
      /\ discoveries' = Over([k \in K |-> IF k \in DOMAIN discoveries
                                        THEN Earliest(discoveries[k], Sighting(p, k))
                                        ELSE Sighting(p, k)], discoveries)
      /\ sighted' = Over([k \in K |-> IF k \in DOMAIN discoveries
                                    THEN sighted[k] \cup times(k) ELSE times(k)], sighted)
      /\ EndTracking(p, "idle")
      /\ UNCHANGED <<logs, installs, changes, rowLock, chunks, sweep, folded, dropped, snapshot, count>>

\* The discoveries fail, or the process stops before them (or, after Fail,
\* during its transaction).
Abort(p) ==
  /\ step[p] \in {"query", "discover"}
  /\ EndTracking(p, "idle")
  /\ UNCHANGED <<installTables, rowLock, chunks, sweep, installHistory>>

\* Mutant of Chunked: the last, shorter piece is not flushed.
ChunkedWhole(s) == [i \in 1..Max({1, Len(s) \div Chunk}) |->
                      SubSeq(s, (i - 1) * Chunk + 1, Min({i * Chunk, Len(s)}))]

\* s in pieces of Chunk events; an empty s is one empty piece.
Chunked(s) == [i \in 1..Max({1, (Len(s) + Chunk - 1) \div Chunk}) |->
                 SubSeq(s, (i - 1) * Chunk + 1, Min({i * Chunk, Len(s)}))]

\* BackfillInstalls reads the logs, oldest first, in one snapshot.
BackfillStart ==
  /\ step[Backfill] = "idle" /\ count.backfills < MaxBackfills
  /\ \E s \in Orders({r \in logs : IsInstallEvent(r)}) :
       /\ \A i, j \in DOMAIN s : i < j => s[i].at <= s[j].at
       /\ chunks' = Tail(Chunked(s))
       /\ BeginTracking(Backfill, Head(Chunked(s)), "query")
  /\ snapshot' = {r \in logs : IsInstallEvent(r)}
  /\ count' = [count EXCEPT !.backfills = @ + 1]
  /\ UNCHANGED <<installTables, rowLock, sweep, folded, sighted, dropped>>

\* BackfillDiscoveries reads the logs anew.
BackfillQuery ==
  /\ step[Backfill] = "query"
  /\ LET D == {r \in logs : DiscoveryKeys(r) # {}}
     IN  batch' = [batch EXCEPT ![Backfill] = CHOOSE s \in Orders(D) : TRUE]
  /\ step' = [step EXCEPT ![Backfill] = "discover"]
  /\ UNCHANGED <<installTables, rowLock, todo, existing, rows, recorded, chunks, sweep, installHistory>>

SweepBegin(c) ==
  /\ spc = "idle" /\ count.sweeps < MaxSweeps
  /\ spc' = "changes" /\ cutoff' = c
  /\ count' = [count EXCEPT !.sweeps = @ + 1]
  /\ UNCHANGED <<installTables, rowLock, step, tx, chunks, candidates, deleted, deletedChanges,
                 deletedDiscoveries, folded, sighted, dropped, snapshot>>

SweepChanges ==
  /\ spc = "changes"
  /\ deletedChanges' = {c \in changes : c.at < cutoff}
  /\ spc' = "discoveries"
  /\ UNCHANGED <<installTables, rowLock, step, tx, chunks, cutoff, candidates, deleted,
                 deletedDiscoveries, installHistory>>

Unseen == {k \in DOMAIN installs : installs[k].last_seen < cutoff}

SweepDiscoveries ==
  /\ spc = "discoveries"
  /\ deletedDiscoveries' = {k \in DOMAIN discoveries : k[1] \in Unseen}
  /\ spc' = "installs"
  /\ UNCHANGED <<installTables, rowLock, step, tx, chunks, cutoff, candidates, deleted,
                 deletedChanges, installHistory>>

\* The DELETE of installs finds its rows ...
SweepInstalls ==
  /\ spc = "installs"
  /\ candidates' = Unseen
  /\ spc' = "rows"
  /\ UNCHANGED <<installTables, rowLock, step, tx, chunks, cutoff, deleted, deletedChanges,
                 deletedDiscoveries, installHistory>>

\* ... and locks them one by one, each of which it looks at again.
SweepRow(k) ==
  /\ spc = "rows" /\ k \in candidates /\ rowLock[k] = None
  /\ IF k \in Unseen
       THEN deleted' = deleted \cup {k} /\ rowLock' = [rowLock EXCEPT ![k] = Sweeper]
       ELSE UNCHANGED <<deleted, rowLock>>
  /\ candidates' = candidates \ {k}
  /\ UNCHANGED <<installTables, step, tx, chunks, spc, cutoff, deletedChanges, deletedDiscoveries, installHistory>>

SweepOrphans ==
  /\ spc = "rows" /\ candidates = {}
  /\ deletedDiscoveries' = deletedDiscoveries \cup
       {k \in DOMAIN discoveries : discoveries[k] < cutoff /\ k[1] \notin DOMAIN installs \ deleted}
  /\ spc' = "commit"
  /\ UNCHANGED <<installTables, rowLock, step, tx, chunks, cutoff, candidates, deleted, deletedChanges, installHistory>>

EndSweep ==
  /\ spc' = "idle" /\ cutoff' = 0 /\ candidates' = {} /\ deleted' = {}
  /\ deletedChanges' = {} /\ deletedDiscoveries' = {}
  /\ rowLock' = Released(Sweeper)

Remaining(f, K) == [k \in DOMAIN f \ K |-> f[k]]

\* The commit of sweepInstalls; the vocabulary tables are swept in Vocabulary.
SweepCommit ==
  /\ spc = "commit"
  /\ installs' = Remaining(installs, deleted)
  /\ changes' = changes \ deletedChanges
  /\ discoveries' = Remaining(discoveries, deletedDiscoveries)
  /\ dropped' = dropped \cup UNION {folded[k] : k \in deleted}
  /\ folded' = Remaining(folded, deleted)
  /\ sighted' = Remaining(sighted, deletedDiscoveries)
  /\ EndSweep
  /\ UNCHANGED <<logs, step, tx, chunks, snapshot, count>>

SweepFails ==
  /\ spc # "idle"
  /\ EndSweep
  /\ UNCHANGED <<installTables, step, tx, chunks, installHistory>>

InstallsNext ==
  \/ \E x \in Exports, s \in EventBatches : Store(x, s)
  \/ \E p \in Trackers : Select(p) \/ Upsert(p) \/ CommitRows(p) \/ FailRows(p) \/ Discover(p) \/ Abort(p)
  \/ BackfillStart \/ BackfillQuery
  \/ \E c \in Cutoffs : SweepBegin(c)
  \/ SweepChanges \/ SweepDiscoveries \/ SweepInstalls
  \/ \E k \in InstallIds : SweepRow(k)
  \/ SweepOrphans \/ SweepCommit \/ SweepFails

InstallsSpec == InstallsInit /\ [][InstallsNext]_installVars
-----------------------------------------------------------------------------
(* Properties.                                                             *)

Times == {r.at : r \in Records}
Rows == [first_seen : Times, last_seen : Times,
         first_version : Versions \cup {None}, last_version : Versions \cup {None},
         install_method : Methods \cup {None},
         first_command_at : Times \cup {None}, first_success_at : Times \cup {None}]

\* Types, and that a row lock belongs to a transaction that is under way.
InstallsTypeOK ==
  /\ DOMAIN installs \subseteq InstallIds /\ Range(installs) \subseteq Rows
  /\ DOMAIN folded = DOMAIN installs /\ DOMAIN sighted = DOMAIN discoveries
  /\ step \in [Trackers -> {"idle", "select", "upsert", "commit", "query", "discover"}]
  /\ \A p \in Trackers : DOMAIN rows[p] \cap todo[p] = {} /\ Range(rows[p]) \subseteq Rows
  /\ rowLock \in [InstallIds -> Trackers \cup {Sweeper, None}]
  /\ \A k \in InstallIds :
       /\ rowLock[k] \in Trackers => step[rowLock[k]] \in {"select", "upsert", "commit"}
       /\ rowLock[k] = Sweeper <=> k \in deleted

First(E) == IF E = {} THEN None ELSE Min({e.at : e \in E})

\* A row summarises the events folded into it since it exists, whatever the
\* order, the batches, the repeats and the concurrent transactions they came
\* in: its times are the extremes, and its versions those of an event at that
\* time, unless that event has none.  So does a discovery: first_at is its
\* earliest sighting.
RowSummarises ==
  /\ \A k \in DOMAIN installs :
       LET row == installs[k]
           commands == {e \in folded[k] : e.event = "completed"}
           At(t, v) == \E e \in folded[k] : e.at = t /\ e.version \in {v, None}
       IN  /\ row.first_seen = First(folded[k])
           /\ row.last_seen = Max({e.at : e \in folded[k]})
           /\ row.first_command_at = First(commands)
           /\ row.first_success_at = First({e \in commands : e.exit = 0})
           /\ At(row.first_seen, row.first_version) /\ At(row.last_seen, row.last_version)
  /\ \A k \in DOMAIN discoveries : discoveries[k] = Min(sighted[k])

\* A recorded version change happened: the install ran `to' at that time and
\* `from' before, and no install has two changes at one time.
ChangesHappened == \A c \in changes :
  LET events == dropped \cup UNION Range(folded) IN
  /\ \E e, f \in events :
       /\ e.install = c.install /\ e.at = c.at /\ e.version = c.to
       /\ f.install = c.install /\ f.at < c.at /\ f.version = c.from
  /\ c.upgrade <=> Semver[c.from] < Semver[c.to]
  /\ \A d \in changes : <<c.install, c.at>> = <<d.install, d.at>> => c = d

WaitsFor(p, q) ==
  /\ p # q
  /\ \/ step[p] = "select" /\ Key(p) \in DOMAIN installs
     \/ step[p] = "upsert"
  /\ rowLock[Key(p)] = q

\* TrackInstalls: "installs are locked in a stable order so concurrent batches
\* can't deadlock".  In any set of trackers one waits for none of the others.
BatchesNeverDeadlock == \A P \in SUBSET Trackers :
  P # {} => \E p \in P : \A q \in P : ~ WaitsFor(p, q)

\* Once the backfill has replayed the installs, every event it read counts in
\* some row, or went with a row swept since: what a failed export or a crash
\* left out is recovered.
BackfillCovers ==
  step[Backfill] \in {"query", "discover"} => snapshot \subseteq dropped \cup UNION Range(folded)

\* docs/schema.md: discoveries are "Kept as long as the install is".  Once its
\* DELETE of installs is done, a sweep has deleted no discovery of an install
\* that stays.
DiscoveriesKept ==
  spc = "rows" /\ candidates = {} =>
    \A k \in deletedDiscoveries : k[1] \notin DOMAIN installs \ deleted
=============================================================================
