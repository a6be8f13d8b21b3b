---------------------------- MODULE ErrorReasons ----------------------------
(***************************************************************************)
(* The capped vocabulary of error reasons of one tenant: AdmitErrorReasons *)
(* (internal/storage/error_reasons.go) run by concurrent export requests,  *)
(* the folding of the records around it (internal/otlp/reasons.go), the    *)
(* write of the rows, and `argvio retention sweep`.                        *)
(*                                                                         *)
(* Every statement sent to Postgres outside a transaction is one step, and *)
(* so is every read inside the transaction, since READ COMMITTED gives     *)
(* each statement its own snapshot.  The writes of the transaction become  *)
(* visible at its commit, which is one step.                               *)
(***************************************************************************)
EXTENDS VocabularyPlan

CONSTANTS
  Writers,        \* concurrent export requests, of all server processes
  Reasons,        \* reasons clients send, as positive integers
  Batches,        \* what one export may carry: reason -> number of records
  Limits,         \* max_error_reasons_per_tenant of the running processes
  TouchInterval,  \* vocabularyTouchInterval, in clock ticks
  Retentions,     \* the sweep's window, in clock ticks
  MaxTime,        \* bound: the clock stops here
  MaxRequests,    \* bound: exports over all writers
  MaxSpan,        \* bound: ticks an export may last
  NoWriter

ASSUME ReasonsAssumption ==
  /\ Reasons \subseteq Nat \ {0}
  /\ \A c \in Batches :
       /\ DOMAIN c \subseteq Reasons \cup {Other} /\ IsFiniteSet(DOMAIN c)
       /\ c \in [DOMAIN c -> Nat \ {0}]
  /\ Limits \subseteq Nat \ {0}
  /\ NoWriter \notin Writers

ASSUME WritersAssumption == IsFiniteSet(Writers)

ASSUME ClockAssumption ==
  /\ TouchInterval \in Nat /\ MaxTime \in Nat /\ MaxRequests \in Nat /\ MaxSpan \in Nat
  /\ Retentions \subseteq Nat

VARIABLES
  reasons,   \* table error_reasons: reason -> last_seen
  overflow,  \* error_reason_overflow.folded_count
  lock,      \* holder of the advisory lock 'error_reasons:<tenant>'
  now,       \* wall clock
  pc,        \* where each writer is
  counts,    \* the batch of each writer
  limit,     \* the limit it applies
  at,        \* the time it stamps
  known,     \* the reasons its last read found
  add,       \* the reasons it will insert
  requests,  \* exports begun
  stored,    \* history: reasons of stored records
  swept,     \* history: reasons sweeps removed
  folds,     \* history: records folded and then stored, or folded and lost
  lastUse    \* history: latest time stamped by a stored export of a reason

tables == <<reasons, overflow, lock>>
locals == <<counts, limit, at, known, add>>
history == <<stored, swept, folds, lastUse>>
vars == <<tables, locals, history, now, pc, requests>>

Empty == [r \in {} |-> 0]

Init ==
  /\ reasons = Empty /\ overflow = 0 /\ lock = NoWriter /\ now = 0
  /\ pc = [w \in Writers |-> "idle"]
  /\ counts = [w \in Writers |-> Empty]
  /\ limit = [w \in Writers |-> 0]
  /\ at = [w \in Writers |-> 0]
  /\ known = [w \in Writers |-> {}]
  /\ add = [w \in Writers |-> {}]
  /\ requests = 0
  /\ stored = {} /\ swept = {} /\ folds = [stored |-> 0, lost |-> 0]
  /\ lastUse = Empty

-----------------------------------------------------------------------------
\* The reasons a batch looks up: "other" needs no admission.
Values(w) == DOMAIN counts[w] \ {Other}

StaleBefore(w) == at[w] - TouchInterval

Goto(w, label) == pc' = [pc EXCEPT ![w] = label]

\* The reasons the batch may store as they are.
Admitted(w) == known[w] \cup add[w]

\* The records AdmitErrorReasons reports as folded.
FoldedCount(w) == PlanFolded(Values(w), Admitted(w), counts[w])

\* An export with error reasons reaches the cap; without any to look up it
\* goes straight to the write.
Begin(w, c, l) ==
  /\ pc[w] = "idle" /\ requests < MaxRequests
  /\ requests' = requests + 1
  /\ counts' = [counts EXCEPT ![w] = c]
  /\ limit' = [limit EXCEPT ![w] = l]
  /\ at' = [at EXCEPT ![w] = now]
  /\ Goto(w, IF DOMAIN c \subseteq {Other} THEN "insert" ELSE "read")
  /\ UNCHANGED <<tables, history, now, known, add>>

\* Mutant of Read: the fast path never refreshes last_seen.
ReadNoTouch(w) ==
  /\ pc[w] = "read"
  /\ known' = [known EXCEPT ![w] = Values(w) \cap DOMAIN reasons]
  /\ Goto(w, IF ~ Values(w) \subseteq DOMAIN reasons THEN "lock" ELSE "insert")
  /\ UNCHANGED <<tables, counts, limit, at, add, history, now, requests>>

\* The read outside any transaction: known reasons need no lock.
Read(w) ==
  /\ pc[w] = "read"
  /\ known' = [known EXCEPT ![w] = Values(w) \cap DOMAIN reasons]
  /\ Goto(w, IF ~ Values(w) \subseteq DOMAIN reasons THEN "lock"
             ELSE IF Stale(reasons, Values(w), StaleBefore(w)) THEN "touch"
             ELSE "insert")
  /\ UNCHANGED <<tables, counts, limit, at, add, history, now, requests>>

Touch(w) ==
  /\ pc[w] = "touch"
  /\ reasons' = Touched(reasons, Values(w), at[w], StaleBefore(w))
  /\ Goto(w, "insert")
  /\ UNCHANGED <<overflow, lock, locals, history, now, requests>>

\* Mutant of Lock: the transaction starts without the advisory lock.
LockSkipped(w) ==
  /\ pc[w] = "lock"
  /\ lock' = w
  /\ Goto(w, "reread")
  /\ UNCHANGED <<reasons, overflow, locals, history, now, requests>>

Lock(w) ==
  /\ pc[w] = "lock" /\ lock = NoWriter
  /\ lock' = w
  /\ Goto(w, "reread")
  /\ UNCHANGED <<reasons, overflow, locals, history, now, requests>>

\* The read repeated under the lock.
Reread(w) ==
  /\ pc[w] = "reread"
  /\ known' = [known EXCEPT ![w] = Values(w) \cap DOMAIN reasons]
  /\ Goto(w, "plan")
  /\ UNCHANGED <<tables, counts, limit, at, add, history, now, requests>>

\* SELECT count(*), then the choice of the reasons to admit.
Plan(w) ==
  /\ pc[w] = "plan"
  /\ add' = [add EXCEPT ![w] =
       PlanAdd(Values(w), known[w], counts[w], limit[w] - Cardinality(DOMAIN reasons))]
  /\ Goto(w, "commit")
  /\ UNCHANGED <<tables, counts, limit, at, known, history, now, requests>>

\* Mutant of Commit: counts the folded reasons, not the folded records.
CommitCountsReasons(w) ==
  /\ pc[w] = "commit"
  /\ reasons' = Touched(Inserted(reasons, add[w], at[w]), Values(w), at[w], StaleBefore(w))
  /\ overflow' = overflow + Cardinality(Values(w) \ Admitted(w))
  /\ lock' = NoWriter
  /\ Goto(w, "insert")
  /\ UNCHANGED <<locals, history, now, requests>>

\* Insert, touch and overflow become visible; the commit releases the lock.
Commit(w) ==
  /\ pc[w] = "commit"
  /\ reasons' = Touched(Inserted(reasons, add[w], at[w]), Values(w), at[w], StaleBefore(w))
  /\ overflow' = overflow + FoldedCount(w)
  /\ lock' = NoWriter
  /\ Goto(w, "insert")
  /\ UNCHANGED <<locals, history, now, requests>>

Forget(w) ==
  /\ counts' = [counts EXCEPT ![w] = Empty]
  /\ limit' = [limit EXCEPT ![w] = 0]
  /\ at' = [at EXCEPT ![w] = 0]
  /\ known' = [known EXCEPT ![w] = {}]
  /\ add' = [add EXCEPT ![w] = {}]
  /\ Goto(w, "idle")

\* What a record's reason is stored as.
StoredAs(w, r) == IF r \in Admitted(w) THEN r ELSE Other

\* capErrorReasons rewrites the records and InsertLogs or InsertMetrics
\* stores them all.
Insert(w) ==
  /\ pc[w] = "insert"
  /\ stored' = stored \cup {StoredAs(w, r) : r \in DOMAIN counts[w]}
  /\ folds' = [folds EXCEPT !.stored = @ + FoldedCount(w)]
  /\ lastUse' = [r \in DOMAIN lastUse \cup Admitted(w) |->
       IF r \in Admitted(w) /\ (r \notin DOMAIN lastUse \/ lastUse[r] < at[w])
       THEN at[w] ELSE lastUse[r]]
  /\ Forget(w)
  /\ UNCHANGED <<tables, swept, now, requests>>

\* A statement fails or the client goes away: the transaction, if open, rolls
\* back, the export is rejected and the client may send the batch again.
Fail(w) ==
  /\ pc[w] # "idle"
  /\ lock' = IF lock = w THEN NoWriter ELSE lock
  /\ folds' = IF pc[w] = "insert" THEN [folds EXCEPT !.lost = @ + FoldedCount(w)] ELSE folds
  /\ Forget(w)
  /\ UNCHANGED <<reasons, overflow, stored, swept, lastUse, now, requests>>

\* The reason part of sweepInstalls, one transaction that takes no advisory
\* lock.  A sweep that finds nothing changes nothing.
Sweep(days) ==
  /\ LET gone == Expired(reasons, now - days) IN
       /\ gone # {}
       /\ reasons' = Without(reasons, gone)
       /\ swept' = swept \cup gone
  /\ UNCHANGED <<overflow, lock, locals, stored, folds, lastUse, now, pc, requests>>

Tick ==
  /\ now < MaxTime
  /\ \A w \in Writers : pc[w] # "idle" => now - at[w] < MaxSpan
  /\ now' = now + 1
  /\ UNCHANGED <<tables, locals, history, pc, requests>>

Step(w) ==
  \/ Read(w) \/ Touch(w) \/ Lock(w) \/ Reread(w) \/ Plan(w) \/ Commit(w) \/ Insert(w)

\* Nothing is left to do within the bounds.
Quiescent ==
  /\ requests = MaxRequests /\ now = MaxTime /\ \A w \in Writers : pc[w] = "idle"
  /\ UNCHANGED vars

Next ==
  \/ \E w \in Writers :
       \/ \E c \in Batches, l \in Limits : Begin(w, c, l)
       \/ Step(w)
       \/ Fail(w)
  \/ \E days \in Retentions : Sweep(days)
  \/ Tick
  \/ Quiescent

Spec == Init /\ [][Next]_vars
-----------------------------------------------------------------------------
(* Properties.                                                             *)

TypeOK ==
  /\ DOMAIN reasons \in SUBSET Reasons
  /\ \A r \in DOMAIN reasons : reasons[r] \in 0..MaxTime
  /\ lock \in Writers \cup {NoWriter}
  /\ now \in 0..MaxTime
  /\ pc \in [Writers -> {"idle", "read", "touch", "lock", "reread", "plan", "commit", "insert"}]
  /\ counts \in [Writers -> Batches \cup {Empty}]
  /\ limit \in [Writers -> Limits \cup {0}]
  /\ at \in [Writers -> 0..MaxTime]
  /\ known \in [Writers -> SUBSET Reasons]
  /\ add \in [Writers -> SUBSET Reasons]
  /\ requests \in 0..MaxRequests
  /\ stored \in SUBSET (Reasons \cup {Other})
  /\ swept \in SUBSET Reasons

\* The table never holds more reasons than the largest limit in force, however
\* concurrent batches and sweeps interleave around the advisory lock.
Capped == \E l \in Limits \cup {0} : Cardinality(DOMAIN reasons) <= l

\* Stronger: the listed reasons behave as a capped set, which grows only to a
\* size the limit of some batch allows.
Vocabulary == INSTANCE CappedSet WITH listed <- DOMAIN reasons
RefinesCappedSet == Vocabulary!Spec

\* A record is stored under a reason that the vocabulary lists, or did until a
\* sweep, or under "other": no unlisted reason slips past the cap.
StoredWasListed == stored \subseteq DOMAIN reasons \cup swept \cup {Other}

\* last_seen never moves back, although the batches that stamp it may finish
\* in another order than they began.
LastSeenForward ==
  [][\A r \in DOMAIN reasons \cap DOMAIN reasons' : reasons[r] <= reasons'[r]]_vars

\* last_seen trails the latest stored use of a listed reason by no more than
\* the touch interval, plus the time one export may last: a sweep can only
\* remove a reason unused for its window less that much.
LastSeenTracksUse ==
  \A r \in DOMAIN reasons \cap DOMAIN lastUse :
     lastUse[r] <= reasons[r] + TouchInterval + MaxSpan

\* The overflow counter is exactly the records folded: those stored, those of
\* exports still to be written, and those of exports that failed afterwards.
OverflowAccounted ==
  LET pending == {w \in Writers : pc[w] = "insert"}
  IN  overflow = folds.stored + folds.lost
                 + SumFunctionOnSet([w \in Writers |-> FoldedCount(w)], pending)

\* Whatever is past the cap is stored as "other" and counted, and nothing else is.
FoldingAccounted == StoredWasListed /\ OverflowAccounted

\* A new reason is folded only if the vocabulary is full with what the batch
\* adds: no slot stays free while a record is stored as "other".
FoldsOnlyWhenFull ==
  [][\A w \in Writers : pc[w] = "plan" /\ pc'[w] = "commit" =>
       \/ Values(w) \subseteq known[w] \cup add'[w]
       \/ Cardinality(DOMAIN reasons \cup add'[w]) >= limit[w]]_vars
=============================================================================
