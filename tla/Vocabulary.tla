----------------------------- MODULE Vocabulary -----------------------------
(***************************************************************************)
(* The two-level vocabulary of one vendor instrument of one tenant: names, *)
(* and labels under each name.  Counters, measures and values share it:    *)
(* admit (internal/storage/counters.go) run by concurrent export requests, *)
(* the folding of the points around it (capVendorInstrument in             *)
(* internal/otlp/counters.go), the write of the rows, and `argvio          *)
(* retention sweep`.                                                       *)
(*                                                                         *)
(* Steps are chosen as in ErrorReasons: one per statement, and one for the *)
(* commit of the transaction under the advisory lock.                      *)
(***************************************************************************)
EXTENDS VocabularyPlan

CONSTANTS
  Writers,       \* concurrent export requests, of all server processes
  Names, Labels, \* what clients send, as positive integers
  Batches,       \* one export: <<name, label>> -> number of points
  NameLimits,    \* max_*_names in force: per-tenant config is cached, so
  LabelLimits,   \*   concurrent batches may apply different limits
  TouchInterval, \* vocabularyTouchInterval, in clock ticks
  Retentions,    \* the sweep's window, in clock ticks
  MaxTime,       \* bound: the clock stops here
  MaxRequests,   \* bound: exports over all writers
  MaxSpan,       \* bound: ticks an export may last
  NoWriter

NoLabel == -1

Keys == (Names \cup {Other}) \X (Labels \cup {Other, NoLabel})

\* The split of a batch at the head of admit: the names to look up with the
\* points that carry each, and the (name, label) pairs.
NamesOf(c) == {k[1] : k \in DOMAIN c} \ {Other}
PairsOf(c) == {k \in DOMAIN c : k[1] # Other /\ k[2] \notin {Other, NoLabel}}
NameCounts(c) ==
  [n \in NamesOf(c) |-> SumFunctionOnSet(c, {k \in DOMAIN c : k[1] = n})]
LabelsUnder(pairs, n) == {k[2] : k \in {p \in pairs : p[1] = n}}
LabelCounts(c, n) == [l \in LabelsUnder(PairsOf(c), n) |-> c[<<n, l>>]]

ASSUME BatchAssumption ==
  /\ Names \subseteq Nat \ {0} /\ Labels \subseteq Nat \ {0}
  /\ \A c \in Batches :
       /\ DOMAIN c \subseteq Keys /\ IsFiniteSet(DOMAIN c)
       /\ c \in [DOMAIN c -> Nat \ {0}]

ASSUME VocabularyAssumption ==
  /\ NameLimits \subseteq Nat /\ LabelLimits \subseteq Nat
  /\ IsFiniteSet(Writers) /\ NoWriter \notin Writers
  /\ TouchInterval \in Nat /\ MaxTime \in Nat /\ MaxRequests \in Nat /\ MaxSpan \in Nat
  /\ Retentions \subseteq Nat

VARIABLES
  names, labels,       \* the tables: value -> last_seen
  overflow,            \* *_overflow: folded_names, folded_labels
  lock,                \* holder of the advisory lock '<noun>s:<tenant>'
  now, pc, requests,
  counts, limits, at,  \* the batch of each writer, its limits, its time
  knownNames, knownLabels, stale,  \* what its last reads found
  addNames, addLabels, \* what it will insert
  stored,              \* history: keys of stored points
  swept,               \* history: names and keys that sweeps removed
  folds                \* history: points folded and stored, or folded and lost

tables == <<names, labels, overflow, lock>>
reads == <<knownNames, knownLabels, stale>>
plans == <<addNames, addLabels>>
batch == <<counts, limits, at>>
history == <<stored, swept, folds>>
vars == <<tables, reads, plans, batch, history, now, pc, requests>>

Empty == [v \in {} |-> 0]
NoLimits == [names |-> 0, labels |-> 0]

Init ==
  /\ names = Empty /\ labels = Empty
  /\ overflow = [names |-> 0, labels |-> 0]
  /\ lock = NoWriter /\ now = 0 /\ requests = 0
  /\ pc = [w \in Writers |-> "idle"]
  /\ counts = [w \in Writers |-> Empty]
  /\ limits = [w \in Writers |-> NoLimits]
  /\ at = [w \in Writers |-> 0]
  /\ knownNames = [w \in Writers |-> {}]
  /\ knownLabels = [w \in Writers |-> {}]
  /\ stale = [w \in Writers |-> FALSE]
  /\ addNames = [w \in Writers |-> {}]
  /\ addLabels = [w \in Writers |-> {}]
  /\ stored = {} /\ swept = [names |-> {}, labels |-> {}]
  /\ folds = [stored |-> 0, lost |-> 0]

-----------------------------------------------------------------------------
Goto(w, label) == pc' = [pc EXCEPT ![w] = label]

StaleBefore(w) == at[w] - TouchInterval

\* CounterAdmission: the names kept, and the labels kept under them.
AdmittedNames(w) == knownNames[w] \cup addNames[w]
AdmittedLabels(w) == {k \in knownLabels[w] : k[1] \in AdmittedNames(w)} \cup addLabels[w]

FoldedNames(w) == PlanFolded(NamesOf(counts[w]), AdmittedNames(w), NameCounts(counts[w]))
FoldedLabels(w) ==
  PlanFolded({k \in PairsOf(counts[w]) : k[1] \in AdmittedNames(w)}, AdmittedLabels(w), counts[w])

\* A batch reaches the cap; one that only names "other" needs no lookup.
Begin(w, c, nl, ll) ==
  /\ pc[w] = "idle" /\ requests < MaxRequests
  /\ requests' = requests + 1
  /\ counts' = [counts EXCEPT ![w] = c]
  /\ limits' = [limits EXCEPT ![w] = [names |-> nl, labels |-> ll]]
  /\ at' = [at EXCEPT ![w] = now]
  /\ Goto(w, IF NamesOf(c) = {} THEN "insert" ELSE "read names")
  /\ UNCHANGED <<tables, reads, plans, history, now>>

\* knownVocabulary, its query of the names: outside any transaction, or
\* again under the lock.
ReadNames(w) ==
  /\ pc[w] \in {"read names", "reread names"}
  /\ knownNames' = [knownNames EXCEPT ![w] = NamesOf(counts[w]) \cap DOMAIN names]
  /\ stale' = [stale EXCEPT ![w] = Stale(names, NamesOf(counts[w]), StaleBefore(w))]
  /\ Goto(w, IF pc[w] = "read names" THEN "read labels" ELSE "reread labels")
  /\ UNCHANGED <<tables, knownLabels, plans, batch, history, now, requests>>

\* Its query of the labels.  If everything is known no lock is needed.
ReadLabels(w) ==
  LET pairs == PairsOf(counts[w])
      allKnown == knownNames[w] = NamesOf(counts[w]) /\ pairs \subseteq DOMAIN labels
      anyStale == stale[w] \/ Stale(labels, pairs, StaleBefore(w))
  IN  /\ pc[w] \in {"read labels", "reread labels"}
      /\ knownLabels' = [knownLabels EXCEPT ![w] = pairs \cap DOMAIN labels]
      /\ stale' = [stale EXCEPT ![w] = FALSE]
      /\ Goto(w, IF pc[w] = "reread labels" THEN "plan names"
                 ELSE IF ~ allKnown THEN "lock"
                 ELSE IF anyStale THEN "touch names" ELSE "insert")
      /\ UNCHANGED <<tables, knownNames, plans, batch, history, now, requests>>

\* touchVocabulary on the pool: two statements, each visible at once.
TouchNames(w) ==
  /\ pc[w] = "touch names"
  /\ names' = Touched(names, NamesOf(counts[w]), at[w], StaleBefore(w))
  /\ Goto(w, "touch labels")
  /\ UNCHANGED <<labels, overflow, lock, reads, plans, batch, history, now, requests>>

TouchLabels(w) ==
  /\ pc[w] = "touch labels"
  /\ labels' = Touched(labels, PairsOf(counts[w]), at[w], StaleBefore(w))
  /\ Goto(w, "insert")
  /\ UNCHANGED <<names, overflow, lock, reads, plans, batch, history, now, requests>>

\* Mutant of Lock: the transaction starts without the advisory lock.
LockSkipped(w) ==
  /\ pc[w] = "lock"
  /\ lock' = w
  /\ Goto(w, "reread names")
  /\ UNCHANGED <<names, labels, overflow, reads, plans, batch, history, now, requests>>

Lock(w) ==
  /\ pc[w] = "lock" /\ lock = NoWriter
  /\ lock' = w
  /\ Goto(w, "reread names")
  /\ UNCHANGED <<names, labels, overflow, reads, plans, batch, history, now, requests>>

\* Count the names and choose those to add.
PlanNames(w) ==
  /\ pc[w] = "plan names"
  /\ addNames' = [addNames EXCEPT ![w] =
       PlanAdd(NamesOf(counts[w]), knownNames[w], NameCounts(counts[w]),
               limits[w].names - Cardinality(DOMAIN names))]
  /\ Goto(w, "plan labels")
  /\ UNCHANGED <<tables, reads, addLabels, batch, history, now, requests>>

\* The labels to add under one kept name, whose present labels are counted.
LabelPlan(w, n) ==
  PlanAdd(LabelsUnder(PairsOf(counts[w]), n), LabelsUnder(knownLabels[w], n),
          LabelCounts(counts[w], n),
          limits[w].labels - Cardinality(LabelsUnder(DOMAIN labels, n)))

PlanLabels(w) ==
  /\ pc[w] = "plan labels"
  /\ addLabels' = [addLabels EXCEPT ![w] =
       {k \in PairsOf(counts[w]) : k[1] \in AdmittedNames(w) /\ k[2] \in LabelPlan(w, k[1])}]
  /\ Goto(w, "commit")
  /\ UNCHANGED <<tables, reads, addNames, batch, history, now, requests>>

\* Mutant of Commit: counts the folded names but not the folded labels.
CommitNamesOnly(w) ==
  /\ pc[w] = "commit"
  /\ names' = Touched(Inserted(names, addNames[w], at[w]),
                      NamesOf(counts[w]), at[w], StaleBefore(w))
  /\ labels' = Touched(Inserted(labels, addLabels[w], at[w]),
                       PairsOf(counts[w]), at[w], StaleBefore(w))
  /\ overflow' = [overflow EXCEPT !.names = @ + FoldedNames(w)]
  /\ lock' = NoWriter
  /\ Goto(w, "insert")
  /\ UNCHANGED <<reads, plans, batch, history, now, requests>>

\* The inserts, the touch and the overflow become visible together, and the
\* commit releases the lock.
Commit(w) ==
  /\ pc[w] = "commit"
  /\ names' = Touched(Inserted(names, addNames[w], at[w]),
                      NamesOf(counts[w]), at[w], StaleBefore(w))
  /\ labels' = Touched(Inserted(labels, addLabels[w], at[w]),
                       PairsOf(counts[w]), at[w], StaleBefore(w))
  /\ overflow' = [names |-> overflow.names + FoldedNames(w),
                  labels |-> overflow.labels + FoldedLabels(w)]
  /\ lock' = NoWriter
  /\ Goto(w, "insert")
  /\ UNCHANGED <<reads, plans, batch, history, now, requests>>

Forget(w) ==
  /\ counts' = [counts EXCEPT ![w] = Empty]
  /\ limits' = [limits EXCEPT ![w] = NoLimits]
  /\ at' = [at EXCEPT ![w] = 0]
  /\ knownNames' = [knownNames EXCEPT ![w] = {}]
  /\ knownLabels' = [knownLabels EXCEPT ![w] = {}]
  /\ stale' = [stale EXCEPT ![w] = FALSE]
  /\ addNames' = [addNames EXCEPT ![w] = {}]
  /\ addLabels' = [addLabels EXCEPT ![w] = {}]
  /\ Goto(w, "idle")

\* The switch at the end of capVendorInstrument: what a point is stored as.
StoredAs(w, k) ==
  IF k[1] \notin AdmittedNames(w) THEN <<Other, NoLabel>>
  ELSE IF k[2] \in {Other, NoLabel} \cup LabelsUnder(AdmittedLabels(w), k[1]) THEN k
  ELSE <<k[1], Other>>

\* The points are rewritten and InsertMetrics stores them all.
Insert(w) ==
  /\ pc[w] = "insert"
  /\ stored' = stored \cup {StoredAs(w, k) : k \in DOMAIN counts[w]}
  /\ folds' = [folds EXCEPT !.stored = @ + FoldedNames(w) + FoldedLabels(w)]
  /\ Forget(w)
  /\ UNCHANGED <<tables, swept, now, requests>>

\* Mutant of Fail: the transaction is left open.
FailKeepsLock(w) ==
  /\ pc[w] # "idle"
  /\ folds' = IF pc[w] = "insert"
              THEN [folds EXCEPT !.lost = @ + FoldedNames(w) + FoldedLabels(w)] ELSE folds
  /\ Forget(w)
  /\ UNCHANGED <<tables, stored, swept, now, requests>>

\* A statement of this or of a later cap fails, or the client goes away: an
\* open transaction rolls back and the export is rejected.
Fail(w) ==
  /\ pc[w] # "idle"
  /\ lock' = IF lock = w THEN NoWriter ELSE lock
  /\ folds' = IF pc[w] = "insert"
              THEN [folds EXCEPT !.lost = @ + FoldedNames(w) + FoldedLabels(w)] ELSE folds
  /\ Forget(w)
  /\ UNCHANGED <<names, labels, overflow, stored, swept, now, requests>>

\* The part of sweepInstalls for one instrument: names not seen since the
\* cutoff, then labels not seen since or left without a name.  It takes no
\* advisory lock; its row locks make a concurrent touch wait for its commit,
\* so the transaction is one step.
Sweep(days) ==
  LET cutoff == now - days
      goneNames == Expired(names, cutoff)
      goneLabels == Expired(labels, cutoff) \cup
                    {k \in DOMAIN labels : k[1] \notin DOMAIN names \ goneNames}
  IN  /\ goneNames # {} \/ goneLabels # {}
      /\ names' = Without(names, goneNames)
      /\ labels' = Without(labels, goneLabels)
      /\ swept' = [names |-> swept.names \cup goneNames,
                   labels |-> swept.labels \cup goneLabels]
      /\ UNCHANGED <<overflow, lock, reads, plans, batch, stored, folds, now, pc, requests>>

Tick ==
  /\ now < MaxTime
  /\ \A w \in Writers : pc[w] # "idle" => now - at[w] < MaxSpan
  /\ now' = now + 1
  /\ UNCHANGED <<tables, reads, plans, batch, history, pc, requests>>

Step(w) ==
  \/ ReadNames(w) \/ ReadLabels(w) \/ TouchNames(w) \/ TouchLabels(w) \/ Lock(w)
  \/ PlanNames(w) \/ PlanLabels(w) \/ Commit(w) \/ Insert(w)

\* Nothing is left to do within the bounds.
Quiescent ==
  /\ requests = MaxRequests /\ now = MaxTime /\ \A w \in Writers : pc[w] = "idle"
  /\ UNCHANGED vars

Next ==
  \/ \E w \in Writers :
       \/ \E c \in Batches, nl \in NameLimits, ll \in LabelLimits : Begin(w, c, nl, ll)
       \/ Step(w)
       \/ Fail(w)
  \/ \E days \in Retentions : Sweep(days)
  \/ Tick
  \/ Quiescent

Spec == Init /\ [][Next]_vars

\* A goroutine that can run does run, and Postgres grants an advisory lock to
\* its waiters in turn.
Fairness == \A w \in Writers : WF_vars(Step(w)) /\ SF_vars(Lock(w))

FairSpec == Spec /\ Fairness
-----------------------------------------------------------------------------
(* Properties.                                                             *)

Points == {"idle", "read names", "read labels", "touch names", "touch labels", "lock",
           "reread names", "reread labels", "plan names", "plan labels", "commit", "insert"}

TypeOK ==
  /\ DOMAIN names \in SUBSET Names /\ \A n \in DOMAIN names : names[n] \in 0..MaxTime
  /\ DOMAIN labels \in SUBSET (Names \X Labels)
  /\ \A k \in DOMAIN labels : labels[k] \in 0..MaxTime
  /\ lock \in Writers \cup {NoWriter}
  /\ now \in 0..MaxTime /\ requests \in 0..MaxRequests
  /\ pc \in [Writers -> Points]
  /\ counts \in [Writers -> Batches \cup {Empty}]
  /\ limits \in [Writers -> [names : NameLimits \cup {0}, labels : LabelLimits \cup {0}]]
  /\ at \in [Writers -> 0..MaxTime]
  /\ knownNames \in [Writers -> SUBSET Names] /\ addNames \in [Writers -> SUBSET Names]
  /\ knownLabels \in [Writers -> SUBSET (Names \X Labels)]
  /\ addLabels \in [Writers -> SUBSET (Names \X Labels)]
  /\ stale \in [Writers -> BOOLEAN]
  /\ stored \in SUBSET Keys
  /\ swept \in [names : SUBSET Names, labels : SUBSET (Names \X Labels)]

\* The labels under a name never exceed the largest label limit in force, those
\* left behind by a swept name included.
LabelsCapped == \A n \in Names : \E l \in LabelLimits \cup {0} :
  Cardinality(LabelsUnder(DOMAIN labels, n)) <= l

\* The names behave as a capped set, which grows only to a size the
\* limit of some batch allows.
NameSet == INSTANCE CappedSet WITH listed <- DOMAIN names, Limits <- NameLimits
RefinesCappedSet == NameSet!Spec

\* A point is stored under a name and a label that the vocabulary lists, or
\* did until a sweep, or under "other"; a point folded by name has no label.
StoredWasListed == \A k \in stored :
  /\ k[1] \in DOMAIN names \cup swept.names \cup {Other}
  /\ k[1] = Other => k[2] = NoLabel
  /\ k[2] \notin {Other, NoLabel} => k \in DOMAIN labels \cup swept.labels

\* The overflow counters are exactly the points folded: those stored, those of
\* exports still to be written, and those of exports that failed afterwards.
OverflowAccounted ==
  overflow.names + overflow.labels =
    folds.stored + folds.lost +
    SumFunctionOnSet([w \in Writers |-> FoldedNames(w) + FoldedLabels(w)],
                     {w \in Writers : pc[w] = "insert"})

\* Whatever is past either cap is stored as "other" and counted: both caps hold
\* for what is listed, and what is stored was listed.
FoldingAccounted == LabelsCapped /\ StoredWasListed /\ OverflowAccounted

\* Every batch that reaches the cap is decided: no writer waits for the lock
\* for ever.
AdmissionEnds == \A w \in Writers : pc[w] # "idle" ~> pc[w] = "idle"

\* internal/storage/installs.go: "a label goes with its name": no label is
\* listed under a name that is not.
LabelsHaveNames == \A k \in DOMAIN labels : k[1] \in DOMAIN names
=============================================================================
