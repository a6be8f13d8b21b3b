-------------------------- MODULE DashboardCards --------------------------
(***************************************************************************)
(* The saved dashboard layouts of one tenant, beside its metric catalogs:  *)
(* PUT /v1/dashboard/cards/{service} (internal/metricsapi/dashboard.go)    *)
(* reads the catalog, validates the cards against it, and replaces the     *)
(* layout in a transaction of its own (internal/storage/dashboard.go).     *)
(*                                                                         *)
(* Nothing serialises two saves but Postgres: a DELETE waits for a row     *)
(* another transaction has deleted and then passes over it, and does not   *)
(* see rows committed after it began; an INSERT waits for an uncommitted   *)
(* row or deletion on its primary key, and fails on a committed row.       *)
(***************************************************************************)
EXTENDS MetricDefinitions, Sequences, FiniteSets

CONSTANTS
  Savers,     \* concurrent PUT requests
  Layouts,    \* what they save: service and cards, a sequence of metric and card_type
  MaxSaves,   \* bound: saves over all savers
  NoLayout

ASSUME LayoutAssumption ==
  /\ \A l \in Layouts : l.service \in Services /\ l.cards \in Seq([metric : STRING, card_type : STRING])
  /\ MaxSaves \in Nat

VARIABLES
  cards,     \* the table: <<service, position>> -> metric, card_type, by
  spc,       \* where each saver is
  layout,    \* what it saves
  ticket,    \* which save it is: the identity of the rows it writes
  snapshot,  \* the rows its DELETE statement sees
  deleted,   \* the rows its transaction has deleted
  inserted,  \* the rows its transaction has inserted
  saves,     \* saves begun
  saved      \* history: the layout of each save

cardVars == <<cards, spc, layout, ticket, snapshot, deleted, inserted, saves, saved>>
vars == <<defVars, cardVars>>

Init ==
  /\ DefInit
  /\ cards = NoRows
  /\ spc = [p \in Savers |-> "idle"]
  /\ layout = [p \in Savers |-> NoLayout]
  /\ ticket = [p \in Savers |-> 0]
  /\ snapshot = [p \in Savers |-> NoRows]
  /\ deleted = [p \in Savers |-> {}]
  /\ inserted = [p \in Savers |-> NoRows]
  /\ saves = 0
  /\ saved = <<>>

cardTypesFor ==
  [counter  |-> {"kpi", "trend", "breakdown", "reach"},
   duration |-> {"kpi", "trend", "breakdown", "distribution", "reach"},
   value    |-> {"kpi", "trend", "breakdown", "distribution", "reach"},
   ratio    |-> {"kpi", "trend"}]

\* Every card is on a current metric of the service and of a type its kind has.
validateCards(l) ==
  LET current == Current(definitions, l.service)
  IN  \A i \in DOMAIN l.cards :
        /\ l.cards[i].metric \in DOMAIN current
        /\ l.cards[i].card_type \in cardTypesFor[Meaning[current[l.cards[i].metric]].kind]

\* The request reads the definitions; a layout they refuse is answered 400.
Validate(p, l) ==
  /\ spc[p] = "idle" /\ saves < MaxSaves /\ validateCards(l)
  /\ spc' = [spc EXCEPT ![p] = "delete"]
  /\ layout' = [layout EXCEPT ![p] = l]
  /\ ticket' = [ticket EXCEPT ![p] = saves + 1]
  /\ saves' = saves + 1
  /\ saved' = Append(saved, l)
  /\ UNCHANGED <<cards, snapshot, deleted, inserted>>

\* DELETE begins: its snapshot is what is committed now.
DeleteBegin(p) ==
  /\ spc[p] = "delete"
  /\ snapshot' = [snapshot EXCEPT ![p] =
       [k \in {k \in DOMAIN cards : k[1] = layout[p].service} |-> cards[k]]]
  /\ spc' = [spc EXCEPT ![p] = "deleting"]
  /\ UNCHANGED <<cards, layout, ticket, deleted, inserted, saves, saved>>

\* DELETE ends, when no other transaction holds a row it saw: rows that are
\* still there are deleted, rows that another save has replaced are passed over.
DeleteEnd(p) ==
  /\ spc[p] = "deleting"
  /\ \A q \in Savers \ {p} : DOMAIN snapshot[p] \cap deleted[q] = {}
  /\ deleted' = [deleted EXCEPT ![p] =
       {k \in DOMAIN snapshot[p] : k \in DOMAIN cards /\ cards[k] = snapshot[p][k]}]
  /\ spc' = [spc EXCEPT ![p] = "insert"]
  /\ UNCHANGED <<cards, layout, ticket, snapshot, inserted, saves, saved>>

\* Mutant of Position: the cards come out of a map, in no fixed order.
PositionOfMap(p) ==
  LET n == Cardinality(DOMAIN inserted[p])
  IN  IF ticket[p] % 2 = 0 THEN n ELSE Len(layout[p].cards) - 1 - n

\* The loop over the cards is at this position.
Position(p) == Cardinality(DOMAIN inserted[p])

NextKey(p) == <<layout[p].service, Position(p)>>

NextCard(p) == layout[p].cards[Position(p) + 1]

HasNext(p) == Cardinality(DOMAIN inserted[p]) < Len(layout[p].cards)

\* Another transaction has inserted or deleted the row, and may still commit.
Pending(p, k) == \E q \in Savers \ {p} : k \in DOMAIN inserted[q] \cup deleted[q]

\* The row is committed, and not deleted by p.
Taken(p, k) == k \in DOMAIN cards \ deleted[p]

\* Mutant of Conflicts: INSERT ... ON CONFLICT DO UPDATE.
ConflictsNever(p) == FALSE

Conflicts(p) == Taken(p, NextKey(p))

\* INSERT of the next card.
Insert(p) ==
  /\ spc[p] = "insert" /\ HasNext(p)
  /\ ~ Pending(p, NextKey(p)) /\ ~ Conflicts(p)
  /\ inserted' = [inserted EXCEPT ![p] = Over(
       [k \in {NextKey(p)} |->
          [metric |-> NextCard(p).metric, card_type |-> NextCard(p).card_type, by |-> ticket[p]]], @)]
  /\ UNCHANGED <<cards, spc, layout, ticket, snapshot, deleted, saves, saved>>

SaveEnds(p) ==
  /\ spc' = [spc EXCEPT ![p] = "idle"]
  /\ layout' = [layout EXCEPT ![p] = NoLayout]
  /\ ticket' = [ticket EXCEPT ![p] = 0]
  /\ snapshot' = [snapshot EXCEPT ![p] = NoRows]
  /\ deleted' = [deleted EXCEPT ![p] = {}]
  /\ inserted' = [inserted EXCEPT ![p] = NoRows]
  /\ UNCHANGED <<saves, saved>>

SaveCommit(p) ==
  /\ spc[p] = "insert" /\ ~ HasNext(p)
  /\ cards' = Over(inserted[p], [k \in DOMAIN cards \ deleted[p] |-> cards[k]])
  /\ SaveEnds(p)

\* The INSERT meets a committed row: duplicate key, 500.
SaveConflicts(p) ==
  /\ spc[p] = "insert" /\ HasNext(p)
  /\ ~ Pending(p, NextKey(p)) /\ Conflicts(p)
  /\ SaveEnds(p) /\ UNCHANGED cards

\* A statement fails otherwise, or the query timeout ends the request.
SaveFails(p) ==
  /\ spc[p] # "idle"
  /\ SaveEnds(p) /\ UNCHANGED cards

SaveNext == \E p \in Savers :
  \/ \E l \in Layouts : Validate(p, l)
  \/ DeleteBegin(p) \/ DeleteEnd(p) \/ Insert(p)
  \/ SaveCommit(p) \/ SaveConflicts(p) \/ SaveFails(p)

Next ==
  \/ DefNext /\ UNCHANGED cardVars
  \/ SaveNext /\ UNCHANGED defVars

Spec == Init /\ [][Next]_vars
-----------------------------------------------------------------------------
(* Properties.                                                             *)

\* The saved layout of a service: its committed rows.
Saved(s) == {k \in DOMAIN cards : k[1] = s}

\* "Replaced whole": the layout of a service is all of one save and nothing of
\* another, however many admins save at the same time.  "Every card must be on
\* a declared ... metric of the CLI": the catalog that validated a card may have
\* been replaced before the save commits, but a saved card's metric is always
\* one the catalog knows, current or deprecated.
LayoutIsWhole == \A s \in Services :
  /\ \A k \in Saved(s) : <<s, cards[k].metric>> \in DOMAIN definitions
  /\ \E i \in {0} \cup DOMAIN saved :
       LET all == IF i = 0 THEN <<>> ELSE saved[i].cards
       IN  /\ i > 0 => saved[i].service = s
           /\ Saved(s) = {<<s, n - 1>> : n \in DOMAIN all}
           /\ \A n \in DOMAIN all : LET row == cards[<<s, n - 1>>]
                IN  row = [metric |-> all[n].metric, card_type |-> all[n].card_type, by |-> i]

\* No two saves ever wait for each other: while saves are under way one of
\* them can take its next step.
SavesNeverDeadlock ==
  (\E p \in Savers : spc[p] # "idle") =>
    \E p \in Savers : \/ spc[p] = "delete"
                      \/ /\ spc[p] = "deleting"
                         /\ \A q \in Savers \ {p} : DOMAIN snapshot[p] \cap deleted[q] = {}
                      \/ spc[p] = "insert" /\ (HasNext(p) => ~ Pending(p, NextKey(p)))
=============================================================================
