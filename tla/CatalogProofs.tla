--------------------------- MODULE CatalogProofs ---------------------------
(***************************************************************************)
(* The metric catalogs, the layouts saved on them and the cache of them in *)
(* an ingest process, for any number of appliers, savers, services, names, *)
(* files, exports and layouts of any length.                               *)
(***************************************************************************)
EXTENDS Catalogs, FiniteSetTheorems, TLAPS

-----------------------------------------------------------------------------
(* The saved dashboard layouts.                                            *)

SavesOf(p) == layout[p].service

\* The row of a card of the save with ticket i.
CardRow(c, i) == [metric |-> c.metric, card_type |-> c.card_type, by |-> i]

\* The cards of the save with ticket i of a history; ticket 0 is no save yet.
CardsOf(h, i) == IF i = 0 THEN <<>> ELSE h[i].cards

\* The rows in D of a table are the layout of the save with ticket i, all of it.
Whole(D, t, s, i, h) ==
  /\ i > 0 => h[i].service = s
  /\ D = {<<s, n - 1>> : n \in DOMAIN CardsOf(h, i)}
  /\ \A n \in DOMAIN CardsOf(h, i) : t[<<s, n - 1>>] = CardRow(CardsOf(h, i)[n], i)

SomeWhole(D, t, s, h) == \E i \in {0} \cup DOMAIN h : Whole(D, t, s, i, h)

SavedOf(t, s) == {k \in DOMAIN t : k[1] = s}

\* A transaction whose DELETE is done: it holds all rows of the service or none,
\* its inserts are the cards up to its position, and once it has inserted one
\* there is no row of the service that it does not hold.
Inserting(t, l, d, in, i) ==
  /\ d = {} \/ d = SavedOf(t, l.service)
  /\ IsFiniteSet(DOMAIN in) /\ Cardinality(DOMAIN in) <= Len(l.cards)
  /\ DOMAIN in = {<<l.service, n - 1>> : n \in 1..Cardinality(DOMAIN in)}
  /\ \A n \in 1..Cardinality(DOMAIN in) : in[<<l.service, n - 1>>] = CardRow(l.cards[n], i)
  /\ DOMAIN in # {} => d = SavedOf(t, l.service)

Holds(p) == DOMAIN inserted[p] # {} \/ deleted[p] # {}

Histories ==
  /\ saves \in Nat /\ saved \in Seq(Layouts) /\ Len(saved) = saves
  /\ \A i \in DOMAIN saved : \A n \in DOMAIN saved[i].cards :
       <<saved[i].service, saved[i].cards[n].metric>> \in DOMAIN definitions

Fields ==
  /\ spc \in [Savers -> {"idle", "delete", "deleting", "insert"}]
  /\ layout = [p \in Savers |-> layout[p]] /\ ticket = [p \in Savers |-> ticket[p]]
  /\ snapshot = [p \in Savers |-> snapshot[p]] /\ deleted = [p \in Savers |-> deleted[p]]
  /\ inserted = [p \in Savers |-> inserted[p]]

Saving(p) ==
  /\ spc[p] # "idle" => ticket[p] \in DOMAIN saved /\ saved[ticket[p]] = layout[p]
  /\ spc[p] # "insert" => DOMAIN inserted[p] = {} /\ deleted[p] = {}
  /\ spc[p] = "deleting" => SomeWhole(DOMAIN snapshot[p], snapshot[p], SavesOf(p), saved)
  /\ spc[p] = "insert" => Inserting(cards, layout[p], deleted[p], inserted[p], ticket[p])

\* Rows of a service are held by one transaction at a time.
OneHolder == \A p, q \in Savers :
  p # q /\ spc[p] = "insert" /\ spc[q] = "insert" /\ SavesOf(p) = SavesOf(q) /\ Holds(p) => ~ Holds(q)

CardInv ==
  /\ Histories /\ Fields
  /\ \A p \in Savers : Saving(p)
  /\ OneHolder
  /\ \A s \in Services : SomeWhole(SavedOf(cards, s), cards, s, saved)

\* A layout that Postgres holds is a sequence of cards of a service.
LEMMA LayoutShape == ASSUME NEW l \in Layouts
  PROVE  l.service \in Services /\ Len(l.cards) \in Nat /\ DOMAIN l.cards = 1..Len(l.cards)
<1>1. l.service \in Services /\ l.cards \in Seq([metric : STRING, card_type : STRING])
  BY LayoutAssumption, Zenon
<1> QED
  BY <1>1

\* A longer history still has the saves of a shorter one.
LEMMA WholeKeeps ==
  ASSUME NEW h \in Seq(Layouts), NEW l \in Layouts, NEW D, NEW t, NEW s, SomeWhole(D, t, s, h)
  PROVE  SomeWhole(D, t, s, Append(h, l))
<1>1. PICK i \in {0} \cup DOMAIN h : Whole(D, t, s, i, h)
  BY Zenon DEF SomeWhole
<1>2. i \in {0} \cup DOMAIN Append(h, l) /\ (i > 0 => Append(h, l)[i] = h[i])
  BY <1>1
<1>3. CardsOf(Append(h, l), i) = CardsOf(h, i)
  BY <1>1, <1>2 DEF CardsOf
<1>4. Whole(D, t, s, i, Append(h, l))
  BY <1>1, <1>2, <1>3, Zenon DEF Whole
<1> QED
  BY <1>2, <1>4, Zenon DEF SomeWhole

\* A whole layout depends on the rows in D only.
LEMMA WholeSame ==
  ASSUME NEW h, NEW D, NEW t, NEW u, NEW s, SomeWhole(D, t, s, h), \A k \in D : u[k] = t[k]
  PROVE  SomeWhole(D, u, s, h)
<1>1. PICK i \in {0} \cup DOMAIN h : Whole(D, t, s, i, h)
  BY Zenon DEF SomeWhole
<1>2. \A n \in DOMAIN CardsOf(h, i) : <<s, n - 1>> \in D
  BY <1>1, Zenon DEF Whole
<1>3. Whole(D, u, s, i, h)
  BY <1>1, <1>2, Zenon DEF Whole
<1> QED
  BY <1>3, Zenon DEF SomeWhole

\* Positions are counted from 0, so a layout with a row has one at position 0.
LEMMA WholeFromZero ==
  ASSUME NEW h \in Seq(Layouts), NEW D, NEW t, NEW s, SomeWhole(D, t, s, h), D # {}
  PROVE  <<s, 0>> \in D
<1>1. PICK i \in {0} \cup DOMAIN h : Whole(D, t, s, i, h)
  BY Zenon DEF SomeWhole
<1>2. PICK n \in DOMAIN CardsOf(h, i) : TRUE
  BY <1>1, Zenon DEF Whole
<1>3. i # 0
  BY <1>2 DEF CardsOf
<1>4. CardsOf(h, i) = h[i].cards /\ h[i] \in Layouts
  BY <1>1, <1>3 DEF CardsOf
<1>5. DOMAIN CardsOf(h, i) = 1..Len(h[i].cards) /\ Len(h[i].cards) \in Nat
  BY <1>4, LayoutShape, Zenon
<1>6. 1 \in DOMAIN CardsOf(h, i) /\ 1 - 1 = 0
  BY <1>2, <1>5
<1> QED
  BY <1>1, <1>6, Zenon DEF Whole

\* Two whole layouts of a service are rows of one save, or share no row.
LEMMA WholeOrApart ==
  ASSUME NEW h, NEW D, NEW E, NEW t, NEW u, NEW s, SomeWhole(D, t, s, h), SomeWhole(E, u, s, h)
  PROVE  {k \in D : k \in E /\ u[k] = t[k]} \in {{}, E}
<1>1. PICK i \in {0} \cup DOMAIN h : Whole(D, t, s, i, h)
  BY Zenon DEF SomeWhole
<1>2. PICK j \in {0} \cup DOMAIN h : Whole(E, u, s, j, h)
  BY Zenon DEF SomeWhole
<1>3. CASE i = j
  <2>1. D = E
    BY <1>1, <1>2, <1>3, Zenon DEF Whole
  <2>2. \A k \in E : u[k] = t[k]
    BY <1>1, <1>2, <1>3, Zenon DEF Whole
  <2> QED
    BY <2>1, <2>2, Zenon
<1>4. CASE i # j
  <2>1. \A k \in D : t[k].by = i
    <3> SUFFICES ASSUME NEW k \in D PROVE t[k].by = i
      OBVIOUS
    <3>1. PICK c : t[k] = CardRow(c, i)
      BY <1>1, Zenon DEF Whole
    <3>2. CardRow(c, i).by = i
      BY Zenon DEF CardRow
    <3> QED
      BY <3>1, <3>2, Zenon
  <2>2. \A k \in E : u[k].by = j
    <3> SUFFICES ASSUME NEW k \in E PROVE u[k].by = j
      OBVIOUS
    <3>1. PICK c : u[k] = CardRow(c, j)
      BY <1>2, Zenon DEF Whole
    <3>2. CardRow(c, j).by = j
      BY Zenon DEF CardRow
    <3> QED
      BY <3>1, <3>2, Zenon
  <2> QED
    BY <1>4, <2>1, <2>2
<1> QED
  BY <1>3, <1>4, Zenon

\* A transaction that has inserted nothing yet.
LEMMA NothingInserted ==
  ASSUME NEW t, NEW l \in Layouts, NEW d \in {{}, SavedOf(t, l.service)}, NEW in, NEW i, DOMAIN in = {}
  PROVE  Inserting(t, l, d, in, i)
<1>1. IsFiniteSet(DOMAIN in) /\ Cardinality(DOMAIN in) = 0
  BY FS_EmptySet, Zenon
<1>2. 1..0 = {} /\ Len(l.cards) \in Nat
  BY LayoutShape
<1> QED
  BY <1>1, <1>2 DEF Inserting

\* The layout of a saver at work is a layout.
LEMMA LayoutOf ==
  ASSUME CardInv, NEW p \in Savers, spc[p] # "idle"
  PROVE  layout[p] \in Layouts /\ SavesOf(p) \in Services /\ SomeWhole(SavedOf(cards, SavesOf(p)), cards, SavesOf(p), saved)
<1>1. ticket[p] \in DOMAIN saved /\ saved[ticket[p]] = layout[p] /\ saved \in Seq(Layouts)
  BY Zenon DEF CardInv, Saving, Histories
<1>2. layout[p] \in Layouts
  BY <1>1
<1>3. SavesOf(p) \in Services
  BY <1>2, LayoutShape, Zenon DEF SavesOf
<1> QED
  BY <1>2, <1>3, Zenon DEF CardInv

\* Whoever holds a row of a service holds the one at position 0.
LEMMA HolderHasFirst ==
  ASSUME CardInv, NEW q \in Savers, spc[q] = "insert", Holds(q)
  PROVE  <<SavesOf(q), 0>> \in DOMAIN inserted[q] \cup deleted[q]
<1>1. Inserting(cards, layout[q], deleted[q], inserted[q], ticket[q])
  BY Zenon DEF CardInv, Saving
<1>2. CASE DOMAIN inserted[q] # {}
  <2> DEFINE c == Cardinality(DOMAIN inserted[q])
  <2>1. c \in Nat /\ DOMAIN inserted[q] = {<<SavesOf(q), n - 1>> : n \in 1..c}
    BY <1>1, FS_CardinalityType, Zenon DEF Inserting, SavesOf
  <2> HIDE DEF c
  <2>2. 1 \in 1..c /\ 1 - 1 = 0
    BY <1>2, <2>1
  <2> QED
    BY <2>1, <2>2, Zenon
<1>3. CASE deleted[q] # {}
  <2>1. deleted[q] = SavedOf(cards, SavesOf(q))
    BY <1>1, <1>3, Zenon DEF Inserting, SavesOf
  <2>2. SomeWhole(SavedOf(cards, SavesOf(q)), cards, SavesOf(q), saved) /\ saved \in Seq(Layouts)
    BY LayoutOf, Zenon DEF CardInv, Histories
  <2> QED
    BY <1>3, <2>1, <2>2, WholeFromZero, Zenon
<1> QED
  BY <1>2, <1>3, Zenon DEF Holds

\* A saver that a step leaves alone.
Same(q) ==
  /\ spc'[q] = spc[q] /\ layout'[q] = layout[q] /\ ticket'[q] = ticket[q]
  /\ snapshot'[q] = snapshot[q] /\ deleted'[q] = deleted[q] /\ inserted'[q] = inserted[q]

\* It keeps its part of the invariant while the rows of its service stay.
LEMMA SameKeeps ==
  ASSUME NEW q \in Savers, Saving(q), Same(q), saved' = saved,
         spc[q] = "insert" => SavedOf(cards', SavesOf(q)) = SavedOf(cards, SavesOf(q))
  PROVE  Saving(q)'
<1>1. spc'[q] # "idle" => ticket'[q] \in DOMAIN saved' /\ saved'[ticket'[q]] = layout'[q]
  BY Zenon DEF Saving, Same
<1>2. spc'[q] # "insert" => DOMAIN inserted'[q] = {} /\ deleted'[q] = {}
  BY Zenon DEF Saving, Same
<1>3. spc'[q] = "deleting" => SomeWhole(DOMAIN snapshot'[q], snapshot'[q], layout'[q].service, saved')
  BY Zenon DEF Saving, Same, SavesOf
<1>4. spc'[q] = "insert" => Inserting(cards', layout'[q], deleted'[q], inserted'[q], ticket'[q])
  BY Zenon DEF Saving, Same, SavesOf, Inserting
<1> QED
  BY <1>1, <1>2, <1>3, <1>4, Zenon DEF Saving, SavesOf

\* A request that passes validateCards.
LEMMA ValidateKeeps ==
  ASSUME CardInv, NEW p \in Savers, NEW l \in Layouts, Validate(p, l), definitions' = definitions
  PROVE  CardInv'
<1>1. /\ spc[p] = "idle" /\ validateCards(l)
      /\ spc' = [spc EXCEPT ![p] = "delete"] /\ layout' = [layout EXCEPT ![p] = l]
      /\ ticket' = [ticket EXCEPT ![p] = saves + 1] /\ saves' = saves + 1
      /\ saved' = Append(saved, l) /\ cards' = cards /\ snapshot' = snapshot
      /\ deleted' = deleted /\ inserted' = inserted
  BY Zenon DEF Validate
<1>2. /\ saved \in Seq(Layouts) /\ Len(saved) = saves /\ saves \in Nat
      /\ saved' \in Seq(Layouts) /\ Len(saved') = saves + 1 /\ DOMAIN saved' = 1..(saves + 1)
      /\ \A i \in DOMAIN saved : saved'[i] = saved[i] /\ i \in DOMAIN saved'
      /\ saved'[saves + 1] = l /\ DOMAIN saved = 1..saves
  BY <1>1 DEF CardInv, Histories
<1>3. Fields'
  BY <1>1, Zenon DEF CardInv, Fields
<1>4. Histories'
  <2>1. ASSUME NEW i \in DOMAIN saved', NEW n \in DOMAIN saved'[i].cards
        PROVE  <<saved'[i].service, saved'[i].cards[n].metric>> \in DOMAIN definitions
    <3>1. CASE i \in DOMAIN saved
      BY <1>2, <2>1, <3>1, Zenon DEF CardInv, Histories
    <3>2. CASE i = saves + 1
      <4>1. l.cards[n].metric \in DOMAIN Current(definitions, l.service)
        BY <1>1, <1>2, <2>1, <3>2, Zenon DEF validateCards
      <4> QED
        BY <1>2, <3>2, <4>1, Zenon DEF Current
    <3> QED
      BY <1>2, <3>1, <3>2
  <2>2. \A i \in DOMAIN saved' : \A n \in DOMAIN saved'[i].cards :
          <<saved'[i].service, saved'[i].cards[n].metric>> \in DOMAIN definitions'
    BY <2>1, Zenon
  <2>3. saves' \in Nat /\ saved' \in Seq(Layouts) /\ Len(saved') = saves'
    BY <1>1, <1>2
  <2> QED
    BY <2>2, <2>3, Zenon DEF Histories
<1>5. ASSUME NEW D, NEW t, NEW s, SomeWhole(D, t, s, saved) PROVE SomeWhole(D, t, s, saved')
  BY <1>1, <1>2, <1>5, WholeKeeps, Zenon
<1>6. ASSUME NEW q \in Savers PROVE Saving(q)'
  <2>1. Saving(q)
    BY Zenon DEF CardInv
  <2>2. CASE q = p
    <3>1. spc'[p] = "delete" /\ layout'[p] = l /\ ticket'[p] = saves + 1
      BY <1>1, Zenon DEF CardInv, Fields
    <3>2. DOMAIN inserted[p] = {} /\ deleted[p] = {}
      BY <1>1, <2>1, <2>2, Zenon DEF Saving
    <3> QED
      BY <1>1, <1>2, <2>2, <3>1, <3>2 DEF Saving
  <2>3. CASE q # p
    <3>1. Same(q)
      BY <1>1, <2>3, Zenon DEF CardInv, Fields, Same
    <3>2. spc'[q] # "idle" => ticket'[q] \in DOMAIN saved' /\ saved'[ticket'[q]] = layout'[q]
      BY <1>2, <2>1, <3>1, Zenon DEF Saving, Same
    <3>3. spc'[q] = "deleting" => SomeWhole(DOMAIN snapshot'[q], snapshot'[q], layout'[q].service, saved')
      BY <1>5, <2>1, <3>1, Zenon DEF Saving, Same, SavesOf
    <3> QED
      BY <1>1, <2>1, <3>1, <3>2, <3>3, Zenon DEF Saving, SavesOf, Same
  <2> QED
    BY <2>2, <2>3, Zenon
<1>7. OneHolder'
  BY <1>1, Zenon DEF CardInv, Fields, OneHolder, Holds, SavesOf
<1>8. \A s \in Services : SomeWhole(SavedOf(cards', s), cards', s, saved')
  BY <1>1, <1>5, Zenon DEF CardInv
<1> QED
  BY <1>3, <1>4, <1>6, <1>7, <1>8, Zenon DEF CardInv

\* The snapshot of a DELETE is a whole layout.
LEMMA DeleteBeginKeeps ==
  ASSUME CardInv, NEW p \in Savers, DeleteBegin(p), definitions' = definitions
  PROVE  CardInv'
<1> DEFINE D == SavedOf(cards, SavesOf(p))
           snap == [k \in D |-> cards[k]]
<1>1. /\ spc[p] = "delete" /\ snapshot' = [snapshot EXCEPT ![p] = snap]
      /\ spc' = [spc EXCEPT ![p] = "deleting"]
      /\ cards' = cards /\ layout' = layout /\ ticket' = ticket /\ deleted' = deleted
      /\ inserted' = inserted /\ saves' = saves /\ saved' = saved
  BY Zenon DEF DeleteBegin, SavedOf, SavesOf
<1>2. Fields' /\ Histories'
  BY <1>1, Zenon DEF CardInv, Fields, Histories
<1>3. SomeWhole(D, cards, SavesOf(p), saved)
  BY <1>1, LayoutOf, Zenon
<1>4. SomeWhole(D, snap, SavesOf(p), saved) /\ DOMAIN snap = D
  BY <1>3, WholeSame, Zenon
<1> HIDE DEF D, snap
<1>5. ASSUME NEW q \in Savers PROVE Saving(q)'
  <2>1. Saving(q)
    BY Zenon DEF CardInv
  <2>2. CASE q = p
    <3>1. spc'[p] = "deleting" /\ snapshot'[p] = snap
      BY <1>1, Zenon DEF CardInv, Fields
    <3> QED
      BY <1>1, <1>4, <2>1, <2>2, <3>1, Zenon DEF Saving, SavesOf
  <2>3. CASE q # p
    <3>1. Same(q)
      BY <1>1, <2>3, Zenon DEF CardInv, Fields, Same
    <3> QED
      BY <1>1, <2>1, <3>1, SameKeeps, Zenon
  <2> QED
    BY <2>2, <2>3, Zenon
<1>6. OneHolder'
  BY <1>1, Zenon DEF CardInv, Fields, OneHolder, Holds, SavesOf
<1>7. \A s \in Services : SomeWhole(SavedOf(cards', s), cards', s, saved')
  BY <1>1, Zenon DEF CardInv
<1> QED
  BY <1>2, <1>5, <1>6, <1>7, Zenon DEF CardInv

\* The DELETE takes all rows of the service, or passes over all it saw.
LEMMA DeleteEndKeeps ==
  ASSUME CardInv, NEW p \in Savers, DeleteEnd(p), definitions' = definitions
  PROVE  CardInv'
<1> DEFINE D == DOMAIN snapshot[p]
           E == SavedOf(cards, SavesOf(p))
           gone == {k \in D : k \in E /\ cards[k] = snapshot[p][k]}
<1>1. /\ spc[p] = "deleting" /\ spc' = [spc EXCEPT ![p] = "insert"]
      /\ \A q \in Savers \ {p} : D \cap deleted[q] = {}
      /\ deleted' = [deleted EXCEPT ![p] =
           {k \in D : k \in DOMAIN cards /\ cards[k] = snapshot[p][k]}]
      /\ cards' = cards /\ layout' = layout /\ ticket' = ticket /\ snapshot' = snapshot
      /\ inserted' = inserted /\ saves' = saves /\ saved' = saved
  BY Zenon DEF DeleteEnd
<1>2. Fields' /\ Histories'
  BY <1>1, Zenon DEF CardInv, Fields, Histories
<1>3. SomeWhole(D, snapshot[p], SavesOf(p), saved) /\ SomeWhole(E, cards, SavesOf(p), saved)
  BY <1>1, LayoutOf, Zenon DEF CardInv, Saving
<1>4. \A k \in D : k[1] = SavesOf(p)
  BY <1>3 DEF SomeWhole, Whole
<1>5. gone \in {{}, E} /\ gone \subseteq D /\ deleted'[p] = gone
  <2>1. gone \in {{}, E}
    BY <1>3, WholeOrApart
  <2>2. deleted'[p] = {k \in D : k \in DOMAIN cards /\ cards[k] = snapshot[p][k]}
    BY <1>1, Zenon DEF CardInv, Fields
  <2>3. {k \in D : k \in DOMAIN cards /\ cards[k] = snapshot[p][k]} = gone
    BY <1>4, Zenon DEF SavedOf
  <2> QED
    BY <2>1, <2>2, <2>3, Zenon
<1> HIDE DEF D, E, gone
<1>6. DOMAIN inserted[p] = {} /\ spc'[p] = "insert"
  BY <1>1, Zenon DEF CardInv, Saving, Fields
<1>7. ASSUME NEW q \in Savers PROVE Saving(q)'
  <2>1. Saving(q)
    BY Zenon DEF CardInv
  <2>2. CASE q = p
    <3>1. layout[p] \in Layouts
      BY <1>1, LayoutOf, Zenon
    <3>2. Inserting(cards, layout[p], gone, inserted[p], ticket[p])
      BY <1>5, <1>6, <3>1, NothingInserted, Zenon DEF E, SavesOf
    <3> QED
      BY <1>1, <1>5, <1>6, <2>1, <2>2, <3>2, Zenon DEF Saving
  <2>3. CASE q # p
    <3>1. Same(q)
      BY <1>1, <2>3, Zenon DEF CardInv, Fields, Same
    <3> QED
      BY <1>1, <2>1, <3>1, SameKeeps, Zenon
  <2> QED
    BY <2>2, <2>3, Zenon
<1>8. ASSUME NEW q \in Savers, q # p, spc[q] = "insert", SavesOf(q) = SavesOf(p), Holds(q)
      PROVE  gone = {}
  <2>1. Inserting(cards, layout[q], deleted[q], inserted[q], ticket[q])
    BY <1>8, Zenon DEF CardInv, Saving
  <2>2. deleted[q] = E
    BY <1>8, <2>1, Zenon DEF Inserting, Holds, E, SavesOf
  <2>3. D \cap E = {}
    BY <1>1, <1>8, <2>2, Zenon
  <2> QED
    BY <1>5, <2>3, Zenon
<1>9. OneHolder'
  <2> SUFFICES ASSUME NEW q \in Savers, NEW r \in Savers, q # r, spc'[q] = "insert", spc'[r] = "insert",
                      SavesOf(q) = SavesOf(r), Holds(q)', Holds(r)'
               PROVE  FALSE
    BY <1>1, Zenon DEF OneHolder, SavesOf
  <2>1. \A x \in Savers : x # p => spc'[x] = spc[x] /\ (Holds(x)' <=> Holds(x))
    BY <1>1, Zenon DEF CardInv, Fields, Holds
  <2>2. Holds(p)' => gone # {}
    BY <1>1, <1>5, <1>6, Zenon DEF Holds
  <2> QED
    BY <1>8, <2>1, <2>2, Zenon DEF CardInv, OneHolder
<1>10. \A s \in Services : SomeWhole(SavedOf(cards', s), cards', s, saved')
  BY <1>1, Zenon DEF CardInv
<1> QED
  BY <1>2, <1>7, <1>9, <1>10, Zenon DEF CardInv

\* One more card: the rows are then the cards up to the next position.
LEMMA OneMoreCard ==
  ASSUME NEW t, NEW l \in Layouts, NEW d, NEW in, NEW i, Inserting(t, l, d, in, i),
         Cardinality(DOMAIN in) < Len(l.cards), d = SavedOf(t, l.service),
         NEW new, DOMAIN new = {<<l.service, Cardinality(DOMAIN in)>>},
         new[<<l.service, Cardinality(DOMAIN in)>>] = CardRow(l.cards[Cardinality(DOMAIN in) + 1], i)
  PROVE  Inserting(t, l, d, Over(new, in), i)
<1> DEFINE c == Cardinality(DOMAIN in)
           s == l.service
           more == Over(new, in)
<1>1. /\ IsFiniteSet(DOMAIN in) /\ c \in Nat /\ Len(l.cards) \in Nat /\ c < Len(l.cards)
      /\ DOMAIN in = {<<s, n - 1>> : n \in 1..c}
      /\ \A n \in 1..c : in[<<s, n - 1>>] = CardRow(l.cards[n], i)
  BY FS_CardinalityType, LayoutShape, Zenon DEF Inserting
<1>2. DOMAIN new = {<<s, c>>} /\ new[<<s, c>>] = CardRow(l.cards[c + 1], i)
  OBVIOUS
<1>3. DOMAIN more = DOMAIN in \cup {<<s, c>>}
  BY <1>2, Zenon DEF Over
<1> HIDE DEF s
<1>a. ASSUME c \in Nat, DOMAIN in = {<<s, n - 1>> : n \in 1..c} PROVE <<s, c>> \notin DOMAIN in
  <2> SUFFICES ASSUME NEW n \in 1..c, <<s, c>> = <<s, n - 1>> PROVE FALSE
    BY <1>a, Zenon
  <2>1. c = n - 1
    OBVIOUS
  <2> QED
    BY <1>a, <2>1
<1>4. <<s, c>> \notin DOMAIN in
  BY <1>1, <1>a, Zenon
<1>5. IsFiniteSet(DOMAIN more) /\ Cardinality(DOMAIN more) = c + 1
  BY <1>1, <1>3, <1>4, FS_AddElement
<1>6. \A k \in DOMAIN in : more[k] = in[k]
  BY <1>2, <1>4, Zenon DEF Over
<1>7. more[<<s, c>>] = CardRow(l.cards[c + 1], i)
  BY <1>2, Zenon DEF Over
<1> HIDE DEF c, more
<1>8. DOMAIN more = {<<s, n - 1>> : n \in 1..(c + 1)}
  <2>1. \A n \in 1..(c + 1) : n \in 1..c \/ n - 1 = c
    BY <1>1
  <2>2. 1..c \subseteq 1..(c + 1) /\ c + 1 \in 1..(c + 1) /\ (c + 1) - 1 = c
    BY <1>1
  <2>3. \A n \in 1..(c + 1) : <<s, n - 1>> \in DOMAIN more
    BY <1>1, <1>3, <2>1, Zenon
  <2>4. \A k \in DOMAIN more : \E n \in 1..(c + 1) : k = <<s, n - 1>>
    BY <1>1, <1>3, <2>2, Zenon
  <2> QED
    BY <2>3, <2>4, Zenon
<1>9. ASSUME NEW n \in 1..(c + 1) PROVE more[<<s, n - 1>>] = CardRow(l.cards[n], i)
  <2>1. CASE n = c + 1
    <3>1. n - 1 = c
      BY <1>1, <2>1
    <3> QED
      BY <1>7, <2>1, <3>1, Zenon
  <2>2. CASE n \in 1..c
    BY <1>1, <1>6, <2>2, Zenon
  <2> QED
    BY <1>1, <2>1, <2>2
<1>10. c + 1 <= Len(l.cards) /\ (d = {} \/ d = SavedOf(t, l.service))
  BY <1>1
<1> QED
  BY <1>5, <1>8, <1>9, <1>10, Zenon DEF Inserting, s, more

\* An INSERT finds its key free: no row of the service is left that the
\* transaction does not hold.
LEMMA InsertKeeps ==
  ASSUME CardInv, NEW p \in Savers, Insert(p), definitions' = definitions
  PROVE  CardInv'
<1> DEFINE new == [k \in {NextKey(p)} |-> CardRow(NextCard(p), ticket[p])]
<1>1. /\ spc[p] = "insert" /\ HasNext(p) /\ ~ Pending(p, NextKey(p)) /\ ~ Conflicts(p)
      /\ inserted' = [inserted EXCEPT ![p] = Over(new, inserted[p])]
      /\ cards' = cards /\ spc' = spc /\ layout' = layout /\ ticket' = ticket
      /\ snapshot' = snapshot /\ deleted' = deleted /\ saves' = saves /\ saved' = saved
  BY Zenon DEF Insert, CardRow
<1>2. Fields' /\ Histories'
  BY <1>1, Zenon DEF CardInv, Fields, Histories
<1>3. /\ Inserting(cards, layout[p], deleted[p], inserted[p], ticket[p]) /\ layout[p] \in Layouts
      /\ SomeWhole(SavedOf(cards, SavesOf(p)), cards, SavesOf(p), saved) /\ saved \in Seq(Layouts)
  BY <1>1, LayoutOf, Zenon DEF CardInv, Saving, Histories
<1>4. /\ NextKey(p) = <<SavesOf(p), Cardinality(DOMAIN inserted[p])>>
      /\ NextCard(p) = layout[p].cards[Cardinality(DOMAIN inserted[p]) + 1]
      /\ Cardinality(DOMAIN inserted[p]) < Len(layout[p].cards)
  BY <1>1, Zenon DEF NextKey, NextCard, Position, HasNext, SavesOf
<1>e. DOMAIN inserted[p] = {} => NextKey(p) = <<SavesOf(p), 0>>
  BY <1>4, FS_EmptySet, Zenon
<1>5. deleted[p] = SavedOf(cards, SavesOf(p))
  <2>1. CASE DOMAIN inserted[p] # {} \/ deleted[p] # {}
    BY <1>3, <2>1, Zenon DEF Inserting, SavesOf
  <2>2. CASE DOMAIN inserted[p] = {} /\ deleted[p] = {}
    <3>1. <<SavesOf(p), 0>> \notin DOMAIN cards
      BY <1>1, <1>e, <2>2, Zenon DEF Conflicts, Taken
    <3>2. <<SavesOf(p), 0>> \notin SavedOf(cards, SavesOf(p))
      BY <3>1, Zenon DEF SavedOf
    <3> QED
      BY <1>3, <2>2, <3>2, WholeFromZero, Zenon
  <2> QED
    BY <2>1, <2>2, Zenon
<1>6. DOMAIN new = {NextKey(p)} /\ new[NextKey(p)] = CardRow(NextCard(p), ticket[p])
  OBVIOUS
<1> HIDE DEF new
<1>7. Inserting(cards, layout[p], deleted[p], Over(new, inserted[p]), ticket[p])
  BY <1>3, <1>4, <1>5, <1>6, OneMoreCard, Zenon DEF SavesOf
<1>8. ASSUME NEW q \in Savers PROVE Saving(q)'
  <2>1. Saving(q)
    BY Zenon DEF CardInv
  <2>2. CASE q = p
    <3>1. inserted'[p] = Over(new, inserted[p])
      BY <1>1, Zenon DEF CardInv, Fields
    <3> QED
      BY <1>1, <1>7, <2>1, <2>2, <3>1, Zenon DEF Saving
  <2>3. CASE q # p
    <3>1. Same(q)
      BY <1>1, <2>3, Zenon DEF CardInv, Fields, Same
    <3> QED
      BY <1>1, <2>1, <3>1, SameKeeps, Zenon
  <2> QED
    BY <2>2, <2>3, Zenon
<1>9. ASSUME NEW q \in Savers, q # p, spc[q] = "insert", SavesOf(q) = SavesOf(p), Holds(q)
      PROVE  FALSE
  <2>1. <<SavesOf(p), 0>> \in DOMAIN inserted[q] \cup deleted[q]
    BY <1>9, HolderHasFirst, Zenon
  <2>2. ~ Holds(p)
    BY <1>1, <1>9, Zenon DEF CardInv, OneHolder
  <2>3. NextKey(p) = <<SavesOf(p), 0>>
    BY <1>e, <2>2, Zenon DEF Holds
  <2> QED
    BY <1>1, <1>9, <2>1, <2>3, Zenon DEF Pending
<1>10. OneHolder'
  <2> SUFFICES ASSUME NEW q \in Savers, NEW r \in Savers, q # r, spc[q] = "insert", spc[r] = "insert",
                      SavesOf(q) = SavesOf(r), Holds(q)', Holds(r)'
               PROVE  FALSE
    BY <1>1, Zenon DEF OneHolder, SavesOf
  <2>1. \A x \in Savers : x # p => (Holds(x)' <=> Holds(x))
    BY <1>1, Zenon DEF CardInv, Fields, Holds
  <2> QED
    BY <1>9, <2>1, Zenon DEF CardInv, OneHolder
<1>11. \A s \in Services : SomeWhole(SavedOf(cards', s), cards', s, saved')
  BY <1>1, Zenon DEF CardInv
<1> QED
  BY <1>2, <1>8, <1>10, <1>11, Zenon DEF CardInv

\* A transaction that has ended holds nothing.
LEMMA EndedKeeps ==
  ASSUME CardInv, NEW p \in Savers, SaveEnds(p), definitions' = definitions,
         \A s \in Services : SomeWhole(SavedOf(cards', s), cards', s, saved),
         \A q \in Savers : q # p /\ spc[q] = "insert" => 
           \/ SavedOf(cards', SavesOf(q)) = SavedOf(cards, SavesOf(q))
           \/ ~ Holds(q)
  PROVE  CardInv'
<1>1. /\ spc' = [spc EXCEPT ![p] = "idle"] /\ deleted' = [deleted EXCEPT ![p] = {}]
      /\ inserted' = [inserted EXCEPT ![p] = NoRows] /\ saves' = saves /\ saved' = saved
  BY Zenon DEF SaveEnds
<1>2. Fields' /\ Histories'
  BY Zenon DEF CardInv, Fields, Histories, SaveEnds
<1>3. spc'[p] = "idle" /\ DOMAIN inserted'[p] = {} /\ deleted'[p] = {}
  BY <1>1, Zenon DEF CardInv, Fields, NoRows
<1>4. \A q \in Savers : q # p => Same(q)
  BY Zenon DEF CardInv, Fields, SaveEnds, Same
<1>5. ASSUME NEW q \in Savers PROVE Saving(q)'
  <2>1. Saving(q)
    BY Zenon DEF CardInv
  <2>2. CASE q = p
    BY <1>3, <2>2, Zenon DEF Saving
  <2>3. CASE q # p /\ (spc[q] = "insert" => SavedOf(cards', SavesOf(q)) = SavedOf(cards, SavesOf(q)))
    BY <1>1, <1>4, <2>1, <2>3, SameKeeps, Zenon
  <2>4. CASE q # p /\ spc[q] = "insert" /\ ~ Holds(q)
    <3>1. Same(q) /\ layout[q] \in Layouts /\ DOMAIN inserted[q] = {} /\ deleted[q] = {}
      BY <1>4, <2>4, LayoutOf, Zenon DEF Holds
    <3>2. Inserting(cards', layout[q], deleted[q], inserted[q], ticket[q])
      BY <3>1, NothingInserted, Zenon
    <3> QED
      BY <1>1, <2>1, <2>4, <3>1, <3>2, Zenon DEF Saving, Same
  <2> QED
    BY <2>2, <2>3, <2>4, Zenon
<1>6. OneHolder'
  <2>1. \A q \in Savers : q # p => (Holds(q)' <=> Holds(q)) /\ SavesOf(q)' = SavesOf(q) /\ spc'[q] = spc[q]
    BY <1>4, Zenon DEF Same, Holds, SavesOf
  <2> QED
    BY <1>3, <2>1, Zenon DEF CardInv, OneHolder
<1> QED
  BY <1>1, <1>2, <1>5, <1>6, Zenon DEF CardInv

\* A save that fails leaves the layouts as they were.
LEMMA FailedKeeps ==
  ASSUME CardInv, NEW p \in Savers, SaveEnds(p), cards' = cards, definitions' = definitions
  PROVE  CardInv'
<1>1. \A s \in Services : SomeWhole(SavedOf(cards', s), cards', s, saved)
  BY Zenon DEF CardInv
<1> QED
  BY <1>1, EndedKeeps, Zenon

\* A save that commits puts its layout in the place of the one it has deleted.
LEMMA CommitKeeps ==
  ASSUME CardInv, NEW p \in Savers, SaveCommit(p), definitions' = definitions
  PROVE  CardInv'
<1> DEFINE s == SavesOf(p)
           in == inserted[p]
           l == layout[p]
<1>1. /\ spc[p] = "insert" /\ ~ HasNext(p) /\ SaveEnds(p)
      /\ cards' = Over(in, [k \in DOMAIN cards \ deleted[p] |-> cards[k]])
  BY Zenon DEF SaveCommit
<1>2. /\ Inserting(cards, l, deleted[p], in, ticket[p]) /\ l \in Layouts /\ s \in Services
      /\ SomeWhole(SavedOf(cards, s), cards, s, saved)
      /\ ticket[p] \in DOMAIN saved /\ saved[ticket[p]] = l /\ saved \in Seq(Layouts)
  BY <1>1, LayoutOf, Zenon DEF CardInv, Saving, Histories
<1>3. /\ \A k \in DOMAIN in : k[1] = s
      /\ \A k \in deleted[p] : k[1] = s /\ k \in DOMAIN cards
  BY <1>2 DEF Inserting, SavesOf, SavedOf
<1>4. /\ DOMAIN cards' = DOMAIN in \cup (DOMAIN cards \ deleted[p])
      /\ \A k \in DOMAIN in : cards'[k] = in[k]
      /\ \A k \in DOMAIN cards' \ DOMAIN in : cards'[k] = cards[k]
  BY <1>1, Zenon DEF Over
<1>5. ASSUME NEW r, r # s PROVE SavedOf(cards', r) = SavedOf(cards, r) /\ \A k \in SavedOf(cards, r) : cards'[k] = cards[k]
  BY <1>3, <1>4, <1>5 DEF SavedOf
<1>6. ASSUME ~ Holds(p) PROVE SavedOf(cards', s) = SavedOf(cards, s) /\ \A k \in SavedOf(cards, s) : cards'[k] = cards[k]
  BY <1>4, <1>6, Zenon DEF SavedOf, Holds
<1>7. ASSUME Holds(p) PROVE SavedOf(cards', s) = DOMAIN in
  <2>1. deleted[p] = SavedOf(cards, s)
    BY <1>2, <1>7, Zenon DEF Inserting, Holds, SavesOf
  <2> QED
    BY <1>3, <1>4, <2>1, Zenon DEF SavedOf
<1>8. Whole(DOMAIN in, in, s, ticket[p], saved)
  <2>1. Cardinality(DOMAIN in) = Len(l.cards) /\ DOMAIN l.cards = 1..Len(l.cards)
    <3>1. Cardinality(DOMAIN in) \in Nat /\ Cardinality(DOMAIN in) <= Len(l.cards)
      BY <1>2, FS_CardinalityType, Zenon DEF Inserting
    <3>2. Len(l.cards) \in Nat /\ DOMAIN l.cards = 1..Len(l.cards)
      BY <1>2, LayoutShape, Zenon
    <3>3. ~ (Cardinality(DOMAIN in) < Len(l.cards))
      BY <1>1, Zenon DEF HasNext
    <3> QED
      BY <3>1, <3>2, <3>3
  <2>2. ticket[p] # 0 /\ CardsOf(saved, ticket[p]) = l.cards
    BY <1>2 DEF CardsOf
  <2> QED
    BY <1>2, <2>1, <2>2, Zenon DEF Inserting, Whole, SavesOf
<1>9. ASSUME NEW r \in Services PROVE SomeWhole(SavedOf(cards', r), cards', r, saved)
  <2>1. SomeWhole(SavedOf(cards, r), cards, r, saved)
    BY Zenon DEF CardInv
  <2>2. CASE r # s
    BY <1>5, <2>1, <2>2, WholeSame, Zenon
  <2>3. CASE r = s /\ ~ Holds(p)
    BY <1>6, <2>1, <2>3, WholeSame, Zenon
  <2>4. CASE r = s /\ Holds(p)
    <3>1. SomeWhole(DOMAIN in, in, s, saved)
      BY <1>2, <1>8, Zenon DEF SomeWhole
    <3>2. SomeWhole(DOMAIN in, cards', s, saved)
      BY <1>4, <3>1, WholeSame, Zenon
    <3> QED
      BY <1>7, <2>4, <3>2, Zenon
  <2> QED
    BY <2>2, <2>3, <2>4, Zenon
<1>10. ASSUME NEW q \in Savers, q # p, spc[q] = "insert", Holds(q)
       PROVE  SavedOf(cards', SavesOf(q)) = SavedOf(cards, SavesOf(q))
  <2>1. CASE SavesOf(q) # s
    BY <1>5, <2>1, Zenon
  <2>2. CASE SavesOf(q) = s
    BY <1>1, <1>6, <1>10, <2>2, Zenon DEF CardInv, OneHolder
  <2> QED
    BY <2>1, <2>2, Zenon
<1> QED
  BY <1>1, <1>9, <1>10, EndedKeeps, Zenon

\* An apply adds definitions and never removes one.
LEMMA ApplyKeeps ==
  ASSUME CardInv, DefNext, UNCHANGED cardVars
  PROVE  CardInv'
<1>1. /\ cards' = cards /\ spc' = spc /\ layout' = layout /\ ticket' = ticket /\ snapshot' = snapshot
      /\ deleted' = deleted /\ inserted' = inserted /\ saves' = saves /\ saved' = saved
  BY Zenon DEF cardVars
<1>2. DOMAIN definitions \subseteq DOMAIN definitions'
  <2> SUFFICES ASSUME NEW a \in Appliers, definitions' = Seen(a)
               PROVE  DOMAIN definitions \subseteq DOMAIN definitions'
    BY Zenon DEF DefNext, Begin, Lock, Deprecate, Commit, Fail, Upsert
  <2> QED
    BY Zenon DEF Seen, Over
<1>3. Histories'
  BY <1>1, <1>2, Zenon DEF CardInv, Histories
<1>4. Fields'
  BY <1>1, Zenon DEF CardInv, Fields
<1>5. \A p \in Savers : Saving(p)'
  BY <1>1, SameKeeps, Zenon DEF CardInv, Same
<1>6. OneHolder' /\ \A s \in Services : SomeWhole(SavedOf(cards', s), cards', s, saved')
  BY <1>1, Zenon DEF CardInv, OneHolder, Holds, SavesOf
<1> QED
  BY <1>3, <1>4, <1>5, <1>6, Zenon DEF CardInv

\* The invariant holds at first: no save, no layout.
LEMMA CardInitial == Init => CardInv
<1> SUFFICES ASSUME Init PROVE CardInv
  OBVIOUS
<1>1. /\ cards = NoRows /\ spc = [p \in Savers |-> "idle"]
      /\ deleted = [p \in Savers |-> {}] /\ inserted = [p \in Savers |-> NoRows]
      /\ saves = 0 /\ saved = <<>> /\ DOMAIN NoRows = {}
  BY Zenon DEF Init, NoRows
<1>2. Histories
  BY <1>1 DEF Histories
<1>3. Fields
  BY Zenon DEF Init, Fields
<1>4. (\A p \in Savers : Saving(p)) /\ OneHolder
  BY <1>1, Zenon DEF Saving, OneHolder
<1>5. ASSUME NEW s \in Services PROVE SomeWhole(SavedOf(cards, s), cards, s, saved)
  <2>1. SavedOf(cards, s) = {} /\ DOMAIN CardsOf(saved, 0) = {}
    BY <1>1 DEF SavedOf, CardsOf
  <2>2. Whole(SavedOf(cards, s), cards, s, 0, saved)
    BY <2>1 DEF Whole
  <2> QED
    BY <2>2, Zenon DEF SomeWhole
<1> QED
  BY <1>2, <1>3, <1>4, <1>5, Zenon DEF CardInv

\* Every step preserves the invariant.
LEMMA CardStep == CardInv /\ [Next]_vars => CardInv'
<1> SUFFICES ASSUME CardInv, [Next]_vars PROVE CardInv'
  OBVIOUS
<1>1. CASE DefNext /\ UNCHANGED cardVars
  BY <1>1, ApplyKeeps, Zenon
<1>2. CASE SaveNext /\ UNCHANGED defVars
  <2>1. definitions' = definitions
    BY <1>2, Zenon DEF defVars
  <2>2. PICK p \in Savers :
          \/ \E l \in Layouts : Validate(p, l)
          \/ DeleteBegin(p) \/ DeleteEnd(p) \/ Insert(p)
          \/ SaveCommit(p) \/ SaveConflicts(p) \/ SaveFails(p)
    BY <1>2, Zenon DEF SaveNext
  <2>3. ASSUME NEW l \in Layouts, Validate(p, l) PROVE CardInv'
    BY <2>1, <2>3, ValidateKeeps, Zenon
  <2>4. CASE DeleteBegin(p)
    BY <2>1, <2>4, DeleteBeginKeeps, Zenon
  <2>5. CASE DeleteEnd(p)
    BY <2>1, <2>5, DeleteEndKeeps, Zenon
  <2>6. CASE Insert(p)
    BY <2>1, <2>6, InsertKeeps, Zenon
  <2>7. CASE SaveCommit(p)
    BY <2>1, <2>7, CommitKeeps, Zenon
  <2>8. CASE SaveConflicts(p) \/ SaveFails(p)
    BY <2>1, <2>8, FailedKeeps, Zenon DEF SaveConflicts, SaveFails
  <2> QED
    BY <2>2, <2>3, <2>4, <2>5, <2>6, <2>7, <2>8, Zenon
<1>3. CASE UNCHANGED vars
  <2>1. /\ cards' = cards /\ spc' = spc /\ layout' = layout /\ ticket' = ticket /\ snapshot' = snapshot
        /\ deleted' = deleted /\ inserted' = inserted /\ saves' = saves /\ saved' = saved
        /\ definitions' = definitions
    BY <1>3, Zenon DEF vars, cardVars, defVars
  <2>2. Histories' /\ Fields'
    BY <2>1, Zenon DEF CardInv, Histories, Fields
  <2>3. \A p \in Savers : Saving(p)'
    BY <2>1, SameKeeps, Zenon DEF CardInv, Same
  <2>4. OneHolder' /\ \A s \in Services : SomeWhole(SavedOf(cards', s), cards', s, saved')
    BY <2>1, Zenon DEF CardInv, OneHolder, Holds, SavesOf
  <2> QED
    BY <2>2, <2>3, <2>4, Zenon DEF CardInv
<1> QED
  BY <1>1, <1>2, <1>3, Zenon DEF Next

\* The committed rows are of one save, and its metrics are in the catalog.
LEMMA CardInvIsWhole == CardInv => LayoutIsWhole
<1> SUFFICES ASSUME CardInv, NEW s \in Services
    PROVE  /\ \A k \in Saved(s) : <<s, cards[k].metric>> \in DOMAIN definitions
           /\ \E i \in {0} \cup DOMAIN saved :
                LET all == IF i = 0 THEN <<>> ELSE saved[i].cards
                IN  /\ i > 0 => saved[i].service = s
                    /\ Saved(s) = {<<s, n - 1>> : n \in DOMAIN all}
                    /\ \A n \in DOMAIN all : LET row == cards[<<s, n - 1>>]
                         IN  row = [metric |-> all[n].metric, card_type |-> all[n].card_type, by |-> i]
  BY Zenon DEF LayoutIsWhole
<1>1. Saved(s) = SavedOf(cards, s)
  BY Zenon DEF Saved, SavedOf
<1>2. PICK i \in {0} \cup DOMAIN saved : Whole(Saved(s), cards, s, i, saved)
  BY <1>1, Zenon DEF CardInv, SomeWhole
<1>3. ASSUME NEW k \in Saved(s) PROVE <<s, cards[k].metric>> \in DOMAIN definitions
  <2>1. PICK n \in DOMAIN CardsOf(saved, i) : k = <<s, n - 1>>
    BY <1>2, Zenon DEF Whole
  <2>2. cards[k] = CardRow(CardsOf(saved, i)[n], i)
    BY <1>2, <2>1, Zenon DEF Whole
  <2>3. cards[k].metric = CardsOf(saved, i)[n].metric
    BY <2>2 DEF CardRow
  <2>4. i # 0 /\ i \in DOMAIN saved
    BY <1>2, <2>1 DEF CardsOf
  <2>5. CardsOf(saved, i) = saved[i].cards
    BY <2>4, Zenon DEF CardsOf
  <2>6. i > 0 /\ saved[i].service = s
    BY <1>2, <2>4 DEF Whole, CardInv, Histories
  <2> QED
    BY <2>1, <2>3, <2>4, <2>5, <2>6, Zenon DEF CardInv, Histories
<1> QED
  BY <1>2, <1>3, Zenon DEF Whole, CardsOf, CardRow

\* However many admins save at once, and whatever fails, the layout of a CLI is
\* all of one save, on metrics its catalog knows: the DELETE of
\* ReplaceDashboardCards takes all rows or none, and the primary key refuses
\* the INSERTs of a save that has not deleted what is there.
THEOREM LayoutsAlwaysWhole == Spec => []LayoutIsWhole
  BY CardInitial, CardStep, CardInvIsWhole, PTL DEF Spec

\* No two saves wait for each other in ReplaceDashboardCards, for any number of
\* concurrent ones: a save waits for the one that holds the rows of its CLI,
\* and that one waits for nobody.
THEOREM SavesAlwaysMove == Spec => []SavesNeverDeadlock
<1>1. CardInv => SavesNeverDeadlock
  <2> SUFFICES ASSUME CardInv, NEW p \in Savers, spc[p] # "idle",
                      \A q \in Savers :
                        /\ spc[q] # "delete"
                        /\ spc[q] = "deleting" =>
                             \E r \in Savers \ {q} : DOMAIN snapshot[q] \cap deleted[r] # {}
                        /\ spc[q] = "insert" => HasNext(q) /\ Pending(q, NextKey(q))
               PROVE  FALSE
    BY Zenon DEF SavesNeverDeadlock
  <2>1. \A q \in Savers : Holds(q) => spc[q] = "insert"
    BY Zenon DEF CardInv, Saving, Holds
  <2>2. PICK a \in Savers : spc[a] = "insert"
    <3>1. CASE spc[p] = "insert"
      BY <3>1, Zenon
    <3>2. CASE spc[p] = "deleting"
      <4>1. PICK r \in Savers : deleted[r] # {}
        BY <3>2, Zenon
      <4> QED
        BY <2>1, <4>1, Zenon DEF Holds
    <3> QED
      BY <3>1, <3>2, Zenon DEF CardInv, Fields
  <2>3. ASSUME NEW q \in Savers, spc[q] = "insert"
        PROVE  \E r \in Savers \ {q} : spc[r] = "insert" /\ SavesOf(r) = SavesOf(q) /\ Holds(r)
    <3>1. PICK r \in Savers \ {q} : NextKey(q) \in DOMAIN inserted[r] \cup deleted[r]
      BY <2>3, Zenon DEF Pending
    <3>2. Holds(r) /\ spc[r] = "insert"
      BY <2>1, <3>1, Zenon DEF Holds
    <3>3. Inserting(cards, layout[r], deleted[r], inserted[r], ticket[r])
      BY <3>2, Zenon DEF CardInv, Saving
    <3>4. \A k \in DOMAIN inserted[r] \cup deleted[r] : k[1] = SavesOf(r)
      BY <3>3 DEF Inserting, SavedOf, SavesOf
    <3>5. NextKey(q)[1] = SavesOf(q)
      BY Zenon DEF NextKey, SavesOf
    <3> QED
      BY <3>1, <3>2, <3>4, <3>5, Zenon
  <2>4. PICK b \in Savers : spc[b] = "insert" /\ Holds(b)
    BY <2>2, <2>3, Zenon
  <2>5. PICK c \in Savers \ {b} : spc[c] = "insert" /\ SavesOf(c) = SavesOf(b) /\ Holds(c)
    BY <2>3, <2>4, Zenon
  <2> QED
    BY <2>4, <2>5, Zenon DEF CardInv, OneHolder
<1> QED
  BY <1>1, CardInitial, CardStep, PTL DEF Spec
-----------------------------------------------------------------------------
(* The metric catalogs, and the cache of them.                             *)

Writing(a) == apc[a] \in {"upsert", "commit"}

Service(a) == file[a].service

\* An applier that writes holds the lock of its service, writes rows of its
\* service only, and an applier that does not write has written nothing.
Exclusive == \A a \in Appliers :
  /\ Writing(a) => lock[Service(a)] = a
  /\ ~ Writing(a) => wrote[a] = NoRows
  /\ \A k \in DOMAIN wrote[a] : k[1] = Service(a)

\* The row is in the transaction's view as the file has it.
AsFile(a, n) ==
  LET k == <<Service(a), n>>
  IN  /\ k \in DOMAIN Seen(a)
      /\ Seen(a)[k].current /\ Seen(a)[k].spec = file[a].metrics[n]

\* What the loop has passed is as the file has it.
Passed(a) ==
  /\ todo[a] \subseteq DOMAIN file[a].metrics
  /\ \A n \in DOMAIN file[a].metrics \ todo[a] : AsFile(a, n)

\* After the UPDATE nothing else of the service is current.
OnlyFile(a) == apc[a] = "commit" =>
  /\ todo[a] = {}
  /\ \A n \in Names : LET k == <<Service(a), n>>
       IN  k \in DOMAIN Seen(a) /\ Seen(a)[k].current => n \in DOMAIN file[a].metrics

Progress == \A a \in Appliers : Writing(a) => Passed(a) /\ OnlyFile(a)

\* The inductive invariant of the catalogs.
CatalogInv == TypeOK /\ Exclusive /\ Progress /\ CatalogIsLastFile

\* A valid file: a service, and specs for some names.
LEMMA FileShape == ASSUME NEW f \in Files
  PROVE  /\ f.service \in Services
         /\ DOMAIN f.metrics \subseteq Names
         /\ f.metrics \in [DOMAIN f.metrics -> Specs]
<1>1. f \in [service : Services, metrics : UNION {[N -> Specs] : N \in SUBSET Names}]
  BY CatalogAssumption, Zenon
<1>2. PICK N \in SUBSET Names : f.metrics \in [N -> Specs]
  BY <1>1, Zenon
<1> QED BY <1>1, <1>2, Zenon

\* Over keeps tables tables.
LEMMA OverIsTable == ASSUME NEW new, NEW old, IsTable(new), IsTable(old)
  PROVE  IsTable(Over(new, old))
  BY Zenon DEF Over, IsTable

\* The catalogs are empty at first.
LEMMA CatalogInitial == DefInit => CatalogInv
<1> SUFFICES ASSUME DefInit PROVE CatalogInv
  OBVIOUS
<1>1. TypeOK
  BY CatalogAssumption, Zenon DEF DefInit, TypeOK, IsTable, NoRows
<1>2. Exclusive
  BY Zenon DEF DefInit, Exclusive, Writing, NoRows
<1>3. Progress
  BY Zenon DEF DefInit, Progress, Writing
<1>4. CatalogIsLastFile
  BY Zenon DEF DefInit, CatalogIsLastFile, Current, NoRows
<1> QED BY <1>1, <1>2, <1>3, <1>4, Zenon DEF CatalogInv

\* Begin and Lock write nothing.
LEMMA CatalogBegin == ASSUME CatalogInv, NEW a \in Appliers, NEW f \in Files, Begin(a, f)
  PROVE  CatalogInv'
<1> USE DEF CatalogInv
<1>1. /\ apc[a] = "idle" /\ apc' = [apc EXCEPT ![a] = "lock"]
      /\ file' = [file EXCEPT ![a] = f]
      /\ definitions' = definitions /\ lock' = lock /\ todo' = todo
      /\ wrote' = wrote /\ applied' = applied
  BY Zenon DEF Begin
<1>2. TypeOK'
  BY CatalogAssumption DEF Begin, TypeOK, IsTable
<1>3. Exclusive'
  BY <1>1 DEF Exclusive, Writing, Service, TypeOK, NoRows
<1>4. Progress'
  <2> SUFFICES ASSUME NEW b \in Appliers, Writing(b)'
               PROVE  Passed(b)' /\ OnlyFile(b)'
    BY Zenon DEF Progress
  <2>1. b # a
    BY <1>1, Zenon DEF Writing, TypeOK
  <2> QED BY <1>1, <2>1 DEF Progress, Passed, OnlyFile, AsFile, Seen, Service, Writing, TypeOK
<1>5. CatalogIsLastFile'
  BY <1>1 DEF CatalogIsLastFile, Current
<1> QED BY <1>2, <1>3, <1>4, <1>5, Zenon

\* The lock is free when it is taken, so its service has one writer.
LEMMA CatalogLock == ASSUME CatalogInv, NEW a \in Appliers, Lock(a)
  PROVE  CatalogInv'
<1> USE DEF CatalogInv
<1>1. /\ apc[a] = "lock" /\ apc' = [apc EXCEPT ![a] = "upsert"]
      /\ lock[file[a].service] = NoApplier
      /\ lock' = [lock EXCEPT ![file[a].service] = a]
      /\ todo' = [todo EXCEPT ![a] = DOMAIN file[a].metrics]
      /\ file' = file /\ definitions' = definitions
      /\ wrote' = wrote /\ applied' = applied
  BY Zenon DEF Lock
<1>f. file[a] \in Files
  BY <1>1, Zenon DEF TypeOK
<1>2. TypeOK'
  BY <1>f, FileShape, Zenon DEF Lock, TypeOK, IsTable
<1>3. Exclusive'
  BY <1>1, <1>f, FileShape, CatalogAssumption DEF Exclusive, Writing, Service, TypeOK, NoRows
<1>4. Progress'
  <2> SUFFICES ASSUME NEW b \in Appliers, Writing(b)'
               PROVE  Passed(b)' /\ OnlyFile(b)'
    BY Zenon DEF Progress
  <2>1. CASE b = a
    BY <1>1, <2>1, Zenon DEF Passed, OnlyFile, TypeOK
  <2>2. CASE b # a
    BY <1>1, <2>2, Zenon DEF Progress, Passed, OnlyFile, AsFile, Seen, Service, Writing, TypeOK
  <2> QED BY <2>1, <2>2, Zenon
<1>5. CatalogIsLastFile'
  BY <1>1 DEF CatalogIsLastFile, Current
<1> QED BY <1>2, <1>3, <1>4, <1>5, Zenon

\* An applier whose transaction the step leaves alone, and to whom the
\* committed table looks the same, has got as far as before.
LEMMA UntouchedProgress ==
  ASSUME Progress, NEW b \in Appliers, Writing(b)',
         apc'[b] = apc[b], file'[b] = file[b], todo'[b] = todo[b],
         wrote'[b] = wrote[b], definitions' = definitions
  PROVE  Passed(b)' /\ OnlyFile(b)'
<1>1. Seen(b)' = Seen(b) /\ Service(b)' = Service(b)
  BY Zenon DEF Seen, Service
<1>2. Passed(b) /\ OnlyFile(b)
  BY Zenon DEF Progress, Writing
<1>3. Passed(b)'
  BY <1>1, <1>2, Zenon DEF Passed, AsFile
<1>4. OnlyFile(b)'
  BY <1>1, <1>2, Zenon DEF OnlyFile
<1> QED BY <1>3, <1>4, Zenon

\* One upsert: the row is then as the file has it, and rows of other names
\* and of other services are as they were.
LEMMA CatalogUpsert == ASSUME CatalogInv, NEW a \in Appliers, NEW n \in Names, Upsert(a, n)
  PROVE  CatalogInv'
<1> USE DEF CatalogInv
<1> DEFINE k == <<file[a].service, n>>
           spec == file[a].metrics[n]
           row == [spec |-> spec, current |-> TRUE, by |-> number[a]]
           one == [i \in {k} |-> row]
           new == IF Differs(a, k, spec) THEN Over(one, wrote[a]) ELSE wrote[a]
<1>1. /\ apc[a] = "upsert" /\ n \in todo[a]
      /\ wrote' = [wrote EXCEPT ![a] = new]
      /\ todo' = [todo EXCEPT ![a] = @ \ {n}]
      /\ file' = file /\ definitions' = definitions /\ lock' = lock /\ apc' = apc
      /\ number' = number /\ applied' = applied /\ applies' = applies
  BY Zenon DEF Upsert
<1>f. file[a] \in Files
  BY <1>1, Zenon DEF TypeOK
<1>t. n \in DOMAIN file[a].metrics /\ spec \in Specs /\ k \in Services \X Names
  BY <1>1, <1>f, FileShape, Zenon DEF Progress, Passed, Writing
<1>r. IsTable(one) /\ DOMAIN one = {k} /\ one[k] = row
  BY <1>t, Zenon DEF IsTable, Rows, TypeOK
<1>n. /\ IsTable(new) /\ DOMAIN new \subseteq DOMAIN wrote[a] \cup {k}
      /\ \A i \in DOMAIN wrote[a] : i # k => i \in DOMAIN new /\ new[i] = wrote[a][i]
  <2>1. IsTable(wrote[a])
    BY Zenon DEF TypeOK
  <2>2. IsTable(Over(one, wrote[a]))
    BY <1>r, <2>1, OverIsTable, Zenon
  <2> QED BY <1>r, <2>1, <2>2, Zenon DEF Over
<1>w. wrote'[a] = new /\ \A b \in Appliers : b # a => wrote'[b] = wrote[b]
  BY <1>1, Zenon DEF TypeOK
<1>2. TypeOK'
  <2>1. DOMAIN wrote' = Appliers /\ \A b \in Appliers : IsTable(wrote'[b])
    BY <1>1, <1>n, <1>w, Zenon DEF TypeOK
  <2> QED BY <1>1, <2>1, Zenon DEF TypeOK, IsTable
<1>3. Exclusive'
  <2> SUFFICES ASSUME NEW b \in Appliers
               PROVE  /\ Writing(b) => lock[Service(b)] = b
                      /\ ~ Writing(b) => wrote'[b] = NoRows
                      /\ \A i \in DOMAIN wrote'[b] : i[1] = Service(b)
    BY <1>1, Zenon DEF Exclusive, Writing, Service, NoRows
  <2>1. CASE b = a
    <3>1. \A i \in DOMAIN wrote[a] \cup {k} : i[1] = Service(a)
      BY DEF Exclusive, Service
    <3> QED BY <1>1, <1>n, <1>w, <2>1, <3>1, Zenon DEF Exclusive, Writing
  <2>2. CASE b # a
    BY <1>w, <2>2, Zenon DEF Exclusive
  <2> QED BY <2>1, <2>2, Zenon
<1>4. Progress'
  <2> SUFFICES ASSUME NEW b \in Appliers, Writing(b)'
               PROVE  Passed(b)' /\ OnlyFile(b)'
    BY Zenon DEF Progress
  <2>1. CASE b = a
    <3>1. Passed(a)
      BY <1>1, Zenon DEF Progress, Writing
    <3>2. todo'[a] = todo[a] \ {n}
      BY <1>1, Zenon DEF TypeOK
    <3>3. Seen(a)' = Over(new, definitions)
      BY <1>1, <1>w, Zenon DEF Seen
    <3>4. ASSUME NEW m \in DOMAIN file[a].metrics, m \notin todo'[a]
          PROVE  AsFile(a, m)'
      <4>1. CASE m = n
        <5>1. CASE Differs(a, k, spec)
          <6>1. k \in DOMAIN new /\ new[k] = row
            BY <5>1, <1>r, Zenon DEF Over
          <6>2. k \in DOMAIN Over(new, definitions) /\ Over(new, definitions)[k] = row
            BY <6>1, Zenon DEF Over
          <6>3. Seen(a)'[k] = row /\ k \in DOMAIN Seen(a)'
            BY <6>2, <3>3, Zenon
          <6>4. row.spec = spec /\ row.current
            OBVIOUS
          <6> HIDE DEF row
          <6> QED BY <4>1, <6>3, <6>4, <1>1, Zenon DEF AsFile, Service
        <5>2. CASE ~ Differs(a, k, spec)
          <6>1. k \in DOMAIN Seen(a) /\ Seen(a)[k].spec = spec /\ Seen(a)[k].current
            BY <5>2, Zenon DEF Differs
          <6>2. Seen(a)' = Seen(a)
            BY <5>2, <3>3, Zenon DEF Seen
          <6> QED BY <4>1, <6>1, <6>2, <1>1, Zenon DEF AsFile, Service
        <5> QED BY <5>1, <5>2, Zenon
      <4>2. CASE m # n
        <5> DEFINE i == <<file[a].service, m>>
        <5>1. AsFile(a, m)
          BY <3>1, <3>2, <3>4, <4>2, Zenon DEF Passed
        <5>2. i # k
          BY <4>2, Zenon
        <5>3. i \in DOMAIN Over(new, definitions) /\ Over(new, definitions)[i] = Seen(a)[i]
          BY <5>1, <5>2, <1>n, Zenon DEF AsFile, Seen, Over, Service
        <5> QED BY <5>1, <5>3, <3>3, <1>1, Zenon DEF AsFile, Service
      <4> QED BY <4>1, <4>2, Zenon
    <3>5. Passed(a)'
      BY <1>1, <3>1, <3>2, <3>4, Zenon DEF Passed
    <3> QED BY <1>1, <2>1, <3>5, Zenon DEF OnlyFile
  <2>2. CASE b # a
    <3>1. /\ apc'[b] = apc[b] /\ file'[b] = file[b] /\ todo'[b] = todo[b]
          /\ wrote'[b] = wrote[b] /\ definitions' = definitions
      BY <1>1, <1>w, <2>2, Zenon DEF TypeOK
    <3> QED BY <3>1, UntouchedProgress, Zenon
  <2> QED BY <2>1, <2>2, Zenon
<1>5. CatalogIsLastFile'
  BY <1>1 DEF CatalogIsLastFile, Current
<1> QED BY <1>2, <1>3, <1>4, <1>5, Zenon

\* The deprecating UPDATE: what it leaves current is in the file.
LEMMA CatalogDeprecate == ASSUME CatalogInv, NEW a \in Appliers, Deprecate(a)
  PROVE  CatalogInv'
<1> USE DEF CatalogInv
<1> DEFINE old == [i \in Left(a) |->
                     [spec |-> Seen(a)[i].spec, current |-> FALSE, by |-> number[a]]]
           new == Over(old, wrote[a])
<1>1. /\ apc[a] = "upsert" /\ todo[a] = {}
      /\ apc' = [apc EXCEPT ![a] = "commit"]
      /\ wrote' = [wrote EXCEPT ![a] = new]
      /\ file' = file /\ definitions' = definitions /\ lock' = lock /\ todo' = todo
      /\ number' = number /\ applied' = applied /\ applies' = applies
  BY Zenon DEF Deprecate
<1>f. file[a] \in Files
  BY <1>1, Zenon DEF TypeOK
<1>s. IsTable(Seen(a))
  BY OverIsTable, Zenon DEF Seen, TypeOK
<1>n. /\ IsTable(new) /\ DOMAIN new = DOMAIN wrote[a] \cup Left(a)
      /\ \A i \in Left(a) : new[i].current = FALSE
      /\ \A i \in DOMAIN wrote[a] \ Left(a) : new[i] = wrote[a][i]
  <2>1. \A i \in Left(a) : Seen(a)[i] \in Rows /\ i \in Services \X Names
    BY <1>s, Zenon DEF Left, IsTable
  <2>2. IsTable(old)
    BY <2>1, Zenon DEF IsTable, Rows, TypeOK
  <2>3. IsTable(new)
    BY <2>2, OverIsTable, Zenon DEF TypeOK
  <2> QED BY <2>3, Zenon DEF Over
<1>w. wrote'[a] = new /\ \A b \in Appliers : b # a => wrote'[b] = wrote[b]
  BY <1>1, Zenon DEF TypeOK
<1> HIDE DEF new
<1>v. /\ DOMAIN Seen(a)' = DOMAIN Seen(a)
      /\ \A i \in Left(a) : Seen(a)'[i].current = FALSE
      /\ \A i \in DOMAIN Seen(a) \ Left(a) : Seen(a)'[i] = Seen(a)[i]
  <2>1. Seen(a)' = Over(new, definitions)
    BY <1>1, <1>w, Zenon DEF Seen
  <2>2. Left(a) \subseteq DOMAIN Seen(a)
    BY Zenon DEF Left
  <2> QED BY <2>1, <2>2, <1>n DEF Seen, Over
<1>2. TypeOK'
  <2>1. DOMAIN wrote' = Appliers /\ \A b \in Appliers : IsTable(wrote'[b])
    BY <1>1, <1>n, <1>w, Zenon DEF TypeOK
  <2> QED BY <1>1, <2>1, Zenon DEF TypeOK, IsTable
<1>3. Exclusive'
  <2> SUFFICES ASSUME NEW b \in Appliers
               PROVE  /\ Writing(b)' => lock[Service(b)] = b
                      /\ ~ Writing(b)' => wrote'[b] = NoRows
                      /\ \A i \in DOMAIN wrote'[b] : i[1] = Service(b)
    BY <1>1, Zenon DEF Exclusive, Service, NoRows
  <2>1. CASE b = a
    <3>1. \A i \in DOMAIN wrote[a] \cup Left(a) : i[1] = Service(a)
      BY Zenon DEF Exclusive, Service, Left
    <3> QED BY <1>1, <1>n, <1>w, <2>1, <3>1, Zenon DEF Exclusive, Writing, TypeOK
  <2>2. CASE b # a
    BY <1>1, <1>w, <2>2, Zenon DEF Exclusive, Writing, TypeOK
  <2> QED BY <2>1, <2>2, Zenon
<1>4. Progress'
  <2> SUFFICES ASSUME NEW b \in Appliers, Writing(b)'
               PROVE  Passed(b)' /\ OnlyFile(b)'
    BY Zenon DEF Progress
  <2>1. CASE b = a
    <3>1. Passed(a)
      BY <1>1, Zenon DEF Progress, Writing
    <3>2. Passed(a)'
      <4> SUFFICES ASSUME NEW m \in DOMAIN file[a].metrics
                   PROVE  AsFile(a, m)'
        BY <1>1, <3>1, Zenon DEF Passed
      <4>1. AsFile(a, m)
        BY <1>1, <3>1, Zenon DEF Passed
      <4>2. <<file[a].service, m>> \notin Left(a)
        BY Zenon DEF Left
      <4> QED BY <1>1, <1>v, <4>1, <4>2, Zenon DEF AsFile, Service
    <3>3. OnlyFile(a)'
      <4> SUFFICES ASSUME NEW m \in Names, <<file[a].service, m>> \in DOMAIN Seen(a)',
                          Seen(a)'[<<file[a].service, m>>].current
                   PROVE  m \in DOMAIN file[a].metrics
        BY <1>1, Zenon DEF OnlyFile, Service
      <4> DEFINE i == <<file[a].service, m>>
      <4>1. i \in DOMAIN Seen(a) \ Left(a)
        BY <1>v, Zenon
      <4>2. Seen(a)[i].current
        BY <1>v, <4>1, Zenon
      <4> QED BY <4>1, <4>2, Zenon DEF Left
    <3> QED BY <2>1, <3>2, <3>3, Zenon
  <2>2. CASE b # a
    <3>1. /\ apc'[b] = apc[b] /\ file'[b] = file[b] /\ todo'[b] = todo[b]
          /\ wrote'[b] = wrote[b] /\ definitions' = definitions
      BY <1>1, <1>w, <2>2, Zenon DEF TypeOK
    <3> QED BY <3>1, UntouchedProgress, Zenon
  <2> QED BY <2>1, <2>2, Zenon
<1>5. CatalogIsLastFile'
  BY <1>1 DEF CatalogIsLastFile, Current
<1> QED BY <1>2, <1>3, <1>4, <1>5, Zenon

\* What the end of a transaction leaves to the other appliers.
LEMMA EndShape == ASSUME CatalogInv, NEW a \in Appliers, End(a)
  PROVE  /\ ~ Writing(a)' /\ wrote'[a] = NoRows
         /\ \A b \in Appliers : b # a =>
              /\ apc'[b] = apc[b] /\ file'[b] = file[b] /\ todo'[b] = todo[b]
              /\ wrote'[b] = wrote[b]
         /\ Exclusive'
<1> USE DEF CatalogInv
<1>1. /\ ~ Writing(a)' /\ wrote'[a] = NoRows
      /\ \A b \in Appliers : b # a =>
           /\ apc'[b] = apc[b] /\ file'[b] = file[b] /\ todo'[b] = todo[b]
           /\ wrote'[b] = wrote[b]
  BY Zenon DEF End, Writing, TypeOK
<1>2. Exclusive'
  <2> SUFFICES ASSUME NEW b \in Appliers
               PROVE  /\ Writing(b)' => lock'[Service(b)'] = b
                      /\ ~ Writing(b)' => wrote'[b] = NoRows
                      /\ \A i \in DOMAIN wrote'[b] : i[1] = Service(b)'
    BY Zenon DEF Exclusive, NoRows
  <2>1. CASE b = a
    BY <1>1, <2>1, Zenon DEF NoRows
  <2>2. CASE b # a
    <3>1. Writing(b) => Service(b) \in Services
      BY FileShape, Zenon DEF Writing, Service, TypeOK
    <3> QED BY <1>1, <2>2, <3>1 DEF Exclusive, Writing, Service, End
  <2> QED BY <2>1, <2>2, Zenon
<1> QED BY <1>1, <1>2, Zenon

\* A rolled back apply leaves no trace.
LEMMA CatalogFail == ASSUME CatalogInv, NEW a \in Appliers, Fail(a)
  PROVE  CatalogInv'
<1> USE DEF CatalogInv
<1>1. End(a) /\ definitions' = definitions /\ applied' = applied /\ applies' = applies
  BY Zenon DEF Fail
<1>2. TypeOK'
  <2>1. IsTable(NoRows)
    BY Zenon DEF IsTable, NoRows
  <2>2. DOMAIN wrote' = Appliers /\ \A b \in Appliers : IsTable(wrote'[b])
    BY <1>1, <2>1, Zenon DEF End, TypeOK
  <2> QED BY <1>1, <2>2, Zenon DEF End, TypeOK, IsTable
<1>3. Progress'
  <2> SUFFICES ASSUME NEW b \in Appliers, Writing(b)'
               PROVE  Passed(b)' /\ OnlyFile(b)'
    BY Zenon DEF Progress
  <2>1. b # a
    BY <1>1, EndShape, Zenon
  <2>2. /\ apc'[b] = apc[b] /\ file'[b] = file[b] /\ todo'[b] = todo[b]
        /\ wrote'[b] = wrote[b]
    BY <1>1, <2>1, EndShape, Zenon
  <2> QED BY <1>1, <2>2, UntouchedProgress, Zenon
<1>4. CatalogIsLastFile'
  BY <1>1 DEF CatalogIsLastFile, Current
<1> QED BY <1>1, <1>2, <1>3, <1>4, EndShape, Zenon

\* A commit makes the service's catalog the file, and touches no other
\* service, and so no other transaction under way.
LEMMA CatalogCommit == ASSUME CatalogInv, NEW a \in Appliers, Commit(a)
  PROVE  CatalogInv'
<1> USE DEF CatalogInv
<1>1. /\ End(a) /\ apc[a] = "commit" /\ Writing(a)
      /\ definitions' = Seen(a) /\ applies' = applies
      /\ applied' = [applied EXCEPT ![Service(a)] = file[a].metrics]
  BY Zenon DEF Commit, Service, Writing
<1>f. file[a] \in Files /\ Service(a) \in Services
  BY <1>1, FileShape, Zenon DEF TypeOK, Service
<1>d. /\ DOMAIN definitions \subseteq DOMAIN definitions'
      /\ \A k : k[1] # Service(a) =>
           /\ k \in DOMAIN definitions' <=> k \in DOMAIN definitions
           /\ k \in DOMAIN definitions => definitions'[k] = definitions[k]
  BY <1>1, Zenon DEF Exclusive, Seen, Over
<1>2. TypeOK'
  <2>1. IsTable(NoRows)
    BY Zenon DEF IsTable, NoRows
  <2>2. DOMAIN wrote' = Appliers /\ \A b \in Appliers : IsTable(wrote'[b])
    BY <1>1, <2>1, Zenon DEF End, TypeOK
  <2>3. IsTable(definitions')
    BY <1>1, OverIsTable, Zenon DEF Seen, TypeOK
  <2>4. IsTable(definitions)'
    BY <2>3, Zenon DEF IsTable
  <2>5. (DOMAIN wrote = Appliers /\ \A b \in Appliers : IsTable(wrote[b]))'
    BY <2>2, Zenon DEF IsTable
  <2> QED BY <1>1, <2>4, <2>5, Zenon DEF End, TypeOK
<1>3. Progress'
  <2> SUFFICES ASSUME NEW b \in Appliers, Writing(b)'
               PROVE  Passed(b)' /\ OnlyFile(b)'
    BY Zenon DEF Progress
  <2>1. b # a
    BY <1>1, EndShape, Zenon
  <2>2. /\ apc'[b] = apc[b] /\ file'[b] = file[b] /\ todo'[b] = todo[b]
        /\ wrote'[b] = wrote[b] /\ Writing(b)
    BY <1>1, <2>1, EndShape, Zenon DEF Writing
  <2>3. Service(b) # Service(a)
    BY <1>1, <2>1, <2>2, Zenon DEF Exclusive
  <2>4. ASSUME NEW n
        PROVE  LET k == <<Service(b), n>>
               IN  /\ k \in DOMAIN Seen(b)' <=> k \in DOMAIN Seen(b)
                   /\ k \in DOMAIN Seen(b) => Seen(b)'[k] = Seen(b)[k]
    <3> DEFINE k == <<Service(b), n>>
    <3>1. /\ k \in DOMAIN definitions' <=> k \in DOMAIN definitions
          /\ k \in DOMAIN definitions => definitions'[k] = definitions[k]
      BY <1>d, <2>3, Zenon
    <3> QED BY <2>2, <3>1, Zenon DEF Seen, Over
  <2>5. Passed(b) /\ OnlyFile(b) /\ Service(b)' = Service(b)
    BY <2>2, Zenon DEF Progress, Service
  <2>6. Passed(b)'
    BY <2>2, <2>4, <2>5 DEF Passed, AsFile
  <2>7. OnlyFile(b)'
    BY <2>2, <2>4, <2>5, Zenon DEF OnlyFile
  <2> QED BY <2>6, <2>7, Zenon
<1>4. CatalogIsLastFile'
  <2> SUFFICES ASSUME NEW s \in Services
               PROVE  Current(definitions', s) = applied'[s]
    BY Zenon DEF CatalogIsLastFile, Current
  <2> DEFINE N(t) == {n \in Names : <<s, n>> \in DOMAIN t /\ t[<<s, n>>].current}
  <2>1. CASE s = Service(a)
    <3>1. Passed(a) /\ OnlyFile(a) /\ todo[a] = {}
      BY <1>1, Zenon DEF Progress, OnlyFile
    <3>2. N(definitions') = DOMAIN file[a].metrics
      BY <1>1, <1>f, <2>1, <3>1, FileShape, Zenon DEF Passed, OnlyFile, AsFile
    <3>3. \A n \in DOMAIN file[a].metrics : definitions'[<<s, n>>].spec = file[a].metrics[n]
      BY <1>1, <2>1, <3>1, Zenon DEF Passed, AsFile
    <3>4. file[a].metrics = [n \in DOMAIN file[a].metrics |-> file[a].metrics[n]]
      BY <1>f, FileShape, Zenon
    <3>5. applied'[s] = file[a].metrics
      BY <1>1, <1>f, <2>1, Zenon DEF TypeOK
    <3> QED BY <3>2, <3>3, <3>4, <3>5, Zenon DEF Current
  <2>2. CASE s # Service(a)
    <3>1. \A n \in Names : LET k == <<s, n>>
            IN  /\ k \in DOMAIN definitions' <=> k \in DOMAIN definitions
                /\ k \in DOMAIN definitions => definitions'[k] = definitions[k]
      BY <1>d, <2>2, Zenon
    <3>2. N(definitions') = N(definitions)
      BY <3>1, Zenon
    <3>3. Current(definitions', s) = Current(definitions, s)
      BY <3>1, <3>2, Zenon DEF Current
    <3>4. applied'[s] = applied[s]
      BY <1>1, <2>2, Zenon DEF TypeOK
    <3>5. Current(definitions, s) = applied[s]
      BY Zenon DEF CatalogIsLastFile
    <3> QED BY <3>3, <3>4, <3>5, Zenon
  <2> QED BY <2>1, <2>2, Zenon
<1> QED BY <1>1, <1>2, <1>3, <1>4, EndShape, Zenon

\* Every step of the catalogs preserves the invariant.
LEMMA CatalogStep == CatalogInv /\ [DefNext]_defVars => CatalogInv'
<1> SUFFICES ASSUME CatalogInv, [DefNext]_defVars PROVE CatalogInv'
  OBVIOUS
<1>1. ASSUME NEW a \in Appliers, NEW f \in Files, Begin(a, f) PROVE CatalogInv'
  BY <1>1, CatalogBegin, Zenon
<1>2. ASSUME NEW a \in Appliers, Lock(a) PROVE CatalogInv'
  BY <1>2, CatalogLock, Zenon
<1>3. ASSUME NEW a \in Appliers, NEW n \in Names, Upsert(a, n) PROVE CatalogInv'
  BY <1>3, CatalogUpsert, Zenon
<1>4. ASSUME NEW a \in Appliers, Deprecate(a) PROVE CatalogInv'
  BY <1>4, CatalogDeprecate, Zenon
<1>5. ASSUME NEW a \in Appliers, Commit(a) PROVE CatalogInv'
  BY <1>5, CatalogCommit, Zenon
<1>6. ASSUME NEW a \in Appliers, Fail(a) PROVE CatalogInv'
  BY <1>6, CatalogFail, Zenon
<1>7. CASE UNCHANGED defVars
  <2>1. /\ definitions' = definitions /\ lock' = lock /\ apc' = apc /\ file' = file
        /\ todo' = todo /\ wrote' = wrote /\ number' = number
        /\ applies' = applies /\ applied' = applied
    BY <1>7, Zenon DEF defVars, local
  <2>2. TypeOK'
    BY <2>1, Zenon DEF CatalogInv, TypeOK, IsTable
  <2>3. Exclusive'
    BY <2>1, Zenon DEF CatalogInv, Exclusive, Writing, Service, NoRows
  <2>4. Progress'
    BY <2>1, Zenon DEF CatalogInv, Progress, Passed, OnlyFile, AsFile, Seen, Service, Writing
  <2>5. CatalogIsLastFile'
    BY <2>1, Zenon DEF CatalogInv, CatalogIsLastFile, Current
  <2> QED BY <2>2, <2>3, <2>4, <2>5, Zenon DEF CatalogInv
<1> QED BY <1>1, <1>2, <1>3, <1>4, <1>5, <1>6, <1>7, Zenon DEF DefNext

\* A save leaves the catalogs alone.
LEMMA NextIsDefStep == [Next]_vars => [DefNext]_defVars
<1>1. ASSUME Next PROVE [DefNext]_defVars
  BY <1>1, Zenon DEF Next
<1>2. ASSUME UNCHANGED vars PROVE UNCHANGED defVars
  BY <1>2, Zenon DEF vars
<1> QED BY <1>1, <1>2, Zenon

\* Under any interleaving of applies and saves, failed ones included, the
\* current metrics of every CLI are exactly the file that
\* ApplyMetricDefinitions committed last for it.
THEOREM CatalogExact == Spec => [](TypeOK /\ CatalogIsLastFile)
<1>1. Init => CatalogInv
  BY CatalogInitial, Zenon DEF Init
<1>2. CatalogInv /\ [Next]_vars => CatalogInv'
  BY CatalogStep, NextIsDefStep, Zenon
<1>3. CatalogInv => TypeOK /\ CatalogIsLastFile
  BY Zenon DEF CatalogInv
<1> QED BY <1>1, <1>2, <1>3, PTL DEF Spec

\* What appliers hold and what was applied last are valid files.
ValidInv ==
  /\ \A a \in Appliers : apc[a] # "idle" => Resolves(file[a].metrics)
  /\ \A s \in Services : Resolves(applied[s])

\* Only a valid file gets into an applier, and only an applier's into applied.
LEMMA ValidStep == TypeOK /\ ValidInv /\ [DefNext]_defVars => ValidInv'
<1> SUFFICES ASSUME TypeOK, ValidInv, [DefNext]_defVars PROVE ValidInv'
  OBVIOUS
<1> USE DEF ValidInv, TypeOK
<1>1. ASSUME NEW a \in Appliers, NEW f \in Files, Begin(a, f) PROVE ValidInv'
  <2>1. /\ apc' = [apc EXCEPT ![a] = "lock"] /\ file' = [file EXCEPT ![a] = f]
        /\ applied' = applied /\ Resolves(f.metrics)
    BY <1>1, Zenon DEF Begin, ValidFile
  <2> QED BY <2>1, Zenon
<1>2. ASSUME NEW a \in Appliers, Lock(a) \/ Deprecate(a) \/ (\E n \in Names : Upsert(a, n))
      PROVE  ValidInv'
  <2>1. /\ file' = file /\ applied' = applied /\ apc[a] # "idle"
        /\ \A b \in Appliers : b # a => apc'[b] = apc[b]
    BY <1>2, Zenon DEF Lock, Deprecate, Upsert
  <2> QED BY <2>1, Zenon
<1>3. ASSUME NEW a \in Appliers, Commit(a) PROVE ValidInv'
  <2>1. /\ apc[a] # "idle" /\ apc' = [apc EXCEPT ![a] = "idle"]
        /\ \A b \in Appliers : b # a => file'[b] = file[b]
        /\ applied' = [applied EXCEPT ![file[a].service] = file[a].metrics]
    BY <1>3, Zenon DEF Commit, End
  <2> QED BY <2>1, Zenon
<1>4. ASSUME NEW a \in Appliers, Fail(a) PROVE ValidInv'
  <2>1. /\ apc' = [apc EXCEPT ![a] = "idle"] /\ applied' = applied
        /\ \A b \in Appliers : b # a => file'[b] = file[b]
    BY <1>4, Zenon DEF Fail, End
  <2> QED BY <2>1, Zenon
<1>5. CASE UNCHANGED defVars
  BY <1>5, Zenon DEF defVars, local
<1> QED BY <1>1, <1>2, <1>3, <1>4, <1>5, Zenon DEF DefNext

\* Under any interleaving of applies, the operands of every current ratio are
\* current metrics of the same CLI that are no ratios, as Validate demands of
\* one file: ApplyMetricDefinitions never leaves a mixture of two files.
THEOREM RatiosAlwaysResolve == Spec => []RatiosResolve
<1>1. Init => CatalogInv /\ ValidInv
  <2> SUFFICES ASSUME Init PROVE CatalogInv /\ ValidInv
    OBVIOUS
  <2>1. /\ apc = [a \in Appliers |-> "idle"] /\ applied = [s \in Services |-> NoRows]
    BY Zenon DEF Init, DefInit
  <2>2. DOMAIN NoRows = {}
    BY Zenon DEF NoRows
  <2>3. Resolves(NoRows)
    BY <2>2, Zenon DEF Resolves
  <2> QED BY <2>1, <2>3, CatalogInitial, Zenon DEF Init, ValidInv
<1>2. CatalogInv /\ ValidInv /\ [Next]_vars => (CatalogInv /\ ValidInv)'
  BY CatalogStep, ValidStep, NextIsDefStep, Zenon DEF CatalogInv
<1>3. CatalogInv /\ ValidInv => RatiosResolve
  BY Zenon DEF CatalogInv, ValidInv, CatalogIsLastFile, RatiosResolve
<1> QED BY <1>1, <1>2, <1>3, PTL DEF Spec

-----------------------------------------------------------------------------
(* The catalog cache of an ingest process.                                 *)

\* An answer was the catalog at some moment not before t.
HeldSince(truth, en, c, t) == truth = c \/ (c \in DOMAIN en /\ t <= en[c])

\* What an applier holds is a file, and so is what was committed last.
AppliedInv == \A s \in Services : applied[s] \in {NoRows} \cup {f.metrics : f \in Files}

Clocks ==
  /\ now \in Nat
  /\ \A c \in DOMAIN ended : ended[c] \in Nat
  /\ pc \in [Exports -> {"idle", "load", "store"}] /\ began \in [Exports -> Nat]
  /\ got = [e \in Exports |-> got[e]]
  /\ reader = "dashboard" => served = NoAnswer

\* An export at work began at most MaxLoad ago, and what it has loaded was the
\* catalog after that.
Loading(e) == pc[e] # "idle" =>
  /\ began[e] <= now /\ now - began[e] <= MaxLoad
  /\ pc[e] = "store" => got[e] \in Catalogs /\ HeldSince(Catalog, ended, got[e], began[e])

\* The entry was the catalog at some moment not more than TTL before it expires.
EntryOK == entry # None =>
  /\ entry.expires \in Int /\ entry.answer \in Catalogs /\ entry.expires - TTL <= now
  /\ HeldSince(Catalog, ended, entry.answer, entry.expires - TTL)

CacheInv == Clocks /\ (\A e \in Exports : Loading(e)) /\ EntryOK

\* A file is committed as it was parsed.
LEMMA AppliedStep == CatalogInv /\ AppliedInv /\ [DefNext]_defVars => AppliedInv'
<1> SUFFICES ASSUME CatalogInv, AppliedInv, [DefNext]_defVars PROVE AppliedInv'
  OBVIOUS
<1>1. CASE applied' = applied
  BY <1>1, Zenon DEF AppliedInv
<1>2. ASSUME NEW a \in Appliers, Commit(a) PROVE AppliedInv'
  <2>1. applied' = [applied EXCEPT ![file[a].service] = file[a].metrics] /\ file[a] \in Files
    BY <1>2, Zenon DEF Commit, CatalogInv, TypeOK
  <2> QED
    BY <2>1, Zenon DEF AppliedInv, CatalogInv, TypeOK
<1> QED
  BY <1>1, <1>2, Zenon DEF DefNext, defVars, Begin, Lock, Deprecate, Fail, Upsert

\* What MetricCatalogRules reads is a catalog of files.
LEMMA CatalogType == CatalogInv /\ AppliedInv => Catalog \in Catalogs
  BY Zenon DEF CatalogInv, CatalogIsLastFile, AppliedInv, Catalog, Catalogs

\* What held since t, t not after now, still did so once a catalog is replaced.
LEMMA HeldKeeps ==
  ASSUME NoteEnd, NEW c, NEW t \in Int, t <= now, HeldSince(Catalog, ended, c, t)
  PROVE  HeldSince(Catalog', ended', c, t)
<1>1. CASE Catalog' = Catalog
  BY <1>1, Zenon DEF NoteEnd, HeldSince
<1>2. CASE Catalog' # Catalog
  <2>1. ended' = [b \in DOMAIN ended \cup {Catalog} |-> IF b = Catalog THEN now ELSE ended[b]]
    BY <1>2, Zenon DEF NoteEnd
  <2> QED
    BY <2>1, Zenon DEF HeldSince
<1> QED
  BY <1>1, <1>2, Zenon

\* The catalog changes with the definitions only.
LEMMA CatalogSame == ASSUME definitions' = definitions PROVE Catalog' = Catalog
  BY Zenon DEF Catalog

\* A step that notes what it replaces and leaves the cache alone.
LEMMA NotedKeeps ==
  ASSUME CacheInv, NoteEnd, UNCHANGED cacheVars, UNCHANGED reader, served' = NoAnswer \/ served' = served
  PROVE  CacheInv'
<1>1. now' = now /\ entry' = entry /\ pc' = pc /\ began' = began /\ got' = got /\ reader' = reader
  BY Zenon DEF cacheVars, locals
<1>2. now \in Nat /\ began \in [Exports -> Nat] /\ TTL \in Nat
  BY CacheAssumption, Zenon DEF CacheInv, Clocks
<1>3. \A c \in DOMAIN ended' : ended'[c] \in Nat
  BY <1>2, Zenon DEF NoteEnd, CacheInv, Clocks
<1>4. Clocks'
  BY <1>1, <1>3, Zenon DEF CacheInv, Clocks
<1>5. ASSUME NEW e \in Exports PROVE Loading(e)'
  <2>1. Loading(e)
    BY Zenon DEF CacheInv
  <2>2. CASE pc[e] = "store"
    <3>1. HeldSince(Catalog', ended', got[e], began[e])
      BY <1>2, <2>1, <2>2, HeldKeeps DEF Loading
    <3> QED
      BY <1>1, <2>1, <2>2, <3>1, Zenon DEF Loading
  <2>3. CASE pc[e] # "store"
    BY <1>1, <2>1, <2>3, Zenon DEF Loading
  <2> QED
    BY <2>2, <2>3, Zenon
<1>6. EntryOK'
  <2>1. CASE entry = None
    BY <1>1, <2>1, Zenon DEF EntryOK
  <2>2. CASE entry # None
    <3>1. /\ entry.expires \in Int /\ entry.answer \in Catalogs /\ entry.expires - TTL <= now
          /\ HeldSince(Catalog, ended, entry.answer, entry.expires - TTL)
      BY <2>2, Zenon DEF CacheInv, EntryOK
    <3>2. HeldSince(Catalog', ended', entry.answer, entry.expires - TTL)
      BY <1>2, <3>1, HeldKeeps
    <3> QED
      BY <1>1, <3>1, <3>2, Zenon DEF EntryOK
  <2> QED
    BY <2>1, <2>2, Zenon
<1> QED
  BY <1>4, <1>5, <1>6, Zenon DEF CacheInv

\* What an export does on its own: catalog and history stay.
LEMMA ExportKeeps ==
  ASSUME CacheInv, Catalog \in Catalogs, definitions' = definitions, reader' = reader, reader = "ingest",
         NEW e \in Exports, Hit(e) \/ Miss(e) \/ Load(e) \/ LoadFails(e) \/ Store(e)
  PROVE  CacheInv'
<1>1. now' = now /\ ended' = ended
  BY Zenon DEF Hit, Miss, Load, LoadFails, Store
<1>2. Catalog' = Catalog
  BY CatalogSame, Zenon
<1>3. now \in Nat /\ began \in [Exports -> Nat] /\ TTL \in Nat \ {0} /\ MaxLoad \in Nat
  BY CacheAssumption, Zenon DEF CacheInv, Clocks
<1>4. Clocks'
  <2>1. pc' \in [Exports -> {"idle", "load", "store"}] /\ began' \in [Exports -> Nat] /\ got' = [f \in Exports |-> got'[f]]
    BY <1>3 DEF CacheInv, Clocks, Hit, Miss, Load, LoadFails, Store, Done, locals
  <2> QED
    BY <1>1, <2>1, Zenon DEF CacheInv, Clocks
<1>5. ASSUME NEW f \in Exports PROVE Loading(f)'
  <2>1. Loading(f)
    BY Zenon DEF CacheInv
  <2>2. CASE pc'[f] = pc[f] /\ began'[f] = began[f] /\ got'[f] = got[f]
    BY <1>1, <1>2, <2>1, <2>2, Zenon DEF Loading
  <2>3. CASE f = e /\ Miss(e)
    <3>1. pc'[e] = "load" /\ began'[e] = now
      BY <2>3, Zenon DEF Miss, CacheInv, Clocks
    <3>2. now <= now /\ now - now <= MaxLoad
      BY <1>3
    <3> QED
      BY <1>1, <2>3, <3>1, <3>2, Zenon DEF Loading
  <2>4. CASE f = e /\ Load(e)
    <3>1. pc[e] = "load" /\ pc'[e] = "store" /\ began'[e] = began[e] /\ got'[e] = Catalog
      BY <2>4, Zenon DEF Load, CacheInv, Clocks
    <3>2. HeldSince(Catalog', ended', got'[e], began'[e])
      BY <1>2, <3>1, Zenon DEF HeldSince
    <3> QED
      BY <1>1, <2>1, <2>4, <3>1, <3>2, Zenon DEF Loading
  <2>5. CASE f = e /\ (LoadFails(e) \/ Store(e))
    <3>1. pc'[e] = "idle"
      BY <2>5, Zenon DEF LoadFails, Store, Done, CacheInv, Clocks
    <3> QED
      BY <2>5, <3>1, Zenon DEF Loading
  <2> QED
    BY <2>2, <2>3, <2>4, <2>5, Zenon DEF Hit, Miss, Load, LoadFails, Store, Done, locals, CacheInv, Clocks
<1>6. EntryOK'
  <2>1. CASE entry' = entry
    BY <1>1, <1>2, <2>1, Zenon DEF CacheInv, EntryOK
  <2>2. CASE Store(e)
    <3>1. /\ pc[e] = "store" /\ entry' = Entry(e) /\ Loading(e)
      BY <2>2, Zenon DEF Store, CacheInv
    <3>2. Entry(e).answer = got[e] /\ Entry(e).expires = began[e] + TTL
      BY Zenon DEF Entry
    <3>3. /\ began[e] <= now /\ got[e] \in Catalogs /\ HeldSince(Catalog, ended, got[e], began[e])
      BY <3>1, Zenon DEF Loading
    <3>4. began[e] + TTL \in Int /\ (began[e] + TTL) - TTL = began[e]
      BY <1>3
    <3> QED
      BY <1>1, <1>2, <3>1, <3>2, <3>3, <3>4, Zenon DEF EntryOK
  <2> QED
    BY <2>1, <2>2, Zenon DEF Hit, Miss, Load, LoadFails
<1> QED
  BY <1>4, <1>5, <1>6, Zenon DEF CacheInv

\* Time passes while no load has lasted MaxLoad.
LEMMA CacheTick ==
  ASSUME CacheInv, Tick, definitions' = definitions, reader' = reader
  PROVE  CacheInv'
<1>1. /\ now' = now + 1 /\ ended' = ended /\ entry' = entry /\ pc' = pc /\ began' = began /\ got' = got
      /\ served' = NoAnswer /\ \A e \in Exports : pc[e] # "idle" => now - began[e] < MaxLoad
  BY Zenon DEF Tick, Silent, locals
<1>2. Catalog' = Catalog
  BY CatalogSame, Zenon
<1>3. now \in Nat /\ began \in [Exports -> Nat] /\ TTL \in Nat \ {0} /\ MaxLoad \in Nat
  BY CacheAssumption, Zenon DEF CacheInv, Clocks
<1>4. Clocks'
  BY <1>1, <1>3 DEF CacheInv, Clocks
<1>5. ASSUME NEW e \in Exports PROVE Loading(e)'
  <2>1. Loading(e)
    BY Zenon DEF CacheInv
  <2>2. pc[e] # "idle" => began[e] <= now + 1 /\ now + 1 - began[e] <= MaxLoad
    BY <1>1, <1>3, <2>1 DEF Loading
  <2>3. pc'[e] = "store" => got'[e] \in Catalogs /\ HeldSince(Catalog', ended', got'[e], began'[e])
    BY <1>1, <1>2, <2>1, Zenon DEF Loading
  <2>4. pc'[e] # "idle" => began'[e] <= now' /\ now' - began'[e] <= MaxLoad
    <3>1. now' = now + 1 /\ began'[e] = began[e] /\ pc'[e] = pc[e]
      BY <1>1, Zenon
    <3> QED
      BY <1>3, <2>2, <3>1
  <2> QED
    BY <2>3, <2>4, Zenon DEF Loading
<1>6. EntryOK'
  BY <1>1, <1>2, <1>3 DEF CacheInv, EntryOK
<1> QED
  BY <1>4, <1>5, <1>6, Zenon DEF CacheInv

\* Every step of the catalogs and of a reader.
LEMMA CacheStep ==
  ASSUME CacheInv, CatalogInv, AppliedInv, [CatalogsNext]_allVars
  PROVE  CacheInv'
<1>1. CASE reader = "dashboard" /\ Next /\ NoteEnd /\ UNCHANGED <<cacheVars, served, reader>>
  BY <1>1, NotedKeeps, Zenon
<1>2. CASE reader = "ingest" /\ CacheNext /\ UNCHANGED <<cardVars, reader>>
  <2>1. CASE Apply
    BY <1>2, <2>1, NotedKeeps, Zenon DEF Apply, Silent
  <2>2. ASSUME NEW e \in Exports, Hit(e) \/ Miss(e) \/ Load(e) \/ LoadFails(e) \/ Store(e), UNCHANGED defVars
        PROVE  CacheInv'
    BY <1>2, <2>2, ExportKeeps, CatalogType, Zenon DEF defVars
  <2>3. CASE Tick /\ UNCHANGED defVars
    BY <1>2, <2>3, CacheTick, Zenon DEF defVars
  <2> QED
    BY <1>2, <2>1, <2>2, <2>3, Zenon DEF CacheNext
<1>3. CASE UNCHANGED allVars
  <2>1. UNCHANGED cacheVars /\ reader' = reader /\ served' = served /\ ended' = ended /\ definitions' = definitions
    BY <1>3, Zenon DEF allVars, vars, defVars
  <2>2. NoteEnd
    BY <2>1, CatalogSame, Zenon DEF NoteEnd
  <2> QED
    BY <2>1, <2>2, NotedKeeps, Zenon
<1> QED
  BY <1>1, <1>2, <1>3, Zenon DEF CatalogsNext

\* Every step of the composition is one of the catalogs with the dashboard.
LEMMA CatalogsIsNext == [CatalogsNext]_allVars => [Next]_vars
<1>1. ASSUME CatalogsNext PROVE [Next]_vars
  BY <1>1, Zenon DEF CatalogsNext, CacheNext, Apply, Next, vars
<1>2. ASSUME UNCHANGED allVars PROVE UNCHANGED vars
  BY <1>2, Zenon DEF allVars
<1> QED
  BY <1>1, <1>2, Zenon

\* The history of the abstract cache is noted as here.
LEMMA RefineChange ==
  ASSUME NoteEnd, Catalog' \in Catalogs, served' = NoAnswer, now' = now
  PROVE  Freshness!Next
<1> DEFINE new == [k \in {"catalog"} |-> Catalog']
           en == [k \in {"catalog"} |-> ended']
<1>1. en = [k \in {"catalog"} |->
              IF [j \in {"catalog"} |-> Catalog'][k] = [j \in {"catalog"} |-> Catalog][k]
                THEN [j \in {"catalog"} |-> ended][k]
                ELSE Freshness!Noted([j \in {"catalog"} |-> ended][k], [j \in {"catalog"} |-> Catalog][k], now)]
  <2>1. ended' = IF Catalog' = Catalog THEN ended ELSE Freshness!Noted(ended, Catalog, now)
    BY Zenon DEF NoteEnd, Freshness!Noted
  <2> QED
    BY <2>1, Zenon
<1>2. new \in [{"catalog"} -> Catalogs]
  OBVIOUS
<1>3. Freshness!Change
  BY <1>1, <1>2, Zenon DEF Freshness!Change, Freshness!NoAnswer, NoAnswer
<1> QED
  BY <1>3, Zenon DEF Freshness!Next

\* An answer that was the catalog less than Staleness ago is a Serve.
LEMMA RefineServe ==
  ASSUME now \in Nat, \A b \in DOMAIN ended : ended[b] \in Nat,
         NEW c \in Catalogs, NEW t \in Int, HeldSince(Catalog, ended, c, t), now - t < Staleness,
         served' = [key |-> "catalog", answer |-> c], Catalog' = Catalog, ended' = ended, now' = now
  PROVE  Freshness!Next
<1>1. Staleness \in Int
  BY CacheAssumption DEF Staleness
<1>2. Catalog = c \/ (c \in DOMAIN ended /\ now - ended[c] < Staleness)
  BY <1>1 DEF HeldSince
<1>3. Freshness!HeldWithin("catalog", c, Staleness)
  BY <1>2, Zenon DEF Freshness!HeldWithin
<1>4. [k \in {"catalog"} |-> [b \in Catalogs |-> Staleness]]["catalog"][c] = Staleness
  OBVIOUS
<1>5. Freshness!Serve("catalog", c)
  BY <1>3, <1>4, Zenon DEF Freshness!Serve
<1> QED
  BY <1>5, Zenon DEF Freshness!Next

\* Every step is a step of BoundedStaleness, or a stutter.
LEMMA RefineNext ==
  ASSUME CacheInv, CatalogInv, CatalogInv', AppliedInv, AppliedInv', [CatalogsNext]_allVars
  PROVE  [Freshness!Next]_(Freshness!vars)
<1>1. Catalog' \in Catalogs
  <2>1. (CatalogInv /\ AppliedInv => Catalog \in Catalogs)'
    BY CatalogType, PTL
  <2>2. Catalog' \in Catalogs'
    BY <2>1, Zenon
  <2> QED
    BY <2>2, Zenon DEF Catalogs, NoRows
<1>2. now \in Nat /\ \A b \in DOMAIN ended : ended[b] \in Nat
  BY Zenon DEF CacheInv, Clocks
<1>3. CASE reader = "dashboard" /\ Next /\ NoteEnd /\ UNCHANGED <<cacheVars, served, reader>>
  <2>1. served' = NoAnswer /\ now' = now
    BY <1>3, Zenon DEF CacheInv, Clocks, cacheVars
  <2> QED
    BY <1>1, <1>3, <2>1, RefineChange, Zenon
<1>4. CASE reader = "ingest" /\ CacheNext
  <2>1. CASE Apply
    BY <1>1, <2>1, RefineChange, Zenon DEF Apply, Silent, cacheVars
  <2>2. CASE definitions' = definitions /\ Tick
    <3>1. Catalog' = Catalog
      BY <2>2, CatalogSame, Zenon
    <3>2. Freshness!Tick
      BY <2>2, <3>1, Zenon DEF Tick, Silent, NoAnswer, Freshness!Tick, Freshness!NoAnswer
    <3> QED
      BY <3>2, Zenon DEF Freshness!Next
  <2>3. ASSUME definitions' = definitions, NEW e \in Exports, Miss(e) \/ Load(e) \/ LoadFails(e)
        PROVE  Freshness!Next
    <3>1. Catalog' = Catalog
      BY <2>3, CatalogSame, Zenon
    <3>2. Freshness!Silent
      BY <2>3, <3>1, Zenon DEF Miss, Load, LoadFails, Silent, NoAnswer, Freshness!Silent, Freshness!NoAnswer
    <3> QED
      BY <3>2, Zenon DEF Freshness!Next
  <2>4. TTL \in Nat \ {0} /\ MaxLoad \in Nat /\ Staleness \in Nat /\ TTL <= Staleness /\ MaxLoad < Staleness
    BY CacheAssumption DEF Staleness
  <2>5. ASSUME definitions' = definitions, NEW e \in Exports, Hit(e)
        PROVE  Freshness!Next
    <3>1. Catalog' = Catalog
      BY <2>5, CatalogSame, Zenon
    <3>2. /\ entry # None /\ now < entry.expires /\ served' = [key |-> "catalog", answer |-> entry.answer]
          /\ ended' = ended /\ now' = now
      BY <2>5, Zenon DEF Hit, Fresh
    <3>3. /\ entry.expires \in Int /\ entry.answer \in Catalogs
          /\ HeldSince(Catalog, ended, entry.answer, entry.expires - TTL)
      BY <3>2, Zenon DEF CacheInv, EntryOK
    <3>4. entry.expires - TTL \in Int /\ now - (entry.expires - TTL) < Staleness
      BY <1>2, <2>4, <3>2, <3>3
    <3> QED
      BY <1>2, <3>1, <3>2, <3>3, <3>4, RefineServe, Zenon
  <2>6. ASSUME definitions' = definitions, NEW e \in Exports, Store(e)
        PROVE  Freshness!Next
    <3>1. Catalog' = Catalog
      BY <2>6, CatalogSame, Zenon
    <3>2. /\ pc[e] = "store" /\ served' = [key |-> "catalog", answer |-> got[e]]
          /\ ended' = ended /\ now' = now
      BY <2>6, Zenon DEF Store
    <3>3. /\ began[e] \in Nat /\ now - began[e] <= MaxLoad /\ got[e] \in Catalogs
          /\ HeldSince(Catalog, ended, got[e], began[e])
      BY <3>2, Zenon DEF CacheInv, Loading, Clocks
    <3>4. began[e] \in Int /\ now - began[e] < Staleness
      BY <1>2, <2>4, <3>3
    <3> QED
      BY <1>2, <3>1, <3>2, <3>3, <3>4, RefineServe, Zenon
  <2>7. Apply \/ definitions' = definitions
    BY <1>4, Zenon DEF CacheNext, defVars
  <2> QED
    BY <1>4, <2>1, <2>2, <2>3, <2>5, <2>6, <2>7, Zenon DEF CacheNext
<1>5. CASE UNCHANGED allVars
  <2>1. definitions' = definitions /\ UNCHANGED <<ended, now, served>>
    BY <1>5, Zenon DEF allVars, vars, defVars, cacheVars
  <2>2. Catalog' = Catalog
    BY <2>1, CatalogSame, Zenon
  <2> QED
    BY <2>1, <2>2, Zenon DEF Freshness!vars
<1> QED
  BY <1>3, <1>4, <1>5, Zenon DEF CatalogsNext

\* With the dashboard's saves or the exports of an ingest process beside the
\* applies: an export is judged by a catalog that was in force less than the TTL
\* of the cache ago, or while its own load lasted (catalogCache.rules).
THEOREM CatalogCacheBoundedStaleness == CatalogsSpec => RefinesBoundedStaleness
<1> DEFINE Inv == CatalogInv /\ AppliedInv /\ CacheInv
<1>1. CatalogsInit => Inv
  <2> SUFFICES ASSUME CatalogsInit PROVE Inv
    OBVIOUS
  <2>1. CatalogInv
    BY CatalogInitial, Zenon DEF CatalogsInit, Init
  <2>2. AppliedInv
    BY Zenon DEF AppliedInv, CatalogsInit, Init, DefInit
  <2>3. CacheInv
    BY Zenon DEF CatalogsInit, CacheInit, CacheInv, Clocks, Loading, EntryOK
  <2> QED
    BY <2>1, <2>2, <2>3, Zenon
<1>2. Inv /\ [CatalogsNext]_allVars => Inv'
  BY CatalogStep, NextIsDefStep, CatalogsIsNext, AppliedStep, CacheStep, Zenon
<1>3. CatalogsInit => Freshness!Init
  <2> SUFFICES ASSUME CatalogsInit PROVE Freshness!Init
    OBVIOUS
  <2>1. Catalog \in Catalogs
    BY <1>1, CatalogType, Zenon
  <2> QED
    BY <2>1, Zenon DEF CatalogsInit, CacheInit, NoAnswer, Freshness!Init, Freshness!NoAnswer
<1>4. Inv /\ Inv' /\ [CatalogsNext]_allVars => [Freshness!Next]_(Freshness!vars)
  BY RefineNext, Zenon
<1> HIDE DEF Inv
<1> QED
  BY <1>1, <1>2, <1>3, <1>4, PTL DEF CatalogsSpec, RefinesBoundedStaleness, Freshness!Spec
=============================================================================
