--------------------------- MODULE InstallsProofs ---------------------------
(***************************************************************************)
(* Install tracking, for any number of concurrent exports, a backfill and  *)
(* a sweep: the stable order of its row locks rules a deadlock out, and    *)
(* the backfill leaves out nothing it read.                                *)
(***************************************************************************)
EXTENDS Installs, FiniteSetTheorems, TLAPS

\* A tracker's transaction is open.
Open(p) == step[p] \in {"select", "upsert", "commit"}

\* Types, as far as the locks and the events go.
TrackOK ==
  /\ logs \in SUBSET Records /\ IsFiniteSet(logs)
  /\ DOMAIN folded = DOMAIN installs
  /\ step \in [Trackers -> {"idle", "select", "upsert", "commit", "query", "discover"}]
  /\ todo \in [Trackers -> SUBSET InstallIds]
  /\ batch \in [Trackers -> Seq(Records)]
  /\ DOMAIN rows = Trackers
  /\ rowLock \in [InstallIds -> Trackers \cup {Sweeper, None}]
  /\ \A p \in Trackers : step[p] \in {"select", "upsert"} => todo[p] # {}

\* What a tracker holds is below what it has still to lock: the stable order.
OrderOK(p, k) == \/ \A j \in todo[p] : k < j
                 \/ step[p] = "upsert" /\ k = Key(p)
LocksOrdered == \A k \in InstallIds, p \in Trackers :
  rowLock[k] = p => Open(p) /\ OrderOK(p, k)

\* The rows an open transaction has written and has still to write are those of
\* its events; at its commit all are written.
RowsOK(p) == /\ Open(p) => Ids(Tracked(batch[p])) \subseteq DOMAIN rows[p] \cup todo[p]
             /\ step[p] = "commit" => todo[p] = {}
RowsWritten == \A p \in Trackers : RowsOK(p)

\* The chunks still to come hold install events only, and none is empty.
EventSeqs == {c \in Seq(Records) : c # <<>> /\ \A i \in DOMAIN c : IsInstallEvent(c[i])}
ChunksOK == /\ chunks \in Seq(EventSeqs)
            /\ chunks # <<>> => Open(Backfill)

\* The events that count in a row, or went with one.
Covered == dropped \cup UNION Range(folded)

\* The events in the chunks still to come.
Ahead == UNION {Range(chunks[i]) : i \in DOMAIN chunks}

\* An event the backfill read is covered, or in its transaction, or ahead.
Replaying == step[Backfill] \in {"select", "upsert", "commit", "query", "discover"} =>
  snapshot \subseteq Covered \cup (IF Open(Backfill) THEN Tracked(batch[Backfill]) ELSE {}) \cup Ahead

\* The inductive invariant of install tracking.
InstallsInv == TrackOK /\ LocksOrdered /\ RowsWritten /\ ChunksOK /\ Replaying

-----------------------------------------------------------------------------
(* Facts about numbers, sets and sequences.                                *)

\* A set of naturals has a least element.
LEMMA LeastOf ==
  ASSUME NEW S \in SUBSET Nat, S # {}
  PROVE  Min(S) \in S /\ \A y \in S : Min(S) <= y
<1>1. PICK x \in S : \A y \in S : ~ (<<y, x>> \in OpToRel(<, Nat))
  BY WFMin, NatLessThanWellFounded, Zenon
<1>2. \A y \in S : ~ (y < x)
  BY <1>1, Zenon DEF OpToRel
<1>3. \E z \in S : \A y \in S : z <= y
  BY <1>2
<1> QED  BY <1>3, Zenon DEF Min

\* The key a tracker locks next is the least it has still to lock.
LEMMA KeyIsLeast ==
  ASSUME TrackOK, NEW p \in Trackers, todo[p] # {}
  PROVE  Key(p) \in todo[p] /\ Key(p) \in InstallIds /\ Key(p) \in Nat /\ \A j \in todo[p] : Key(p) <= j
<1>1. todo[p] \in SUBSET Nat /\ todo[p] \subseteq InstallIds
  BY RecordsAssumption, Zenon DEF TrackOK
<1>2. Min(todo[p]) \in todo[p] /\ \A j \in todo[p] : Min(todo[p]) <= j
  BY <1>1, LeastOf, Zenon
<1> QED  BY <1>1, <1>2, Zenon DEF Key

\* Among finitely many numbered things one has the greatest number.
LEMMA GreatestOf ==
  ASSUME NEW P, IsFiniteSet(P), P # {}, NEW f, \A p \in P : f[p] \in Nat
  PROVE  \E p \in P : \A q \in P : f[q] <= f[p]
<1> DEFINE Above(p) == {q \in P : f[q] > f[p]}
           T == {Above(p) : p \in P}
<1>1. FiniteSubsetsOf(P) = SUBSET P
  BY FS_FiniteSubsetsOfFinite, Zenon
<1>2. IsWellFoundedOn(StrictSubsetOrdering(P), SUBSET P)
  BY <1>1, FS_StrictSubsetOrderingWellFounded, Zenon
<1>3. T \in SUBSET (SUBSET P) /\ T # {}
  BY Zenon
<1>4. PICK x \in T : \A y \in T : ~ (<<y, x>> \in StrictSubsetOrdering(P))
  BY <1>2, <1>3, WFMin, Zenon
<1>5. PICK p \in P : x = Above(p)
  BY <1>4, Zenon
<1>6. ASSUME NEW q \in Above(p) PROVE FALSE
  <2>1. q \in P /\ f[q] > f[p] /\ f[p] \in Nat /\ f[q] \in Nat
    BY <1>5, <1>6, Zenon
  <2>2. Above(q) \subseteq Above(p) /\ q \notin Above(q) /\ Above(q) \in T
    BY <2>1
  <2>3. <<Above(q), Above(p)>> \in StrictSubsetOrdering(P)
    BY <1>6, <2>2, Zenon DEF StrictSubsetOrdering
  <2> QED  BY <1>4, <1>5, <2>2, <2>3, Zenon
<1>7. \A q \in P : ~ (f[q] > f[p])
  BY <1>6, Zenon
<1>8. \A q \in P : f[q] <= f[p]
  BY <1>5, <1>7
<1> QED  BY <1>5, <1>8, Zenon

\* Finitely many things can be put in a sequence.
LEMMA SetAsSeq ==
  ASSUME NEW S, IsFiniteSet(S)
  PROVE  (CHOOSE s \in Orders(S) : TRUE) \in Seq(S)
<1> DEFINE c == CHOOSE s \in Orders(S) : TRUE
<1>1. Cardinality(S) \in Nat /\ Orders(S) # {}
  BY FS_CardinalityType, Zenon DEF ExistsBijection, Orders
<1>2. c \in Orders(S)
  BY <1>1, Zenon
<1> HIDE DEF c
<1>3. c \in [1..Cardinality(S) -> S]
  BY <1>2, Zenon DEF Orders, Bijection, Injection
<1>4. c \in Seq(S)
  BY <1>1, <1>3
<1> QED  BY <1>4, Zenon DEF c

\* The records of a batch are records, and finitely many.
LEMMA BatchRecords ==
  ASSUME NEW s \in EventBatches
  PROVE  s \in Seq(Records) /\ Range(s) \subseteq Records /\ IsFiniteSet(Range(s))
<1>1. s \in Seq(Range(s)) /\ Range(s) \subseteq Records
  BY RecordsAssumption, Zenon DEF Records
<1>2. PICK n \in Nat : s \in [1..n -> Range(s)]
  BY <1>1
<1>3. s \in [1..n -> Records]
  BY <1>1, <1>2, Zenon
<1>4. s \in Seq(Records)
  BY <1>3
<1>5. IsFiniteSet(1..n)
  BY FS_Interval
<1>6. s \in Surjection(1..n, Range(s))
  BY <1>2, Zenon DEF Surjection, Range
<1> QED  BY <1>1, <1>4, <1>5, <1>6, FS_Surjection, Zenon

\* The elements of a sequence are of the set it is over.
LEMMA SeqElements ==
  ASSUME NEW S, NEW s \in Seq(S)
  PROVE  Range(s) \subseteq S
  BY DEF Range

\* A function on the first n positions is a sequence.
LEMMA FunctionAsSeq ==
  ASSUME NEW T, NEW n \in Nat, NEW c \in [1..n -> T]
  PROVE  c \in Seq(T)
  OBVIOUS

\* A sequence over a set is one over a larger set.
LEMMA SeqGrows ==
  ASSUME NEW S, NEW T, S \subseteq T, NEW s \in Seq(S)
  PROVE  s \in Seq(T)
<1>1. PICK n \in Nat : s \in [1..n -> S]
  OBVIOUS
<1>2. s \in [1..n -> T]
  BY <1>1, Zenon
<1> QED  BY <1>2

\* A sequence of members of T is one over T.
LEMMA SeqOver ==
  ASSUME NEW S, NEW T, NEW s \in Seq(S), \A i \in DOMAIN s : s[i] \in T
  PROVE  s \in Seq(T)
<1>1. PICK n \in Nat : s \in [1..n -> S]
  OBVIOUS
<1>2. s \in [1..n -> T]
  BY <1>1, Zenon
<1> QED  BY <1>2

\* A sequence without a first place is empty.
LEMMA NoPlaces ==
  ASSUME NEW S, NEW s \in Seq(S), \A j \in DOMAIN s : j + 1 = 1
  PROVE  s = <<>>
<1>1. Len(s) \in Nat /\ DOMAIN s = 1..Len(s)
  OBVIOUS
<1>2. Len(s) # 0 => 1 \in DOMAIN s
  BY <1>1
<1>3. Len(s) = 0
  BY <1>1, <1>2
<1> QED  BY <1>3

\* Install events carry an id.
LEMMA EventIds ==
  ASSUME NEW s \in Seq(Records)
  PROVE  Tracked(s) \subseteq Records /\ Ids(Tracked(s)) \subseteq InstallIds
<1>1. Range(s) \subseteq Records
  BY SeqElements, Zenon
<1>2. ASSUME NEW e \in Tracked(s) PROVE e \in Records /\ e.install \in InstallIds
  BY <1>1, <1>2, RecordsAssumption, Zenon DEF Tracked, IsInstallEvent
<1> QED  BY <1>2, Zenon DEF Ids

\* The lesser and the greater of two numbers.
LEMMA OfTwo ==
  ASSUME NEW a \in Int, NEW b \in Int
  PROVE  /\ Min({a, b}) = IF a <= b THEN a ELSE b
         /\ Max({a, b}) = IF a <= b THEN b ELSE a
<1> DEFINE m == IF a <= b THEN a ELSE b
           n == IF a <= b THEN b ELSE a
<1>1. /\ m \in {a, b} /\ \A y \in {a, b} : m <= y
      /\ \A x \in {a, b} : (\A y \in {a, b} : x <= y) => x = m
  OBVIOUS
<1>2. /\ n \in {a, b} /\ \A y \in {a, b} : n >= y
      /\ \A x \in {a, b} : (\A y \in {a, b} : x >= y) => x = n
  OBVIOUS
<1> HIDE DEF m, n
<1>3. Min({a, b}) = m
  BY <1>1, Zenon DEF Min
<1>4. Max({a, b}) = n
  BY <1>2, Zenon DEF Max
<1> QED  BY <1>3, <1>4, Zenon DEF m, n

\* Integer division, from below and from above.
LEMMA Quotient ==
  ASSUME NEW a \in Nat, NEW b \in Nat \ {0}
  PROVE  /\ a \div b \in Nat
         /\ (a \div b) * b <= a /\ a < (a \div b + 1) * b
         /\ \A q \in Nat : q * b <= a => q <= a \div b
<1>1. a \div b \in Nat
  OBVIOUS
<1>2. (a \div b) * b <= a
  OBVIOUS
<1>3. a < (a \div b + 1) * b
  OBVIOUS
<1>4. ASSUME NEW q \in Nat, q * b <= a PROVE q <= a \div b
  BY <1>4
<1> QED  BY <1>1, <1>2, <1>3, <1>4, Zenon

\* The number of chunks, and where chunk i starts.
LEMMA ChunkStarts ==
  ASSUME NEW L \in Nat \ {0}, NEW C \in Nat \ {0}, NEW i \in Nat \ {0}
  PROVE  LET n == (L + C - 1) \div C
         IN  /\ n \in Nat \ {0}
             /\ i <= n => (i - 1) * C + 1 <= L
             /\ (i - 1) * C + 1 <= L => i <= n
<1> DEFINE n == (L + C - 1) \div C
<1>1. L + C - 1 \in Nat
  OBVIOUS
<1>2. /\ n \in Nat /\ n * C <= L + C - 1
      /\ \A q \in Nat : q * C <= L + C - 1 => q <= n
  BY <1>1, Quotient, Zenon
<1> HIDE DEF n
<1>3. 1 * C <= L + C - 1 /\ 1 \in Nat
  OBVIOUS
<1>4. 1 <= n
  BY <1>2, <1>3, Zenon
<1>5. i * C = (i - 1) * C + C /\ (i - 1) * C \in Nat /\ i * C \in Nat
  OBVIOUS
<1>6. ASSUME (i - 1) * C + 1 <= L PROVE i <= n
  <2>1. i * C <= L + C - 1
    BY <1>5, <1>6
  <2> QED  BY <1>2, <2>1, Zenon
<1>7. ASSUME i <= n PROVE (i - 1) * C + 1 <= L
  <2>1. i * C <= n * C
    BY <1>2, <1>7
  <2>2. n * C \in Nat
    BY <1>2
  <2> QED  BY <1>2, <1>5, <2>1, <2>2
<1> QED  BY <1>2, <1>4, <1>6, <1>7 DEF n

\* Position j falls in chunk i.
LEMMA ChunkOf ==
  ASSUME NEW L \in Nat \ {0}, NEW C \in Nat \ {0}, NEW j \in 1..L
  PROVE  \E i \in Nat \ {0} : (i - 1) * C + 1 <= j /\ j <= i * C
<1> DEFINE q == (j - 1) \div C
<1>1. j - 1 \in Nat
  OBVIOUS
<1>2. q \in Nat /\ q * C <= j - 1 /\ j - 1 < (q + 1) * C
  BY <1>1, Quotient, Zenon
<1> HIDE DEF q
<1>3. q + 1 \in Nat \ {0} /\ (q + 1) - 1 = q /\ q * C \in Nat /\ (q + 1) * C \in Nat
  BY <1>2
<1>4. ((q + 1) - 1) * C + 1 <= j /\ j <= (q + 1) * C
  BY <1>2, <1>3
<1> QED  BY <1>3, <1>4, Zenon

\* A sequence is its head and its tail.
LEMMA HeadAndTail ==
  ASSUME NEW S, NEW c \in Seq(S), c # <<>>
  PROVE  /\ Head(c) = c[1] /\ Head(c) \in S /\ 1 \in DOMAIN c /\ Tail(c) \in Seq(S)
         /\ \A j \in DOMAIN Tail(c) : j + 1 \in DOMAIN c /\ Tail(c)[j] = c[j + 1]
         /\ \A i \in DOMAIN c : c[i] = Head(c) \/ \E j \in DOMAIN Tail(c) : Tail(c)[j] = c[i]
<1>1. Head(c) = c[1] /\ Head(c) \in S /\ 1 \in DOMAIN c
  OBVIOUS
<1>2. /\ Tail(c) \in Seq(S) /\ Len(Tail(c)) = Len(c) - 1
      /\ \A i \in 1 .. Len(Tail(c)) : Tail(c)[i] = c[i + 1]
  OBVIOUS
<1>3. DOMAIN Tail(c) = 1 .. Len(Tail(c)) /\ DOMAIN c = 1 .. Len(c) /\ Len(c) \in Nat
  BY <1>2
<1>4. \A j \in DOMAIN Tail(c) : j + 1 \in DOMAIN c /\ Tail(c)[j] = c[j + 1]
  BY <1>2, <1>3
<1>5. ASSUME NEW i \in DOMAIN c, i # 1 PROVE \E j \in DOMAIN Tail(c) : Tail(c)[j] = c[i]
  <2>1. i - 1 \in DOMAIN Tail(c) /\ (i - 1) + 1 = i
    BY <1>2, <1>3, <1>5
  <2>2. Tail(c)[i - 1] = c[(i - 1) + 1]
    BY <1>4, <2>1, Zenon
  <2> QED  BY <2>1, <2>2, Zenon
<1> QED  BY <1>1, <1>2, <1>4, <1>5, Zenon

\* A piece of s, from position m to position n.
LEMMA PieceFacts ==
  ASSUME NEW S, NEW s, NEW m \in Int, NEW n \in Int, \A k \in m..n : s[k] \in S
  PROVE  /\ SubSeq(s, m, n) \in Seq(S)
         /\ m <= n => SubSeq(s, m, n) # <<>>
         /\ \A j \in m..n : s[j] \in Range(SubSeq(s, m, n))
<1> DEFINE c == SubSeq(s, m, n)
<1>1. c \in Seq(S)
  OBVIOUS
<1>2. Len(c) = IF m <= n THEN n - m + 1 ELSE 0
  OBVIOUS
<1>3. \A i \in 1 .. n-m+1 : c[i] = s[m+i-1]
  OBVIOUS
<1> HIDE DEF c
<1>4. m <= n => c # <<>>
  BY <1>1, <1>2
<1>5. ASSUME NEW j \in m..n PROVE s[j] \in Range(c)
  <2>1. j - m + 1 \in 1 .. n-m+1 /\ m+(j - m + 1)-1 = j /\ m <= n
    BY <1>5
  <2>2. c[j - m + 1] = s[j]
    BY <1>3, <2>1
  <2>3. DOMAIN c = 1 .. n-m+1
    BY <1>1, <1>2, <2>1
  <2> QED  BY <2>1, <2>2, <2>3, Zenon DEF Range
<1> QED  BY <1>1, <1>4, <1>5, Zenon DEF c

\* The lesser of two naturals is the greatest number below both.
LEMMA LesserBounds ==
  ASSUME NEW a \in Nat, NEW b \in Nat
  PROVE  /\ Min({a, b}) \in Nat /\ Min({a, b}) <= b
         /\ \A j \in Nat : j <= a /\ j <= b => j <= Min({a, b})
<1>1. Min({a, b}) = IF a <= b THEN a ELSE b
  BY OfTwo
<1>2. CASE a <= b
  BY <1>1, <1>2
<1>3. CASE ~ (a <= b)
  BY <1>1, <1>3
<1> QED  BY <1>2, <1>3, Zenon

\* One chunk of s: a piece of it, empty only if s is.
LEMMA OneChunk ==
  ASSUME NEW S, NEW s \in Seq(S), NEW i \in 1..Max({1, (Len(s) + Chunk - 1) \div Chunk})
  PROVE  LET m == (i - 1) * Chunk + 1
             n == Min({i * Chunk, Len(s)})
             c == SubSeq(s, m, n)
         IN  /\ c \in Seq(S) /\ (s # <<>> => c # <<>>) /\ Range(c) \subseteq Range(s)
             /\ \A j \in DOMAIN s : m <= j /\ j <= i * Chunk => s[j] \in Range(c)
<1> DEFINE m == (i - 1) * Chunk + 1
           n == Min({i * Chunk, Len(s)})
           c == SubSeq(s, m, n)
           q == (Len(s) + Chunk - 1) \div Chunk
<1>1. Chunk \in Nat \ {0} /\ Len(s) \in Nat /\ DOMAIN s = 1..Len(s) /\ i \in Nat \ {0}
  <2>1. i \in Nat \ {0}
    OBVIOUS
  <2> QED  BY <2>1, ChunkAssumption
<1>2. m \in Nat \ {0} /\ i * Chunk \in Nat /\ m <= i * Chunk
  BY <1>1
<1>3. n \in Nat /\ n <= Len(s) /\ \A j \in Nat : j <= i * Chunk /\ j <= Len(s) => j <= n
  BY <1>1, <1>2, LesserBounds, Zenon
<1>4. s # <<>> => Len(s) \in Nat \ {0}
  OBVIOUS
<1>5. s # <<>> => i <= q /\ m <= Len(s)
  <2> SUFFICES ASSUME Len(s) \in Nat \ {0} PROVE i <= q /\ m <= Len(s)
    BY <1>4, Zenon
  <2>1. q \in Nat \ {0}
    BY <1>1, ChunkStarts, Zenon
  <2>2. q \in Int /\ 1 \in Int /\ 1 <= q
    BY <2>1
  <2>3. Max({1, q}) = q
    BY <2>2, OfTwo, Zenon
  <2>4. i \in 1..q
    BY <2>3, Zenon
  <2>5. i <= q
    BY <2>2, <2>4
  <2>6. i <= q => m <= Len(s)
    BY <1>1, ChunkStarts, Zenon
  <2> QED  BY <2>5, <2>6, Zenon
<1> HIDE DEF m, n
<1>6. \A k \in m..n : k \in 1..Len(s)
  BY <1>1, <1>2, <1>3
<1>7. (\A k \in m..n : s[k] \in S) /\ (\A k \in m..n : s[k] \in Range(s))
  BY <1>1, <1>6 DEF Range
<1>8. m \in Int /\ n \in Int
  BY <1>2, <1>3
<1>9. c \in Seq(S) /\ (m <= n => c # <<>>) /\ \A j \in m..n : s[j] \in Range(c)
  BY <1>7, <1>8, PieceFacts, Zenon
<1>10. Range(c) \subseteq Range(s)
  <2>1. c \in Seq(Range(s))
    BY <1>7, <1>8, PieceFacts, Zenon
  <2> QED  BY <2>1, SeqElements, Zenon
<1>11. ASSUME NEW j \in DOMAIN s, m <= j, j <= i * Chunk PROVE s[j] \in Range(c)
  <2>1. j \in Nat /\ j <= Len(s)
    BY <1>1
  <2>2. j <= n
    BY <1>3, <1>11, <2>1, Zenon
  <2>3. j \in m..n
    BY <1>8, <1>11, <2>1, <2>2
  <2> QED  BY <1>9, <2>3, Zenon
<1>12. s # <<>> => c # <<>>
  <2>1. m <= Len(s) => m <= n
    BY <1>2, <1>3, Zenon
  <2> QED  BY <1>5, <1>9, <2>1, Zenon
<1> QED  BY <1>9, <1>10, <1>11, <1>12, Zenon DEF m, n

\* The chunks of s hold all of s and nothing else; only one of them may be empty,
\* and only if s is.
LEMMA ChunkedFacts ==
  ASSUME NEW S, NEW s \in Seq(S)
  PROVE  LET c == Chunked(s)
         IN  /\ c \in Seq(Seq(S)) /\ c # <<>>
             /\ s = <<>> => DOMAIN c = {1}
             /\ s # <<>> => \A i \in DOMAIN c : c[i] # <<>>
             /\ \A i \in DOMAIN c : Range(c[i]) \subseteq Range(s)
             /\ \A j \in DOMAIN s : \E i \in DOMAIN c : s[j] \in Range(c[i])
<1> DEFINE q == (Len(s) + Chunk - 1) \div Chunk
           N == Max({1, q})
           Piece(i) == SubSeq(s, (i - 1) * Chunk + 1, Min({i * Chunk, Len(s)}))
           c == [i \in 1..N |-> Piece(i)]
<1>1. Chunk \in Nat \ {0} /\ Len(s) \in Nat /\ DOMAIN s = 1..Len(s)
  BY ChunkAssumption
<1>2. q \in Nat
  <2>1. Len(s) + Chunk - 1 \in Nat
    BY <1>1
  <2> QED  BY <1>1, <2>1, Quotient, Zenon
<1>3. N = (IF 1 <= q THEN q ELSE 1) /\ N \in Nat \ {0}
  <2> HIDE DEF q
  <2>1. 1 \in Int /\ q \in Int
    BY <1>2
  <2>2. N = IF 1 <= q THEN q ELSE 1
    BY <2>1, OfTwo, Zenon
  <2> QED  BY <1>2, <2>2
<1>4. Chunked(s) = c
  BY Zenon DEF Chunked
<1>5. \A i \in 1..N :
        /\ Piece(i) \in Seq(S) /\ (s # <<>> => Piece(i) # <<>>) /\ Range(Piece(i)) \subseteq Range(s)
        /\ \A j \in DOMAIN s : (i - 1) * Chunk + 1 <= j /\ j <= i * Chunk => s[j] \in Range(Piece(i))
  BY OneChunk, Zenon
<1>6. s = <<>> => N = 1
  <2>1. ASSUME s = <<>> PROVE q = 0
    <3>1. Len(s) = 0
      BY <2>1
    <3>2. q * Chunk <= Chunk - 1
      <4>1. Len(s) + Chunk - 1 = Chunk - 1 /\ Chunk - 1 \in Nat
        BY <1>1, <3>1
      <4> QED  BY <1>1, <4>1, Quotient, Zenon
    <3> HIDE DEF q
    <3> QED  BY <1>1, <1>2, <3>2
  <2> HIDE DEF q, N
  <2> QED  BY <1>3, <2>1
<1>7. ASSUME NEW j \in DOMAIN s PROVE \E i \in 1..N : s[j] \in Range(Piece(i))
  <2>1. Len(s) \in Nat \ {0} /\ j \in 1..Len(s)
    BY <1>1
  <2>2. PICK i \in Nat \ {0} : (i - 1) * Chunk + 1 <= j /\ j <= i * Chunk
    BY <1>1, <2>1, ChunkOf, Zenon
  <2>3. (i - 1) * Chunk + 1 <= Len(s)
    BY <1>1, <2>1, <2>2
  <2>4. i <= q
    BY <1>1, <2>1, <2>3, ChunkStarts, Zenon
  <2>5. i \in 1..N
    <3> HIDE DEF q, N
    <3> QED  BY <1>2, <1>3, <2>4
  <2> QED  BY <1>5, <2>2, <2>5, Zenon
<1> HIDE DEF N, Piece
<1>8. c \in [1..N -> Seq(S)]
  BY <1>5, Zenon
<1>9. DOMAIN c = 1..N /\ \A i \in 1..N : c[i] = Piece(i)
  BY Zenon
<1>10. c \in Seq(Seq(S))
  BY <1>3, <1>8, FunctionAsSeq, Zenon
<1>11. c # <<>>
  <2> HIDE DEF c
  <2> QED  BY <1>3, <1>9
<1>12. s = <<>> => DOMAIN c = {1}
  <2> HIDE DEF c
  <2> QED  BY <1>6, <1>9
<1> HIDE DEF c
<1>13. /\ s # <<>> => \A i \in DOMAIN c : c[i] # <<>>
       /\ \A i \in DOMAIN c : Range(c[i]) \subseteq Range(s)
  BY <1>5, <1>9, Zenon
<1>14. \A j \in DOMAIN s : \E i \in DOMAIN c : s[j] \in Range(c[i])
  BY <1>7, <1>9, Zenon
<1> QED  BY <1>4, <1>10, <1>11, <1>12, <1>13, <1>14, Zenon

\* A sequence of all of a finite set, each once, leaves none out.
LEMMA SequencesOfAll ==
  ASSUME NEW S, IsFiniteSet(S), NEW s \in Orders(S)
  PROVE  s \in Seq(S) /\ Range(s) = S
<1> DEFINE D == 1..Cardinality(S)
<1>1. Cardinality(S) \in Nat
  BY FS_CardinalityType, Zenon
<1>2. s \in Surjection(D, S)
  BY Zenon DEF Orders, Bijection
<1>3. s \in [D -> S]
  BY <1>2, Zenon DEF Surjection
<1>6. s \in Seq(S)
  BY <1>1, <1>3
<1>7. S \subseteq Range(s)
  BY <1>2, <1>3, Zenon DEF Surjection, Range
<1>8. Range(s) \subseteq S
  BY <1>6, SeqElements, Zenon
<1> QED  BY <1>6, <1>7, <1>8, Zenon

-----------------------------------------------------------------------------
(* The pieces a step is made of.                                           *)

Locals(p) == <<step[p], todo[p], batch[p], rows[p]>>

\* What another tracker does leaves this one's obligations as they are.
LEMMA LocalsKept ==
  ASSUME NEW v \in Trackers, UNCHANGED Locals(v)
  PROVE  /\ (Open(v)' <=> Open(v)) /\ (RowsOK(v)' <=> RowsOK(v))
         /\ \A k : OrderOK(v, k)' <=> OrderOK(v, k)
<1>1. step'[v] = step[v] /\ todo'[v] = todo[v] /\ batch'[v] = batch[v] /\ rows'[v] = rows[v]
  BY Zenon DEF Locals
<1>2. Open(v)' <=> Open(v)
  BY <1>1, Zenon DEF Open
<1> QED  BY <1>1, <1>2, Zenon DEF RowsOK, OrderOK, Key

\* A step of tracker p, which gives away no lock and takes none that another
\* tracker holds.
LEMMA OwnStep ==
  ASSUME LocksOrdered, RowsWritten, NEW p \in Trackers,
         \A v \in Trackers \ {p} : UNCHANGED Locals(v),
         \A k \in InstallIds : rowLock'[k] \in Trackers \ {p} => rowLock'[k] = rowLock[k],
         \A k \in InstallIds : rowLock'[k] = p => Open(p)' /\ OrderOK(p, k)',
         RowsOK(p)'
  PROVE  LocksOrdered' /\ RowsWritten'
<1>1. ASSUME NEW k \in InstallIds, NEW v \in Trackers, rowLock'[k] = v
      PROVE  Open(v)' /\ OrderOK(v, k)'
  <2>1. CASE v = p
    BY <1>1, <2>1, Zenon
  <2>2. CASE v # p
    <3>1. rowLock[k] = v
      BY <1>1, <2>2, Zenon
    <3>2. Open(v) /\ OrderOK(v, k)
      BY <1>1, <3>1, Zenon DEF LocksOrdered
    <3> QED  BY <2>2, <3>2, LocalsKept, Zenon
  <2> QED  BY <2>1, <2>2, Zenon
<1>2. ASSUME NEW v \in Trackers PROVE RowsOK(v)'
  BY LocalsKept, Zenon DEF RowsWritten
<1> QED  BY <1>1, <1>2, Zenon DEF LocksOrdered, RowsWritten

\* A step that leaves the trackers alone, and their locks.
LEMMA NoStep ==
  ASSUME LocksOrdered, RowsWritten, UNCHANGED <<step, todo, batch, rows>>,
         \A k \in InstallIds : rowLock'[k] \in Trackers => rowLock'[k] = rowLock[k]
  PROVE  LocksOrdered' /\ RowsWritten'
<1>1. \A v \in Trackers : UNCHANGED Locals(v)
  BY Zenon DEF Locals
<1>2. ASSUME NEW k \in InstallIds, NEW v \in Trackers, rowLock'[k] = v
      PROVE  Open(v)' /\ OrderOK(v, k)'
  BY <1>1, <1>2, LocalsKept, Zenon DEF LocksOrdered
<1>3. ASSUME NEW v \in Trackers PROVE RowsOK(v)'
  BY <1>1, LocalsKept, Zenon DEF RowsWritten
<1> QED  BY <1>2, <1>3, Zenon DEF LocksOrdered, RowsWritten

\* A step that takes the backfill neither on nor back, and uncovers nothing.
LEMMA BackfillKept ==
  ASSUME ChunksOK, Replaying, UNCHANGED <<chunks, snapshot>>,
         Open(Backfill)' <=> Open(Backfill), batch'[Backfill] = batch[Backfill],
         step'[Backfill] \in {"query", "discover"} => step[Backfill] \in {"query", "discover"},
         Covered \subseteq Covered'
  PROVE  ChunksOK' /\ Replaying'
<1>1. ChunksOK'
  BY Zenon DEF ChunksOK
<1>2. Ahead' = Ahead
  BY Zenon DEF Ahead
<1>3. CASE Open(Backfill)
  <2>1. snapshot \subseteq Covered \cup Tracked(batch[Backfill]) \cup Ahead
    BY <1>3, Zenon DEF Replaying, Open
  <2> QED  BY <1>1, <1>2, <1>3, <2>1, Zenon DEF Replaying
<1>4. CASE ~ Open(Backfill)
  <2>1. step[Backfill] \in {"query", "discover"} => snapshot \subseteq Covered \cup Ahead
    BY <1>4, Zenon DEF Replaying
  <2>2. step'[Backfill] \in {"query", "discover"} => snapshot \subseteq Covered' \cup Ahead
    BY <2>1, Zenon
  <2>3. ~ Open(Backfill)'
    BY <1>4, Zenon
  <2> QED  BY <1>1, <1>2, <2>2, <2>3, Zenon DEF Replaying, Open
<1> QED  BY <1>3, <1>4, Zenon

\* TrackInstalls begins on the records s.
LEMMA Begins ==
  ASSUME TrackOK, NEW p \in Trackers, NEW s \in Seq(Records),
         NEW o \in {"query", "discover"}, BeginTracking(p, s, o)
  PROVE  /\ step' \in [Trackers -> {"idle", "select", "upsert", "commit", "query", "discover"}]
         /\ todo' \in [Trackers -> SUBSET InstallIds] /\ batch' \in [Trackers -> Seq(Records)]
         /\ DOMAIN rows' = Trackers
         /\ \A v \in Trackers : step'[v] \in {"select", "upsert"} => todo'[v] # {}
         /\ step'[p] = (IF Tracked(s) = {} THEN o ELSE "select") /\ batch'[p] = s /\ RowsOK(p)'
         /\ \A v \in Trackers \ {p} : UNCHANGED Locals(v)
<1> DEFINE I == Ids(Tracked(s))
           at == IF Tracked(s) = {} THEN o ELSE "select"
<1>1. I \subseteq InstallIds /\ (Tracked(s) # {} => I # {})
  BY EventIds, Zenon DEF Ids
<1>2. at \in {"query", "discover", "select"} /\ (at = "select" => Tracked(s) # {})
  BY Zenon
<1> HIDE DEF I, at
<1>3. /\ step \in [Trackers -> {"idle", "select", "upsert", "commit", "query", "discover"}]
      /\ todo \in [Trackers -> SUBSET InstallIds] /\ batch \in [Trackers -> Seq(Records)]
      /\ DOMAIN rows = Trackers
      /\ \A v \in Trackers : step[v] \in {"select", "upsert"} => todo[v] # {}
  BY Zenon DEF TrackOK
<1>4. /\ step' = [step EXCEPT ![p] = at] /\ todo' = [todo EXCEPT ![p] = I]
      /\ batch' = [batch EXCEPT ![p] = s] /\ rows' = [rows EXCEPT ![p] = NoRows]
  BY Zenon DEF BeginTracking, I, at
<1>5. step'[p] = at /\ todo'[p] = I /\ batch'[p] = s
  BY <1>3, <1>4, Zenon
<1>6. \A v \in Trackers \ {p} :
        step'[v] = step[v] /\ todo'[v] = todo[v] /\ batch'[v] = batch[v] /\ rows'[v] = rows[v]
  BY <1>3, <1>4, Zenon
<1>7. step' \in [Trackers -> {"idle", "select", "upsert", "commit", "query", "discover"}]
  BY <1>2, <1>3, <1>4, Zenon
<1>8. todo' \in [Trackers -> SUBSET InstallIds]
  BY <1>1, <1>3, <1>4, Zenon
<1>9. batch' \in [Trackers -> Seq(Records)] /\ DOMAIN rows' = Trackers
  BY <1>3, <1>4, Zenon
<1>10. ASSUME NEW v \in Trackers, step'[v] \in {"select", "upsert"} PROVE todo'[v] # {}
  <2>1. CASE v = p
    BY <1>1, <1>2, <1>5, <1>10, <2>1, Zenon
  <2>2. CASE v # p
    BY <1>3, <1>6, <1>10, <2>2, Zenon
  <2> QED  BY <2>1, <2>2, Zenon
<1>11. RowsOK(p)'
  BY <1>2, <1>5, Zenon DEF RowsOK, I
<1>12. \A v \in Trackers \ {p} : UNCHANGED Locals(v)
  BY <1>6, Zenon DEF Locals
<1> QED  BY <1>5, <1>7, <1>8, <1>9, <1>10, <1>11, <1>12, Zenon DEF at

\* A transaction ends, or the tracking of a batch.
LEMMA Ends ==
  ASSUME TrackOK, NEW p \in Trackers, NEW next \in {"idle", "query", "discover"},
         EndTracking(p, next)
  PROVE  /\ step' \in [Trackers -> {"idle", "select", "upsert", "commit", "query", "discover"}]
         /\ todo' \in [Trackers -> SUBSET InstallIds] /\ batch' \in [Trackers -> Seq(Records)]
         /\ DOMAIN rows' = Trackers
         /\ \A v \in Trackers : step'[v] \in {"select", "upsert"} => todo'[v] # {}
         /\ step'[p] = next /\ RowsOK(p)' /\ ~ Open(p)'
         /\ \A v \in Trackers \ {p} : UNCHANGED Locals(v)
<1> DEFINE b == IF next = "discover" THEN batch[p] ELSE <<>>
<1>1. /\ step \in [Trackers -> {"idle", "select", "upsert", "commit", "query", "discover"}]
      /\ todo \in [Trackers -> SUBSET InstallIds] /\ batch \in [Trackers -> Seq(Records)]
      /\ DOMAIN rows = Trackers
      /\ \A v \in Trackers : step[v] \in {"select", "upsert"} => todo[v] # {}
  BY Zenon DEF TrackOK
<1>2. /\ step' = [step EXCEPT ![p] = next] /\ todo' = [todo EXCEPT ![p] = {}]
      /\ batch' = [batch EXCEPT ![p] = b] /\ rows' = [rows EXCEPT ![p] = NoRows]
  BY Zenon DEF EndTracking
<1>3. b \in Seq(Records)
  <2>1. <<>> \in Seq(Records)
    OBVIOUS
  <2> QED  BY <1>1, <2>1, Zenon
<1> HIDE DEF b
<1>4. \A v \in Trackers \ {p} :
        step'[v] = step[v] /\ todo'[v] = todo[v] /\ batch'[v] = batch[v] /\ rows'[v] = rows[v]
  BY <1>1, <1>2, Zenon
<1>5. step'[p] = next
  BY <1>1, <1>2, Zenon
<1>6. step' \in [Trackers -> {"idle", "select", "upsert", "commit", "query", "discover"}]
  BY <1>1, <1>2, Zenon
<1>7. todo' \in [Trackers -> SUBSET InstallIds]
  BY <1>1, <1>2, Zenon
<1>8. batch' \in [Trackers -> Seq(Records)] /\ DOMAIN rows' = Trackers
  BY <1>1, <1>2, <1>3, Zenon
<1>9. ASSUME NEW v \in Trackers, step'[v] \in {"select", "upsert"} PROVE todo'[v] # {}
  <2>1. CASE v = p
    BY <1>5, <1>9, <2>1, Zenon
  <2>2. CASE v # p
    BY <1>1, <1>4, <1>9, <2>2, Zenon
  <2> QED  BY <2>1, <2>2, Zenon
<1>10. RowsOK(p)' /\ ~ Open(p)'
  BY <1>5, Zenon DEF RowsOK, Open
<1>11. \A v \in Trackers \ {p} : UNCHANGED Locals(v)
  BY <1>4, Zenon DEF Locals
<1> QED  BY <1>5, <1>6, <1>7, <1>8, <1>9, <1>10, <1>11, Zenon

\* Locks p has released.
LEMMA Releases ==
  ASSUME TrackOK, NEW p \in Trackers \cup {Sweeper}, rowLock' = Released(p)
  PROVE  /\ rowLock' \in [InstallIds -> Trackers \cup {Sweeper, None}]
         /\ \A k \in InstallIds : rowLock'[k] # p /\ (rowLock'[k] # None => rowLock'[k] = rowLock[k])
<1>1. rowLock \in [InstallIds -> Trackers \cup {Sweeper, None}]
  BY Zenon DEF TrackOK
<1>2. p # None
  BY TrackersAssumption, Zenon
<1>3. \A k \in InstallIds : rowLock'[k] = IF rowLock[k] = p THEN None ELSE rowLock[k]
  BY Zenon DEF Released
<1>4. rowLock' \in [InstallIds -> Trackers \cup {Sweeper, None}]
  BY <1>1, Zenon DEF Released
<1> QED  BY <1>2, <1>3, <1>4, Zenon

-----------------------------------------------------------------------------
(* Each step keeps the invariant.                                          *)

\* It holds initially.
LEMMA InvInit == InstallsInit => InstallsInv
<1> SUFFICES ASSUME InstallsInit PROVE InstallsInv
  OBVIOUS
<1>1. TrackOK
  <2>1. <<>> \in Seq(Records)
    OBVIOUS
  <2>2. IsFiniteSet({})
    BY FS_EmptySet, Zenon
  <2> QED  BY <2>1, <2>2, Zenon DEF InstallsInit, TrackOK, NoRows
<1>2. LocksOrdered
  BY TrackersAssumption, Zenon DEF InstallsInit, LocksOrdered
<1>3. RowsWritten
  BY Zenon DEF InstallsInit, RowsWritten, RowsOK, Open
<1>4. ChunksOK
  <2>1. chunks = <<>>
    BY Zenon DEF InstallsInit
  <2> QED  BY <2>1 DEF ChunksOK
<1>5. step[Backfill] = "idle"
  BY Zenon DEF InstallsInit, Trackers
<1>6. Replaying
  BY <1>5, Zenon DEF Replaying
<1> QED  BY <1>1, <1>2, <1>3, <1>4, <1>6, Zenon DEF InstallsInv

\* A tracker whose transaction is not open holds no lock.
LEMMA NoLocks ==
  ASSUME LocksOrdered, NEW p \in Trackers, ~ Open(p), NEW k \in InstallIds
  PROVE  rowLock[k] # p
  BY Zenon DEF LocksOrdered

\* An export stores a batch and begins.
LEMMA StoreKeeps ==
  ASSUME InstallsInv, NEW x \in Exports, NEW s \in EventBatches, Store(x, s)
  PROVE  InstallsInv'
<1>1. TrackOK /\ LocksOrdered /\ RowsWritten /\ ChunksOK /\ Replaying
  BY Zenon DEF InstallsInv
<1>2. x \in Trackers /\ Backfill \in Trackers \ {x}
  BY TrackersAssumption, Zenon DEF Trackers
<1>3. s \in Seq(Records) /\ Range(s) \subseteq Records /\ IsFiniteSet(Range(s))
  BY BatchRecords, Zenon
<1>4. /\ step[x] = "idle" /\ BeginTracking(x, s, "discover") /\ logs' = logs \cup Range(s)
      /\ UNCHANGED <<installs, folded, rowLock, chunks, snapshot, dropped>>
  BY Zenon DEF Store
<1>5. /\ step' \in [Trackers -> {"idle", "select", "upsert", "commit", "query", "discover"}]
      /\ todo' \in [Trackers -> SUBSET InstallIds] /\ batch' \in [Trackers -> Seq(Records)]
      /\ DOMAIN rows' = Trackers
      /\ \A v \in Trackers : step'[v] \in {"select", "upsert"} => todo'[v] # {}
      /\ RowsOK(x)' /\ \A v \in Trackers \ {x} : UNCHANGED Locals(v)
  BY <1>1, <1>2, <1>3, <1>4, Begins, Zenon
<1>6. TrackOK'
  <2>1. logs' \in SUBSET Records /\ IsFiniteSet(logs')
    BY <1>1, <1>3, <1>4, FS_Union, Zenon DEF TrackOK
  <2> QED  BY <1>1, <1>4, <1>5, <2>1, Zenon DEF TrackOK
<1>7. \A k \in InstallIds : rowLock'[k] # x
  BY <1>1, <1>2, <1>4, NoLocks, Zenon DEF Open
<1>8. LocksOrdered' /\ RowsWritten'
  BY <1>1, <1>2, <1>4, <1>5, <1>7, OwnStep, Zenon
<1>9. ChunksOK' /\ Replaying'
  <2>1. Covered' = Covered
    BY <1>4, Zenon DEF Covered
  <2>2. UNCHANGED Locals(Backfill)
    BY <1>2, <1>5, Zenon
  <2>3. step'[Backfill] = step[Backfill] /\ batch'[Backfill] = batch[Backfill]
    BY <2>2, Zenon DEF Locals
  <2>4. Open(Backfill)' <=> Open(Backfill)
    BY <2>3, Zenon DEF Open
  <2> QED  BY <1>1, <1>4, <2>1, <2>3, <2>4, BackfillKept, Zenon
<1> QED  BY <1>6, <1>8, <1>9, Zenon DEF InstallsInv

\* A tracker selects, and locks, the row of its next install.
LEMMA SelectKeeps ==
  ASSUME InstallsInv, NEW p \in Trackers, Select(p)
  PROVE  InstallsInv'
<1>1. TrackOK /\ LocksOrdered /\ RowsWritten /\ ChunksOK /\ Replaying
  BY Zenon DEF InstallsInv
<1>2. /\ step[p] = "select" /\ step' = [step EXCEPT ![p] = "upsert"]
      /\ rowLock' = rowLock \/ (rowLock[Key(p)] = None /\ rowLock' = [rowLock EXCEPT ![Key(p)] = p])
      /\ UNCHANGED <<logs, installs, folded, todo, batch, rows, chunks, snapshot, dropped>>
  BY Zenon DEF Select, installTables, installHistory
<1>3. todo[p] # {} /\ Key(p) \in InstallIds
  BY <1>1, <1>2, KeyIsLeast, Zenon DEF TrackOK
<1>4. step'[p] = "upsert" /\ \A v \in Trackers \ {p} : step'[v] = step[v]
  BY <1>1, <1>2, Zenon DEF TrackOK
<1>5. TrackOK'
  <2>1. step' \in [Trackers -> {"idle", "select", "upsert", "commit", "query", "discover"}]
    BY <1>1, <1>2, Zenon DEF TrackOK
  <2>2. rowLock' \in [InstallIds -> Trackers \cup {Sweeper, None}]
    BY <1>1, <1>2, Zenon DEF TrackOK
  <2>3. \A v \in Trackers : step'[v] \in {"select", "upsert"} => todo'[v] # {}
    BY <1>1, <1>2, <1>3, <1>4, Zenon DEF TrackOK
  <2> QED  BY <1>1, <1>2, <2>1, <2>2, <2>3, Zenon DEF TrackOK
<1>6. \A k \in InstallIds : rowLock'[k] = rowLock[k] \/ (k = Key(p) /\ rowLock'[k] = p)
  BY <1>1, <1>2, Zenon DEF TrackOK
<1>7. ASSUME NEW k \in InstallIds, rowLock'[k] = p PROVE Open(p)' /\ OrderOK(p, k)'
  <2>1. Open(p)'
    BY <1>4, Zenon DEF Open
  <2>2. CASE k = Key(p)
    BY <1>2, <1>4, <2>1, <2>2, Zenon DEF OrderOK, Key
  <2>3. CASE k # Key(p)
    <3>1. rowLock[k] = p
      BY <1>6, <1>7, <2>3, Zenon
    <3>2. OrderOK(p, k)
      BY <1>1, <3>1, Zenon DEF LocksOrdered
    <3>3. \A j \in todo[p] : k < j
      BY <1>2, <3>2, Zenon DEF OrderOK
    <3> QED  BY <1>2, <2>1, <3>3, Zenon DEF OrderOK
  <2> QED  BY <2>2, <2>3, Zenon
<1>8. RowsOK(p)'
  <2>1. Open(p) /\ RowsOK(p)
    BY <1>1, <1>2, Zenon DEF Open, RowsWritten
  <2> QED  BY <1>2, <1>4, <2>1, Zenon DEF RowsOK
<1>9. \A v \in Trackers \ {p} : UNCHANGED Locals(v)
  BY <1>2, <1>4, Zenon DEF Locals
<1>10. \A k \in InstallIds : rowLock'[k] \in Trackers \ {p} => rowLock'[k] = rowLock[k]
  BY <1>6, Zenon
<1>11. LocksOrdered' /\ RowsWritten'
  BY <1>1, <1>7, <1>8, <1>9, <1>10, OwnStep, Zenon
<1>12. ChunksOK' /\ Replaying'
  <2>1. Backfill \in Trackers /\ Covered' = Covered
    BY <1>2, Zenon DEF Covered, Trackers
  <2>2. /\ Open(Backfill)' <=> Open(Backfill)
        /\ step'[Backfill] \in {"query", "discover"} => step[Backfill] \in {"query", "discover"}
    BY <1>2, <1>4, <2>1, Zenon DEF Open
  <2> QED  BY <1>1, <1>2, <2>1, <2>2, BackfillKept, Zenon
<1> QED  BY <1>5, <1>11, <1>12, Zenon DEF InstallsInv

\* A tracker writes the row of its least install, the lock of which it now holds.
LEMMA UpsertKeeps ==
  ASSUME InstallsInv, NEW p \in Trackers, Upsert(p)
  PROVE  InstallsInv'
<1>1. TrackOK /\ LocksOrdered /\ RowsWritten /\ ChunksOK /\ Replaying
  BY Zenon DEF InstallsInv
<1> DEFINE key == Key(p)
           next == IF todo[p] = {key} THEN "commit" ELSE "select"
<1>2. step[p] = "upsert" /\ rowLock[key] \in {None, p} /\ rowLock' = [rowLock EXCEPT ![key] = p]
  BY Zenon DEF Upsert
<1>3. todo' = [todo EXCEPT ![p] = @ \ {key}] /\ step' = [step EXCEPT ![p] = next]
  BY Zenon DEF Upsert
<1>4. UNCHANGED <<logs, installs, folded, batch, chunks, snapshot, dropped>>
  BY Zenon DEF Upsert, installTables, installHistory
<1>5. PICK row : rows' = [rows EXCEPT ![p] = Over([i \in {key} |-> row], @)]
  BY Zenon DEF Upsert
<1>6. /\ todo[p] # {} /\ key \in todo[p] /\ key \in InstallIds /\ key \in Nat
      /\ \A j \in todo[p] : key <= j
  BY <1>1, <1>2, KeyIsLeast, Zenon DEF TrackOK
<1>7. todo[p] \subseteq Nat
  BY <1>1, RecordsAssumption, Zenon DEF TrackOK
<1> HIDE DEF key
<1>8. /\ step'[p] = next /\ todo'[p] = todo[p] \ {key}
      /\ \A v \in Trackers \ {p} : step'[v] = step[v] /\ todo'[v] = todo[v]
  BY <1>1, <1>3, Zenon DEF TrackOK
<1>9. /\ DOMAIN rows' = Trackers /\ DOMAIN (rows'[p]) = {key} \cup DOMAIN (rows[p])
      /\ \A v \in Trackers \ {p} : rows'[v] = rows[v]
  <2>1. DOMAIN rows = Trackers
    BY <1>1, Zenon DEF TrackOK
  <2>2. rows'[p] = Over([i \in {key} |-> row], rows[p])
    BY <1>5, <2>1, Zenon
  <2>3. DOMAIN (rows'[p]) = {key} \cup DOMAIN (rows[p])
    BY <2>2, Zenon DEF Over
  <2> QED  BY <1>5, <2>1, <2>3, Zenon
<1>10. next \in {"commit", "select"} /\ (next = "commit" => todo[p] \ {key} = {})
       /\ (next = "select" => todo[p] \ {key} # {})
  BY <1>6, Zenon
<1> HIDE DEF next
<1>11. TrackOK'
  <2>1. step' \in [Trackers -> {"idle", "select", "upsert", "commit", "query", "discover"}]
    BY <1>1, <1>3, <1>10, Zenon DEF TrackOK
  <2>2. rowLock' \in [InstallIds -> Trackers \cup {Sweeper, None}]
    BY <1>1, <1>2, Zenon DEF TrackOK
  <2>3. todo' \in [Trackers -> SUBSET InstallIds]
    BY <1>1, <1>3, Zenon DEF TrackOK
  <2>4. ASSUME NEW v \in Trackers, step'[v] \in {"select", "upsert"} PROVE todo'[v] # {}
    <3>1. CASE v = p
      BY <1>8, <1>10, <2>4, <3>1, Zenon
    <3>2. CASE v # p
      BY <1>1, <1>8, <2>4, <3>2, Zenon DEF TrackOK
    <3> QED  BY <3>1, <3>2, Zenon
  <2> QED  BY <1>1, <1>4, <1>9, <2>1, <2>2, <2>3, <2>4, Zenon DEF TrackOK
<1>12. \A k \in InstallIds : (k # key /\ rowLock'[k] = rowLock[k]) \/ (k = key /\ rowLock'[k] = p)
  BY <1>1, <1>2, Zenon DEF TrackOK
<1>13. Open(p)' /\ Open(p)
  BY <1>2, <1>8, <1>10, Zenon DEF Open
<1>14. ASSUME NEW k \in InstallIds, rowLock'[k] = p PROVE OrderOK(p, k)'
  <2>1. CASE k = key
    <3>1. \A j \in todo[p] \ {key} : key < j
      BY <1>6, <1>7
    <3> QED  BY <1>8, <2>1, <3>1, Zenon DEF OrderOK
  <2>2. CASE k # key
    <3>1. OrderOK(p, k)
      BY <1>1, <1>12, <1>14, <2>2, Zenon DEF LocksOrdered
    <3>2. \A j \in todo[p] : k < j
      BY <2>2, <3>1, Zenon DEF OrderOK, key
    <3> QED  BY <1>8, <3>2, Zenon DEF OrderOK
  <2> QED  BY <2>1, <2>2, Zenon
<1>15. RowsOK(p)'
  <2>1. Ids(Tracked(batch[p])) \subseteq DOMAIN rows[p] \cup todo[p]
    BY <1>1, <1>13, Zenon DEF RowsWritten, RowsOK
  <2> QED  BY <1>4, <1>8, <1>9, <1>10, <2>1, Zenon DEF RowsOK
<1>16. \A v \in Trackers \ {p} : UNCHANGED Locals(v)
  BY <1>4, <1>8, <1>9, Zenon DEF Locals
<1>17. \A k \in InstallIds : rowLock'[k] \in Trackers \ {p} => rowLock'[k] = rowLock[k]
  BY <1>12, Zenon
<1>18. LocksOrdered' /\ RowsWritten'
  BY <1>1, <1>13, <1>14, <1>15, <1>16, <1>17, OwnStep, Zenon
<1>19. ChunksOK' /\ Replaying'
  <2>1. Backfill \in Trackers /\ Covered' = Covered
    BY <1>4, Zenon DEF Covered, Trackers
  <2>2. /\ Open(Backfill)' <=> Open(Backfill)
        /\ step'[Backfill] \in {"query", "discover"} => step[Backfill] \in {"query", "discover"}
    BY <1>8, <1>10, <1>13, <2>1, Zenon DEF Open
  <2> QED  BY <1>1, <1>4, <2>1, <2>2, BackfillKept, Zenon
<1> QED  BY <1>11, <1>18, <1>19, Zenon DEF InstallsInv

\* A commit covers the events of its batch and uncovers none.
LEMMA CommitCovers ==
  ASSUME TrackOK, RowsWritten, NEW p \in Trackers, step[p] = "commit",
         installs' = Over(rows[p], installs), folded' = Over(FoldedBy(p), folded),
         UNCHANGED dropped
  PROVE  /\ Covered \subseteq Covered' /\ Tracked(batch[p]) \subseteq Covered'
         /\ DOMAIN folded' = DOMAIN installs'
<1> DEFINE F == FoldedBy(p)
           D == DOMAIN rows[p]
           Mine(k) == {e \in Tracked(batch[p]) : e.install = k}
<1>1. DOMAIN folded = DOMAIN installs
  BY Zenon DEF TrackOK
<1>2. /\ DOMAIN F = D
      /\ \A k \in D : F[k] = IF k \in DOMAIN installs THEN folded[k] \cup Mine(k) ELSE Mine(k)
  BY Zenon DEF FoldedBy
<1> HIDE DEF F
<1>3. /\ DOMAIN folded' = D \cup DOMAIN folded
      /\ \A k \in D : folded'[k] = F[k]
      /\ \A k \in DOMAIN folded \ D : folded'[k] = folded[k]
  <2>1. folded' = Over(F, folded)
    BY Zenon DEF F
  <2> QED  BY <1>2, <2>1, Zenon DEF Over
<1>4. DOMAIN installs' = D \cup DOMAIN installs
  BY Zenon DEF Over
<1>5. ASSUME NEW e \in Covered PROVE e \in Covered'
  <2>1. CASE e \in dropped
    BY <2>1, Zenon DEF Covered
  <2>2. CASE e \notin dropped
    <3>1. PICK k \in DOMAIN folded : e \in folded[k]
      BY <1>5, <2>2, Zenon DEF Covered, Range
    <3>2. e \in folded'[k]
      BY <1>1, <1>2, <1>3, <3>1, Zenon
    <3> QED  BY <1>3, <3>2, Zenon DEF Covered, Range
  <2> QED  BY <2>1, <2>2, Zenon
<1>6. ASSUME NEW e \in Tracked(batch[p]) PROVE e \in Covered'
  <2>1. e.install \in D
    <3>1. Ids(Tracked(batch[p])) \subseteq D \cup todo[p] /\ todo[p] = {}
      BY Zenon DEF RowsWritten, RowsOK, Open
    <3> QED  BY <3>1, Zenon DEF Ids
  <2>2. e \in folded'[e.install]
    BY <1>2, <1>3, <2>1, Zenon
  <2> QED  BY <1>3, <2>1, <2>2, Zenon DEF Covered, Range
<1> QED  BY <1>1, <1>3, <1>4, <1>5, <1>6, Zenon

\* The chunks of the backfill, one of which it takes.
LEMMA NextChunk ==
  ASSUME ChunksOK, chunks # <<>>
  PROVE  /\ Head(chunks) \in Seq(Records) /\ Tail(chunks) \in Seq(EventSeqs)
         /\ Tracked(Head(chunks)) # {}
         /\ Ahead = Tracked(Head(chunks)) \cup UNION {Range(Tail(chunks)[i]) : i \in DOMAIN Tail(chunks)}
<1> DEFINE h == Head(chunks)
           t == Tail(chunks)
<1>1. chunks \in Seq(EventSeqs)
  BY Zenon DEF ChunksOK
<1>2. /\ h = chunks[1] /\ 1 \in DOMAIN chunks /\ t \in Seq(EventSeqs)
      /\ \A j \in DOMAIN t : j + 1 \in DOMAIN chunks /\ t[j] = chunks[j + 1]
      /\ \A i \in DOMAIN chunks : chunks[i] = h \/ \E j \in DOMAIN t : t[j] = chunks[i]
  BY <1>1, HeadAndTail, Zenon
<1>3. h \in EventSeqs
  BY <1>1, HeadAndTail, Zenon
<1> HIDE DEF h, t
<1>4. h \in Seq(Records) /\ h # <<>> /\ \A i \in DOMAIN h : IsInstallEvent(h[i])
  BY <1>3, Zenon DEF EventSeqs
<1>5. Tracked(h) = Range(h)
  BY <1>4, Zenon DEF Tracked, Range
<1>6. 1 \in DOMAIN h
  BY <1>4
<1>7. Tracked(h) # {}
  BY <1>5, <1>6, Zenon DEF Range
<1>8. Ahead = Range(h) \cup UNION {Range(t[i]) : i \in DOMAIN t}
  <2>1. ASSUME NEW e \in Ahead PROVE e \in Range(h) \cup UNION {Range(t[i]) : i \in DOMAIN t}
    <3>1. PICK i \in DOMAIN chunks : e \in Range(chunks[i])
      BY <2>1, Zenon DEF Ahead
    <3>2. CASE chunks[i] = h
      BY <3>1, <3>2, Zenon
    <3>3. CASE chunks[i] # h
      <4>1. PICK j \in DOMAIN t : t[j] = chunks[i]
        BY <1>2, <3>3, Zenon
      <4>2. e \in Range(t[j])
        BY <3>1, <4>1, Zenon
      <4> QED  BY <4>2, Zenon
    <3> QED  BY <3>2, <3>3, Zenon
  <2>2. Range(h) \subseteq Ahead
    BY <1>2, Zenon DEF Ahead
  <2>3. ASSUME NEW j \in DOMAIN t PROVE Range(t[j]) \subseteq Ahead
    BY <1>2, Zenon DEF Ahead
  <2> QED  BY <2>1, <2>2, <2>3, Zenon
<1> QED  BY <1>2, <1>4, <1>5, <1>7, <1>8, Zenon DEF h, t

\* A transaction commits; the backfill goes on with its next chunk.
LEMMA CommitKeeps ==
  ASSUME InstallsInv, NEW p \in Trackers, CommitRows(p)
  PROVE  InstallsInv'
<1>1. TrackOK /\ LocksOrdered /\ RowsWritten /\ ChunksOK /\ Replaying
  BY Zenon DEF InstallsInv
<1>2. /\ step[p] = "commit" /\ installs' = Over(rows[p], installs)
      /\ folded' = Over(FoldedBy(p), folded) /\ rowLock' = Released(p)
      /\ UNCHANGED <<logs, dropped, snapshot>>
  BY Zenon DEF CommitRows
<1>3. \/ /\ p = Backfill /\ chunks # <<>>
         /\ BeginTracking(p, Head(chunks), "query") /\ chunks' = Tail(chunks)
      \/ /\ ~ (p = Backfill /\ chunks # <<>>)
         /\ EndTracking(p, IF p = Backfill THEN "query" ELSE "discover") /\ UNCHANGED chunks
  BY Zenon DEF CommitRows
<1>4. /\ Covered \subseteq Covered' /\ Tracked(batch[p]) \subseteq Covered'
      /\ DOMAIN folded' = DOMAIN installs'
  BY <1>1, <1>2, CommitCovers, Zenon
<1>5. /\ rowLock' \in [InstallIds -> Trackers \cup {Sweeper, None}]
      /\ \A k \in InstallIds : rowLock'[k] # p /\ (rowLock'[k] # None => rowLock'[k] = rowLock[k])
  BY <1>1, <1>2, Releases, Zenon
<1>6. \A k \in InstallIds : rowLock'[k] \in Trackers \ {p} => rowLock'[k] = rowLock[k]
  BY <1>5, TrackersAssumption, Zenon
<1>7. Backfill \in Trackers
  BY Zenon DEF Trackers
<1>8. CASE p = Backfill /\ chunks # <<>>
  <2>1. BeginTracking(p, Head(chunks), "query") /\ chunks' = Tail(chunks)
    BY <1>3, <1>8, Zenon
  <2>2. /\ Head(chunks) \in Seq(Records) /\ Tail(chunks) \in Seq(EventSeqs)
        /\ Tracked(Head(chunks)) # {}
        /\ Ahead = Tracked(Head(chunks)) \cup UNION {Range(Tail(chunks)[i]) : i \in DOMAIN Tail(chunks)}
    BY <1>1, <1>8, NextChunk, Zenon
  <2>3. /\ step' \in [Trackers -> {"idle", "select", "upsert", "commit", "query", "discover"}]
        /\ todo' \in [Trackers -> SUBSET InstallIds] /\ batch' \in [Trackers -> Seq(Records)]
        /\ DOMAIN rows' = Trackers
        /\ \A v \in Trackers : step'[v] \in {"select", "upsert"} => todo'[v] # {}
        /\ step'[p] = (IF Tracked(Head(chunks)) = {} THEN "query" ELSE "select")
        /\ batch'[p] = Head(chunks) /\ RowsOK(p)' /\ \A v \in Trackers \ {p} : UNCHANGED Locals(v)
    BY <1>1, <2>1, <2>2, Begins, Zenon
  <2>4. step'[p] = "select"
    BY <2>2, <2>3, Zenon
  <2>5. TrackOK'
    BY <1>1, <1>2, <1>4, <1>5, <2>3, Zenon DEF TrackOK
  <2>6. LocksOrdered' /\ RowsWritten'
    BY <1>1, <1>5, <1>6, <2>3, OwnStep, Zenon
  <2>7. Open(Backfill)'
    BY <1>8, <2>4, Zenon DEF Open
  <2>8. ChunksOK'
    BY <2>1, <2>2, <2>7, Zenon DEF ChunksOK
  <2>9. Ahead \subseteq Tracked(batch'[p]) \cup Ahead'
    BY <2>1, <2>2, <2>3, Zenon DEF Ahead
  <2>10. snapshot \subseteq Covered \cup Tracked(batch[p]) \cup Ahead
    BY <1>1, <1>2, <1>8, Zenon DEF Replaying, Open
  <2>11. snapshot' \subseteq Covered' \cup Tracked(batch'[p]) \cup Ahead'
    BY <1>2, <1>4, <2>9, <2>10, Zenon
  <2>12. Replaying'
    BY <1>8, <2>7, <2>11, Zenon DEF Replaying
  <2> QED  BY <2>5, <2>6, <2>8, <2>12, Zenon DEF InstallsInv
<1>9. CASE ~ (p = Backfill /\ chunks # <<>>)
  <2> DEFINE next == IF p = Backfill THEN "query" ELSE "discover"
  <2>1. EndTracking(p, next) /\ UNCHANGED chunks /\ next \in {"idle", "query", "discover"}
    BY <1>3, <1>9, Zenon
  <2> HIDE DEF next
  <2>2. /\ step' \in [Trackers -> {"idle", "select", "upsert", "commit", "query", "discover"}]
        /\ todo' \in [Trackers -> SUBSET InstallIds] /\ batch' \in [Trackers -> Seq(Records)]
        /\ DOMAIN rows' = Trackers
        /\ \A v \in Trackers : step'[v] \in {"select", "upsert"} => todo'[v] # {}
        /\ RowsOK(p)' /\ ~ Open(p)' /\ \A v \in Trackers \ {p} : UNCHANGED Locals(v)
    BY <1>1, <2>1, Ends, Zenon
  <2>3. TrackOK'
    BY <1>1, <1>2, <1>4, <1>5, <2>2, Zenon DEF TrackOK
  <2>4. LocksOrdered' /\ RowsWritten'
    BY <1>1, <1>5, <1>6, <2>2, OwnStep, Zenon
  <2>5. CASE p = Backfill
    <3>1. chunks = <<>> /\ chunks' = <<>>
      BY <1>9, <2>1, <2>5, Zenon
    <3>2. ChunksOK'
      BY <1>1, <3>1, Zenon DEF ChunksOK
    <3>3. Ahead = {}
      <4>1. DOMAIN chunks = {}
        BY <3>1
      <4> QED  BY <4>1, Zenon DEF Ahead
    <3>4. snapshot \subseteq Covered \cup Tracked(batch[p])
      BY <1>1, <1>2, <2>5, <3>3, Zenon DEF Replaying, Open
    <3>5. snapshot' \subseteq Covered'
      BY <1>2, <1>4, <3>4, Zenon
    <3>6. Replaying'
      BY <3>5, Zenon DEF Replaying
    <3> QED  BY <2>3, <2>4, <3>2, <3>6, Zenon DEF InstallsInv
  <2>6. CASE p # Backfill
    <3>1. UNCHANGED Locals(Backfill)
      BY <1>7, <2>2, <2>6, Zenon
    <3>2. step'[Backfill] = step[Backfill] /\ batch'[Backfill] = batch[Backfill]
      BY <3>1, Zenon DEF Locals
    <3>3. Open(Backfill)' <=> Open(Backfill)
      BY <3>2, Zenon DEF Open
    <3>4. ChunksOK' /\ Replaying'
      BY <1>1, <1>2, <1>4, <2>1, <3>2, <3>3, BackfillKept, Zenon
    <3> QED  BY <2>3, <2>4, <3>4, Zenon DEF InstallsInv
  <2> QED  BY <2>5, <2>6, Zenon
<1> QED  BY <1>8, <1>9, Zenon

\* A transaction rolls back, or the tracking of a batch ends.
LEMMA LeaveKeeps ==
  ASSUME InstallsInv, NEW p \in Trackers, FailRows(p) \/ Discover(p) \/ Abort(p)
  PROVE  InstallsInv'
<1>1. TrackOK /\ LocksOrdered /\ RowsWritten /\ ChunksOK /\ Replaying
  BY Zenon DEF InstallsInv
<1>2. PICK next \in {"idle", "discover"} :
        /\ EndTracking(p, next) /\ (next = "discover" => p # Backfill)
        /\ UNCHANGED <<logs, installs, folded, dropped, snapshot>>
  <2>1. CASE FailRows(p)
    BY <2>1, Zenon DEF FailRows, installTables, installHistory
  <2>2. CASE Discover(p)
    BY <2>2, Zenon DEF Discover
  <2>3. CASE Abort(p)
    BY <2>3, Zenon DEF Abort, installTables, installHistory
  <2> QED  BY <2>1, <2>2, <2>3, Zenon
<1>3. /\ rowLock' \in [InstallIds -> Trackers \cup {Sweeper, None}]
      /\ \A k \in InstallIds : rowLock'[k] # p /\ (rowLock'[k] # None => rowLock'[k] = rowLock[k])
  <2>1. CASE FailRows(p)
    <3>1. rowLock' = Released(p)
      BY <2>1, Zenon DEF FailRows
    <3> QED  BY <1>1, <3>1, Releases, Zenon
  <2>2. CASE Discover(p) \/ Abort(p)
    <3>1. rowLock' = rowLock /\ ~ Open(p)
      BY <2>2, Zenon DEF Discover, Abort, Open
    <3>2. \A k \in InstallIds : rowLock[k] # p
      BY <1>1, <3>1, NoLocks, Zenon
    <3> QED  BY <1>1, <3>1, <3>2, Zenon DEF TrackOK
  <2> QED  BY <2>1, <2>2, Zenon
<1>4. /\ chunks' = chunks \/ (p = Backfill /\ chunks' = <<>>)
      /\ p = Backfill => chunks' = <<>>
  <2>1. CASE FailRows(p)
    BY <2>1, Zenon DEF FailRows
  <2>2. CASE Discover(p) \/ Abort(p)
    <3>1. chunks' = chunks /\ ~ Open(p)
      BY <2>2, Zenon DEF Discover, Abort, Open
    <3> QED  BY <1>1, <3>1, Zenon DEF ChunksOK
  <2> QED  BY <2>1, <2>2, Zenon
<1>5. /\ step' \in [Trackers -> {"idle", "select", "upsert", "commit", "query", "discover"}]
      /\ todo' \in [Trackers -> SUBSET InstallIds] /\ batch' \in [Trackers -> Seq(Records)]
      /\ DOMAIN rows' = Trackers
      /\ \A v \in Trackers : step'[v] \in {"select", "upsert"} => todo'[v] # {}
      /\ step'[p] = next /\ RowsOK(p)' /\ ~ Open(p)' /\ \A v \in Trackers \ {p} : UNCHANGED Locals(v)
  <2>1. next \in {"idle", "query", "discover"}
    BY <1>2, Zenon
  <2> QED  BY <1>1, <1>2, <2>1, Ends, Zenon
<1>6. TrackOK'
  BY <1>1, <1>2, <1>3, <1>5, Zenon DEF TrackOK
<1>7. \A k \in InstallIds : rowLock'[k] \in Trackers \ {p} => rowLock'[k] = rowLock[k]
  BY <1>3, TrackersAssumption, Zenon
<1>8. LocksOrdered' /\ RowsWritten'
  BY <1>1, <1>3, <1>5, <1>7, OwnStep, Zenon
<1>9. CASE p = Backfill
  <2>1. chunks' = <<>> /\ step'[Backfill] = "idle"
    BY <1>2, <1>4, <1>5, <1>9, Zenon
  <2>2. ChunksOK'
    BY <2>1 DEF ChunksOK
  <2>3. Replaying'
    BY <2>1, Zenon DEF Replaying
  <2> QED  BY <1>6, <1>8, <2>2, <2>3, Zenon DEF InstallsInv
<1>10. CASE p # Backfill
  <2>1. UNCHANGED Locals(Backfill) /\ chunks' = chunks
    BY <1>4, <1>5, <1>10, Zenon DEF Trackers
  <2>2. step'[Backfill] = step[Backfill] /\ batch'[Backfill] = batch[Backfill]
    BY <2>1, Zenon DEF Locals
  <2>3. Open(Backfill)' <=> Open(Backfill)
    BY <2>2, Zenon DEF Open
  <2>4. Covered \subseteq Covered'
    BY <1>2, Zenon DEF Covered
  <2>5. ChunksOK' /\ Replaying'
    BY <1>1, <1>2, <2>1, <2>2, <2>3, <2>4, BackfillKept, Zenon
  <2> QED  BY <1>6, <1>8, <2>5, Zenon DEF InstallsInv
<1> QED  BY <1>9, <1>10, Zenon

\* The backfill reads the install events and begins on its first chunk.
LEMMA BackfillStartKeeps ==
  ASSUME InstallsInv, BackfillStart
  PROVE  InstallsInv'
<1>1. TrackOK /\ LocksOrdered /\ RowsWritten /\ ChunksOK /\ Replaying
  BY Zenon DEF InstallsInv
<1> DEFINE E == {r \in logs : IsInstallEvent(r)}
<1>2. /\ step[Backfill] = "idle" /\ snapshot' = E
      /\ UNCHANGED <<logs, installs, folded, rowLock, dropped>>
  BY Zenon DEF BackfillStart, installTables
<1>3. PICK s \in Orders(E) :
        chunks' = Tail(Chunked(s)) /\ BeginTracking(Backfill, Head(Chunked(s)), "query")
  BY Zenon DEF BackfillStart
<1>4. IsFiniteSet(E) /\ E \subseteq Records /\ \A e \in E : IsInstallEvent(e)
  BY <1>1, FS_Subset, Zenon DEF TrackOK
<1> HIDE DEF E
<1>5. s \in Seq(E) /\ Range(s) = E
  BY <1>3, <1>4, SequencesOfAll, Zenon
<1> DEFINE c == Chunked(s)
           h == Head(c)
           t == Tail(c)
<1>6. /\ c \in Seq(Seq(E)) /\ c # <<>>
      /\ s = <<>> => DOMAIN c = {1}
      /\ s # <<>> => \A i \in DOMAIN c : c[i] # <<>>
      /\ \A j \in DOMAIN s : \E i \in DOMAIN c : s[j] \in Range(c[i])
  BY <1>5, ChunkedFacts, Zenon
<1> HIDE DEF c
<1>7. /\ h = c[1] /\ 1 \in DOMAIN c /\ t \in Seq(Seq(E))
      /\ \A j \in DOMAIN t : j + 1 \in DOMAIN c /\ t[j] = c[j + 1]
      /\ \A i \in DOMAIN c : c[i] = h \/ \E j \in DOMAIN t : t[j] = c[i]
  BY <1>6, HeadAndTail, Zenon
<1>8. h \in Seq(E)
  BY <1>6, HeadAndTail, Zenon
<1>9. chunks' = t /\ BeginTracking(Backfill, h, "query")
  BY <1>3, Zenon DEF c
<1> HIDE DEF h, t
<1>10. h \in Seq(Records) /\ Tracked(h) = Range(h) /\ (h # <<>> => Tracked(h) # {})
  <2>1. Range(h) \subseteq E
    BY <1>8, SeqElements, Zenon
  <2>2. Tracked(h) = Range(h)
    BY <1>4, <2>1, Zenon DEF Tracked
  <2>3. h # <<>> => 1 \in DOMAIN h
    BY <1>8
  <2>4. h \in Seq(Records)
    BY <1>4, <1>8, SeqGrows, Zenon
  <2> QED  BY <2>2, <2>3, <2>4, Zenon DEF Range
<1>11. t \in Seq(EventSeqs)
  <2>1. ASSUME NEW j \in DOMAIN t PROVE t[j] \in EventSeqs
    <3>1. j + 1 \in DOMAIN c /\ t[j] = c[j + 1] /\ t[j] \in Seq(E)
      BY <1>7, SeqElements, Zenon DEF Range
    <3>2. s # <<>>
      <4>1. j \in Nat \ {0}
        BY <1>7
      <4>2. j + 1 # 1
        BY <4>1
      <4> QED  BY <1>6, <3>1, <4>2, Zenon
    <3>3. t[j] # <<>>
      BY <1>6, <3>1, <3>2, Zenon
    <3>4. Range(t[j]) \subseteq E
      BY <3>1, SeqElements, Zenon
    <3>5. \A i \in DOMAIN t[j] : IsInstallEvent(t[j][i])
      BY <1>4, <3>4, Zenon DEF Range
    <3>6. t[j] \in Seq(Records)
      BY <1>4, <3>1, SeqGrows, Zenon
    <3> QED  BY <3>3, <3>5, <3>6, Zenon DEF EventSeqs
  <2> QED  BY <1>7, <2>1, SeqOver, Zenon
<1>12. Backfill \in Trackers
  BY Zenon DEF Trackers
<1>13. /\ step' \in [Trackers -> {"idle", "select", "upsert", "commit", "query", "discover"}]
       /\ todo' \in [Trackers -> SUBSET InstallIds] /\ batch' \in [Trackers -> Seq(Records)]
       /\ DOMAIN rows' = Trackers
       /\ \A v \in Trackers : step'[v] \in {"select", "upsert"} => todo'[v] # {}
       /\ step'[Backfill] = (IF Tracked(h) = {} THEN "query" ELSE "select")
       /\ batch'[Backfill] = h /\ RowsOK(Backfill)'
       /\ \A v \in Trackers \ {Backfill} : UNCHANGED Locals(v)
  BY <1>1, <1>9, <1>10, <1>12, Begins, Zenon
<1>14. TrackOK'
  BY <1>1, <1>2, <1>13, Zenon DEF TrackOK
<1>15. \A k \in InstallIds : rowLock'[k] # Backfill
  BY <1>1, <1>2, <1>12, NoLocks, Zenon DEF Open
<1>16. LocksOrdered' /\ RowsWritten'
  BY <1>1, <1>2, <1>12, <1>13, <1>15, OwnStep, Zenon
<1>17. E \subseteq Range(h) \cup Ahead'
  <2> SUFFICES ASSUME NEW e \in E PROVE e \in Range(h) \cup Ahead'
    BY Zenon
  <2>1. PICK j \in DOMAIN s : s[j] = e
    BY <1>5, Zenon DEF Range
  <2>2. PICK i \in DOMAIN c : e \in Range(c[i])
    BY <1>6, <2>1, Zenon
  <2>3. CASE c[i] = h
    BY <2>2, <2>3, Zenon
  <2>4. CASE c[i] # h
    <3>1. PICK k \in DOMAIN t : t[k] = c[i]
      BY <1>7, <2>4, Zenon
    <3>2. chunks'[k] = c[i] /\ k \in DOMAIN chunks'
      BY <1>9, <3>1, Zenon
    <3> QED  BY <2>2, <3>2, Zenon DEF Ahead
  <2> QED  BY <2>3, <2>4, Zenon
<1>18. CASE h # <<>>
  <2>1. step'[Backfill] = "select" /\ Open(Backfill)'
    BY <1>10, <1>13, <1>18, Zenon DEF Open
  <2>2. ChunksOK'
    BY <1>9, <1>11, <2>1, Zenon DEF ChunksOK
  <2>3. snapshot' \subseteq Covered' \cup Tracked(batch'[Backfill]) \cup Ahead'
    BY <1>2, <1>10, <1>13, <1>17, Zenon
  <2>4. Replaying'
    BY <2>1, <2>3, Zenon DEF Replaying
  <2> QED  BY <1>14, <1>16, <2>2, <2>4, Zenon DEF InstallsInv
<1>19. CASE h = <<>>
  <2>1. s = <<>>
    BY <1>6, <1>7, <1>19, Zenon
  <2>2. t = <<>>
    <3>1. \A j \in DOMAIN t : j + 1 = 1
      BY <1>6, <1>7, <2>1, Zenon
    <3>2. t \in Seq(Seq(E))
      BY <1>7, Zenon
    <3> QED  BY <3>1, <3>2, NoPlaces, Zenon
  <2>3. ChunksOK'
    BY <1>9, <1>11, <2>2, Zenon DEF ChunksOK
  <2>4. E = {}
    <3>1. DOMAIN s = {}
      BY <2>1
    <3> QED  BY <1>5, <3>1, Zenon DEF Range
  <2>5. Replaying'
    BY <1>2, <2>4, Zenon DEF Replaying
  <2> QED  BY <1>14, <1>16, <2>3, <2>5, Zenon DEF InstallsInv
<1> QED  BY <1>18, <1>19, Zenon

\* The backfill reads the records of its discoveries.
LEMMA BackfillQueryKeeps ==
  ASSUME InstallsInv, BackfillQuery
  PROVE  InstallsInv'
<1>1. TrackOK /\ LocksOrdered /\ RowsWritten /\ ChunksOK /\ Replaying
  BY Zenon DEF InstallsInv
<1> DEFINE D == {r \in logs : DiscoveryKeys(r) # {}}
<1>2. /\ step[Backfill] = "query" /\ step' = [step EXCEPT ![Backfill] = "discover"]
      /\ batch' = [batch EXCEPT ![Backfill] = CHOOSE s \in Orders(D) : TRUE]
      /\ UNCHANGED <<logs, installs, folded, rowLock, todo, rows, chunks, snapshot, dropped>>
  BY Zenon DEF BackfillQuery, installTables, installHistory
<1>3. IsFiniteSet(D) /\ D \subseteq Records
  BY <1>1, FS_Subset, Zenon DEF TrackOK
<1> HIDE DEF D
<1>4. (CHOOSE s \in Orders(D) : TRUE) \in Seq(Records)
  BY <1>3, SetAsSeq, SeqGrows, Zenon
<1>5. Backfill \in Trackers
  BY Zenon DEF Trackers
<1>6. step'[Backfill] = "discover" /\ \A v \in Trackers \ {Backfill} : UNCHANGED Locals(v)
  BY <1>1, <1>2, <1>5, Zenon DEF TrackOK, Locals
<1>7. TrackOK'
  <2>1. step' \in [Trackers -> {"idle", "select", "upsert", "commit", "query", "discover"}]
    BY <1>1, <1>2, Zenon DEF TrackOK
  <2>2. batch' \in [Trackers -> Seq(Records)]
    BY <1>1, <1>2, <1>4, Zenon DEF TrackOK
  <2>3. \A v \in Trackers : step'[v] \in {"select", "upsert"} => todo'[v] # {}
    BY <1>1, <1>2, <1>6, Zenon DEF TrackOK
  <2> QED  BY <1>1, <1>2, <2>1, <2>2, <2>3, Zenon DEF TrackOK
<1>8. \A k \in InstallIds : rowLock'[k] # Backfill
  BY <1>1, <1>2, <1>5, NoLocks, Zenon DEF Open
<1>9. RowsOK(Backfill)' /\ ~ Open(Backfill)' /\ ~ Open(Backfill)
  BY <1>2, <1>6, Zenon DEF RowsOK, Open
<1>10. LocksOrdered' /\ RowsWritten'
  BY <1>1, <1>2, <1>5, <1>6, <1>8, <1>9, OwnStep, Zenon
<1>11. ChunksOK' /\ chunks = <<>>
  BY <1>1, <1>2, <1>9, Zenon DEF ChunksOK
<1>12. snapshot \subseteq Covered \cup Ahead
  BY <1>1, <1>2, <1>9, Zenon DEF Replaying
<1>13. Covered' = Covered /\ Ahead' = Ahead
  BY <1>2, Zenon DEF Covered, Ahead
<1>14. Replaying'
  BY <1>2, <1>12, <1>13, Zenon DEF Replaying
<1> QED  BY <1>7, <1>10, <1>11, <1>14, Zenon DEF InstallsInv

\* The sweep deletes a row, ends, or does what concerns no tracker.
LEMMA SweepKeeps ==
  ASSUME InstallsInv,
         \/ UNCHANGED installVars \/ \E c \in Cutoffs : SweepBegin(c)
         \/ SweepChanges \/ SweepDiscoveries \/ SweepInstalls \/ SweepOrphans
         \/ \E k \in InstallIds : SweepRow(k)
         \/ SweepCommit \/ SweepFails
  PROVE  InstallsInv'
<1>1. TrackOK /\ LocksOrdered /\ RowsWritten /\ ChunksOK /\ Replaying
  BY Zenon DEF InstallsInv
<1>2. UNCHANGED <<logs, step, todo, batch, rows, chunks, snapshot>>
  <2>1. CASE UNCHANGED installVars
    BY <2>1, Zenon DEF installVars, installTables, tx, installHistory
  <2>2. ASSUME NEW c \in Cutoffs, SweepBegin(c) PROVE <1>2
    BY <2>2, Zenon DEF SweepBegin, installTables, tx
  <2>3. CASE SweepChanges \/ SweepDiscoveries \/ SweepInstalls \/ SweepOrphans
    BY <2>3, Zenon DEF SweepChanges, SweepDiscoveries, SweepInstalls, SweepOrphans, installTables, tx, installHistory
  <2>4. ASSUME NEW k \in InstallIds, SweepRow(k) PROVE <1>2
    BY <2>4, Zenon DEF SweepRow, installTables, tx, installHistory
  <2>5. CASE SweepCommit \/ SweepFails
    BY <2>5, Zenon DEF SweepCommit, SweepFails, installTables, tx, installHistory
  <2> QED  BY <2>1, <2>2, <2>3, <2>4, <2>5, Zenon
<1>3. DOMAIN folded' = DOMAIN installs' /\ Covered \subseteq Covered'
  <2>1. CASE SweepCommit
    <3>1. /\ installs' = Remaining(installs, deleted) /\ folded' = Remaining(folded, deleted)
          /\ dropped' = dropped \cup UNION {folded[k] : k \in deleted}
      BY <2>1, Zenon DEF SweepCommit
    <3>2. DOMAIN folded = DOMAIN installs
      BY <1>1, Zenon DEF TrackOK
    <3>3. DOMAIN folded' = DOMAIN installs'
      BY <3>1, <3>2, Zenon DEF Remaining
    <3>4. /\ DOMAIN folded' = DOMAIN folded \ deleted
          /\ \A k \in DOMAIN folded \ deleted : folded'[k] = folded[k]
      BY <3>1, Zenon DEF Remaining
    <3>5. ASSUME NEW e \in Covered PROVE e \in Covered'
      <4>1. CASE e \in dropped
        BY <3>1, <4>1, Zenon DEF Covered
      <4>2. CASE e \notin dropped
        <5>1. PICK k \in DOMAIN folded : e \in folded[k]
          BY <3>5, <4>2, Zenon DEF Covered, Range
        <5>2. CASE k \in deleted
          BY <3>1, <5>1, <5>2, Zenon DEF Covered
        <5>3. CASE k \notin deleted
          BY <3>4, <5>1, <5>3, Zenon DEF Covered, Range
        <5> QED  BY <5>2, <5>3, Zenon
      <4> QED  BY <4>1, <4>2, Zenon
    <3> QED  BY <3>3, <3>5, Zenon
  <2>2. CASE UNCHANGED <<installs, folded, dropped>>
    <3>1. Covered' = Covered
      BY <2>2, Zenon DEF Covered
    <3> QED  BY <1>1, <2>2, <3>1, Zenon DEF TrackOK
  <2>3. UNCHANGED <<installs, folded, dropped>> \/ SweepCommit
    <3>1. CASE UNCHANGED installVars
      BY <3>1, Zenon DEF installVars, installTables, installHistory
    <3>2. ASSUME NEW c \in Cutoffs, SweepBegin(c) PROVE <2>3
      BY <3>2, Zenon DEF SweepBegin, installTables
    <3>3. CASE SweepChanges \/ SweepDiscoveries \/ SweepInstalls \/ SweepOrphans
      BY <3>3, Zenon DEF SweepChanges, SweepDiscoveries, SweepInstalls, SweepOrphans, installTables, installHistory
    <3>4. ASSUME NEW k \in InstallIds, SweepRow(k) PROVE <2>3
      BY <3>4, Zenon DEF SweepRow, installTables, installHistory
    <3>5. CASE SweepFails
      BY <3>5, Zenon DEF SweepFails, installTables, installHistory
    <3> QED  BY <3>1, <3>2, <3>3, <3>4, <3>5, Zenon
  <2> QED  BY <2>1, <2>2, <2>3, Zenon
<1>4. /\ rowLock' \in [InstallIds -> Trackers \cup {Sweeper, None}]
      /\ \A k \in InstallIds : rowLock'[k] \in Trackers => rowLock'[k] = rowLock[k]
  <2>1. rowLock \in [InstallIds -> Trackers \cup {Sweeper, None}]
    BY <1>1, Zenon DEF TrackOK
  <2>2. CASE rowLock' = Released(Sweeper)
    BY <1>1, <2>2, Releases, TrackersAssumption, Zenon
  <2>3. ASSUME NEW k \in InstallIds, SweepRow(k) PROVE <1>4
    <3>1. rowLock' = rowLock \/ rowLock' = [rowLock EXCEPT ![k] = Sweeper]
      BY <2>3, Zenon DEF SweepRow
    <3>2. Sweeper \notin Trackers
      BY TrackersAssumption, Zenon
    <3>3. rowLock' \in [InstallIds -> Trackers \cup {Sweeper, None}]
      BY <2>1, <3>1, Zenon
    <3>4. \A j \in InstallIds : rowLock'[j] = rowLock[j] \/ rowLock'[j] = Sweeper
      BY <2>1, <3>1, Zenon
    <3> QED  BY <3>2, <3>3, <3>4, Zenon
  <2>4. CASE rowLock' = rowLock
    BY <2>1, <2>4, Zenon
  <2>5. rowLock' = rowLock \/ rowLock' = Released(Sweeper) \/ \E k \in InstallIds : SweepRow(k)
    <3>1. CASE UNCHANGED installVars
      BY <3>1, Zenon DEF installVars
    <3>2. CASE (\E c \in Cutoffs : SweepBegin(c)) \/ SweepChanges \/ SweepDiscoveries
      BY <3>2, Zenon DEF SweepBegin, SweepChanges, SweepDiscoveries
    <3>3. CASE SweepInstalls \/ SweepOrphans
      BY <3>3, Zenon DEF SweepInstalls, SweepOrphans
    <3>4. CASE SweepCommit \/ SweepFails
      BY <3>4, Zenon DEF SweepCommit, SweepFails, EndSweep
    <3> QED  BY <3>1, <3>2, <3>3, <3>4, Zenon
  <2> QED  BY <2>2, <2>3, <2>4, <2>5, Zenon
<1>5. TrackOK'
  BY <1>1, <1>2, <1>3, <1>4, Zenon DEF TrackOK
<1>6. LocksOrdered' /\ RowsWritten'
  BY <1>1, <1>2, <1>4, NoStep, Zenon
<1>7. Open(Backfill)' <=> Open(Backfill)
  BY <1>2, Zenon DEF Open
<1>8. ChunksOK' /\ Replaying'
  BY <1>1, <1>2, <1>3, <1>7, BackfillKept, Zenon
<1> QED  BY <1>5, <1>6, <1>8, Zenon DEF InstallsInv

\* Every step keeps the invariant.
LEMMA InvNext == InstallsInv /\ [InstallsNext]_installVars => InstallsInv'
<1> SUFFICES ASSUME InstallsInv, [InstallsNext]_installVars PROVE InstallsInv'
  OBVIOUS
<1>1. CASE \E x \in Exports, s \in EventBatches : Store(x, s)
  BY <1>1, StoreKeeps, Zenon
<1>2. CASE \E p \in Trackers : Select(p) \/ Upsert(p) \/ CommitRows(p) \/ FailRows(p) \/ Discover(p) \/ Abort(p)
  BY <1>2, SelectKeeps, UpsertKeeps, CommitKeeps, LeaveKeeps, Zenon
<1>3. CASE BackfillStart \/ BackfillQuery
  BY <1>3, BackfillStartKeeps, BackfillQueryKeeps, Zenon
<1>4. CASE ~ (\/ \E x \in Exports, s \in EventBatches : Store(x, s)
              \/ \E p \in Trackers : Select(p) \/ Upsert(p) \/ CommitRows(p) \/ FailRows(p) \/ Discover(p) \/ Abort(p)
              \/ BackfillStart \/ BackfillQuery)
  BY <1>4, SweepKeeps, Zenon DEF InstallsNext
<1> QED  BY <1>1, <1>2, <1>3, <1>4, Zenon

\* Locks in order, rows for every event, and nothing lost on the way of a
\* backfill: for any number of exports and any batches.
THEOREM InstallsInvariance == InstallsSpec => []InstallsInv
  BY InvInit, InvNext, PTL DEF InstallsSpec

\* A tracker that waits for q waits for a lower key than q, if q waits too.
LEMMA WaitsUpwards ==
  ASSUME InstallsInv, NEW p \in Trackers, NEW q \in Trackers, NEW r \in Trackers,
         WaitsFor(p, q), WaitsFor(q, r)
  PROVE  Key(p) \in Nat /\ Key(q) \in Nat /\ Key(p) < Key(q)
<1>1. TrackOK /\ LocksOrdered
  BY Zenon DEF InstallsInv
<1>2. /\ rowLock[Key(p)] = q /\ step[p] \in {"select", "upsert"}
      /\ q # r /\ rowLock[Key(q)] = r /\ step[q] \in {"select", "upsert"}
  BY Zenon DEF WaitsFor
<1>3. todo[p] # {} /\ todo[q] # {}
  BY <1>1, <1>2, Zenon DEF TrackOK
<1>4. /\ Key(p) \in InstallIds /\ Key(p) \in Nat /\ Key(q) \in Nat /\ Key(q) \in todo[q]
  BY <1>1, <1>3, KeyIsLeast, Zenon
<1>5. OrderOK(q, Key(p))
  BY <1>1, <1>2, <1>4, Zenon DEF LocksOrdered
<1>6. Key(p) # Key(q)
  BY <1>2, Zenon
<1>7. \A j \in todo[q] : Key(p) < j
  BY <1>5, <1>6, Zenon DEF OrderOK
<1> QED  BY <1>4, <1>7, Zenon

\* TrackInstalls: "installs are locked in a stable order so concurrent batches
\* can't deadlock", whatever the batches and however many there are.
THEOREM InstallsNeverDeadlock == InstallsSpec => []BatchesNeverDeadlock
<1>1. InstallsInv => BatchesNeverDeadlock
  <2> SUFFICES ASSUME InstallsInv, NEW P \in SUBSET Trackers, P # {},
                      \A p \in P : \E q \in P : WaitsFor(p, q)
               PROVE  FALSE
    BY Zenon DEF BatchesNeverDeadlock
  <2> DEFINE key == [p \in P |-> Key(p)]
  <2>1. IsFiniteSet(Trackers)
    BY TrackersAssumption, FS_AddElement, Zenon DEF Trackers
  <2>2. IsFiniteSet(P)
    BY <2>1, FS_Subset, Zenon
  <2>3. ASSUME NEW p \in P PROVE Key(p) \in Nat /\ \E q \in P : Key(q) \in Nat /\ Key(p) < Key(q)
    <3>1. PICK q \in P : WaitsFor(p, q)
      BY Zenon
    <3>2. PICK r \in P : WaitsFor(q, r)
      BY Zenon
    <3> QED  BY <3>1, <3>2, WaitsUpwards, Zenon
  <2>4. \A p \in P : key[p] \in Nat
    BY <2>3, Zenon
  <2>5. PICK p \in P : \A q \in P : key[q] <= key[p]
    BY <2>2, <2>4, GreatestOf, Zenon
  <2>6. PICK q \in P : Key(q) \in Nat /\ Key(p) < Key(q)
    BY <2>3, <2>5, Zenon
  <2>7. Key(q) <= Key(p) /\ Key(p) \in Nat
    BY <2>3, <2>5, Zenon
  <2> QED  BY <2>6, <2>7
<1> QED  BY <1>1, InstallsInvariance, PTL

\* The backfill leaves out nothing: once it has replayed the installs, every
\* event it read counts in a row, or went with a row swept since.
THEOREM BackfillCoversAll == InstallsSpec => []BackfillCovers
<1>1. InstallsInv => BackfillCovers
  <2> SUFFICES ASSUME InstallsInv, step[Backfill] \in {"query", "discover"}
               PROVE  snapshot \subseteq dropped \cup UNION Range(folded)
    BY Zenon DEF BackfillCovers
  <2>1. ~ Open(Backfill) /\ ChunksOK /\ Replaying
    BY Zenon DEF Open, InstallsInv
  <2>2. chunks = <<>>
    BY <2>1, Zenon DEF ChunksOK
  <2>3. DOMAIN chunks = {}
    BY <2>2
  <2>4. Ahead = {}
    BY <2>3, Zenon DEF Ahead
  <2> QED  BY <2>1, <2>4, Zenon DEF Replaying, Covered
<1> QED  BY <1>1, InstallsInvariance, PTL
=============================================================================
