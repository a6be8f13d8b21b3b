----------------------------- MODULE ServeProofs -----------------------------
(***************************************************************************)
(* Proofs about what `argvio serve public` keeps in memory, for every      *)
(* number of requests: its tenant cache, its rate limiter and its drain;   *)
(* and about what the command statistics count of what it stored, for any  *)
(* spans and any policies that fit each other, with jobs, arrivals and     *)
(* pruning in any order.                                                   *)
(***************************************************************************)
EXTENDS TenantCache, RateLimiter, PublicServer, Rollups, TLAPS

-----------------------------------------------------------------------------
(* The tenant cache implements bounded staleness, for every TTL and every  *)
(* sequence of operator changes.  The invariant follows an answer from the *)
(* snapshot of its query to the expiry of its entry: it held at the        *)
(* snapshot or later, and the entry expires at most MaxLookup and the      *)
(* answer's TTL after that.                                                *)


\* An answer read within m of now, that ended after its snapshot at t, ended
\* less than m and a TTL d ago; so does one whose entry has not expired at x.
LEMMA ReadAge ==
  ASSUME NEW t \in Nat, NEW n \in Nat, NEW e \in Nat, NEW m \in Nat, NEW d \in Nat,
         t <= e, n - t <= m
  PROVE  n + d <= e + d + m /\ (d # 0 => n - e < d + m)
OBVIOUS

\* A moment up to a bound is a natural number.
LEMMA TimeIsNat ==
  ASSUME NEW m, NEW x \in 0..m
  PROVE  x \in Nat
OBVIOUS

\* An entry read before its expiry is younger than what the expiry adds.
LEMMA EntryAge ==
  ASSUME NEW n \in Nat, NEW x \in Nat, NEW e \in Nat, NEW b \in Nat, n < x, x <= e + b
  PROVE  n - e < b
OBVIOUS

TablesOK ==
  /\ tenantConfig \in TenantConfigs \cup {Absent} /\ apiKey \in {"none", "live", "revoked"}
  /\ role \in Roles \cup {Absent} /\ adding \in Roles \cup {"no"}

\* A query's answer held at its snapshot or has ended since.
ReadHeld == \A r \in Requests :
  /\ step[r] # "idle" => key[r] \in Lookups
  /\ step[r] = "set" =>
       /\ readAt[r] <= now /\ now - readAt[r] <= MaxLookup
       /\ \/ Lookup(key[r]) = got[r]
          \/ got[r] \in DOMAIN ended[key[r]] /\ readAt[r] <= ended[key[r]][got[r]]

\* An entry's answer holds, or its end bounds the entry's expiry.
EntryHeld == \A k \in DOMAIN entries :
  LET a == entries[k].answer
      e == entries[k].expires
  IN  /\ e <= now + Ttl(k, a)
      /\ \/ Lookup(k) = a
         \/ a \in DOMAIN ended[k] /\ e <= ended[k][a] + Ttl(k, a) + MaxLookup

EndedTyped ==
  /\ ended \in [Lookups -> UNION {[D -> 0..MaxTime] : D \in SUBSET Answers}]
  /\ \A k \in Lookups : \A a \in DOMAIN ended[k] : ended[k][a] <= now

IndInv == TypeOK /\ EndedTyped /\ ReadHeld /\ EntryHeld

\* A TTL is a number of ticks.
LEMMA TtlType ==
  \A k, a : Ttl(k, a) \in Nat \ {0}
<1>1. TTL \div 4 \in Nat
  BY CacheAssumption
<1>2. NegTTL \in Nat \ {0}
  BY <1>1, CacheAssumption DEF NegTTL
<1> QED
  BY <1>2, CacheAssumption, Zenon DEF Ttl

\* What the store answers is an answer.
LEMMA LookupType ==
  ASSUME TablesOK, NEW k \in Lookups
  PROVE  Lookup(k) \in Answers
BY CacheAssumption, Zenon DEF TablesOK, Lookup, Answers

\* So is what it answers after a step.
LEMMA LookupTypeNext ==
  ASSUME TablesOK', NEW k \in Lookups
  PROVE  Lookup(k)' \in Answers
BY CacheAssumption, Zenon DEF TablesOK, Lookup, Answers

\* The cache is empty at first, and nobody is reading.
LEMMA IndInit == Init => IndInv
<1> SUFFICES ASSUME Init PROVE IndInv
  OBVIOUS
<1> USE DEF Init
<1>1. DOMAIN entries = {}
  OBVIOUS
<1>2. \A k \in Lookups : DOMAIN ended[k] = {}
  OBVIOUS
<1>3. TypeOK
  BY <1>1, <1>2, CacheAssumption DEF TypeOK, Answers
<1>4. [a \in {} |-> 0] \in [{} -> 0..MaxTime]
  OBVIOUS
<1>5. [a \in {} |-> 0] \in UNION {[D -> 0..MaxTime] : D \in SUBSET Answers}
  BY <1>4, Zenon
<1>6. EndedTyped
  BY <1>2, <1>5, Zenon DEF EndedTyped
<1>7. ReadHeld /\ EntryHeld
  BY <1>1, Zenon DEF ReadHeld, EntryHeld
<1> QED
  BY <1>3, <1>6, <1>7, Zenon DEF IndInv

\* What every operator command does: it changes the tables, and notes the end
\* of the answers it changes.
LEMMA OperatorStep ==
  ASSUME TypeOK, Operator
  PROVE  Change /\ TablesOK'
<1> USE DEF TypeOK, TablesOK
<1>1. ASSUME NEW c \in TenantConfigs, CreateTenant(c) \/ UpsertConfig(c) PROVE Change /\ TablesOK'
  BY <1>1, Zenon DEF CreateTenant, UpsertConfig
<1>2. ASSUME CreateAPIKey \/ RevokeAPIKey PROVE Change /\ TablesOK'
  BY <1>2, Zenon DEF CreateAPIKey, RevokeAPIKey
<1>3. ASSUME NEW r \in Roles, AddMember(r) PROVE Change /\ TablesOK'
  BY <1>3, Zenon DEF AddMember
<1>4. ASSUME ChangeRole \/ RemoveMember PROVE Change /\ TablesOK'
  BY <1>4, Zenon DEF ChangeRole, RemoveMember
<1> QED
  BY <1>1, <1>2, <1>3, <1>4, Zenon DEF Operator

\* Noting the end of an answer keeps the history well formed.
LEMMA NotedType ==
  ASSUME NEW k \in Lookups, EndedTyped, now \in 0..MaxTime, NEW a \in Answers
  PROVE  /\ Noted(ended[k], a) \in UNION {[D -> 0..MaxTime] : D \in SUBSET Answers}
         /\ DOMAIN Noted(ended[k], a) = DOMAIN ended[k] \cup {a}
         /\ \A b \in DOMAIN ended[k] \cup {a} :
              Noted(ended[k], a)[b] = IF b = a THEN now ELSE ended[k][b]
<1>1. PICK D \in SUBSET Answers : ended[k] \in [D -> 0..MaxTime]
  BY DEF EndedTyped
<1>2. Noted(ended[k], a) \in [D \cup {a} -> 0..MaxTime]
  BY <1>1, Zenon DEF Noted
<1>3. D \cup {a} \in SUBSET Answers
  BY <1>1, Zenon
<1> QED
  BY <1>1, <1>2, <1>3, Zenon DEF Noted

\* An operator command keeps every answer's bookkeeping: what it ends, it ends
\* now.
LEMMA ChangeInv ==
  ASSUME IndInv, Change, TablesOK'
  PROVE  IndInv'
<1> USE DEF IndInv
<1>1. /\ UNCHANGED <<now, entries, locals>>
      /\ ended' = [k \in Lookups |->
           IF Lookup(k)' = Lookup(k) THEN ended[k] ELSE Noted(ended[k], Lookup(k))]
  BY Zenon DEF Change
<1>2. TablesOK
  BY Zenon DEF TypeOK, TablesOK
<1>3. now \in 0..MaxTime
  BY Zenon DEF TypeOK
<1>4. \A k \in Lookups : Lookup(k) \in Answers
  BY <1>2, LookupType, Zenon
<1>5. ASSUME NEW k \in Lookups
      PROVE  /\ ended'[k] \in UNION {[D -> 0..MaxTime] : D \in SUBSET Answers}
             /\ DOMAIN ended[k] \subseteq DOMAIN ended'[k]
             /\ \A a \in DOMAIN ended[k] : ended[k][a] <= ended'[k][a]
             /\ \A a \in DOMAIN ended'[k] : ended'[k][a] <= now
             /\ Lookup(k)' # Lookup(k) =>
                  Lookup(k) \in DOMAIN ended'[k] /\ ended'[k][Lookup(k)] = now
  <2>1. CASE Lookup(k)' = Lookup(k)
    BY <1>1, <2>1, <1>3 DEF EndedTyped, TypeOK
  <2>2. CASE Lookup(k)' # Lookup(k)
    <3>1. ended'[k] = Noted(ended[k], Lookup(k))
      BY <1>1, <2>2, Zenon
    <3>2. Lookup(k) \in Answers
      BY <1>4, Zenon
    <3>3. /\ Noted(ended[k], Lookup(k)) \in UNION {[D -> 0..MaxTime] : D \in SUBSET Answers}
          /\ DOMAIN Noted(ended[k], Lookup(k)) = DOMAIN ended[k] \cup {Lookup(k)}
          /\ \A b \in DOMAIN ended[k] \cup {Lookup(k)} :
               Noted(ended[k], Lookup(k))[b] = IF b = Lookup(k) THEN now ELSE ended[k][b]
      BY <1>3, <3>2, NotedType, Zenon
    <3>4. \A a \in DOMAIN ended[k] : ended[k][a] \in 0..MaxTime /\ ended[k][a] <= now
      BY Zenon DEF EndedTyped, TypeOK
    <3> QED
      BY <1>3, <3>1, <3>3, <3>4
  <2> QED
    BY <2>1, <2>2, Zenon
<1>6. ended' \in [Lookups -> UNION {[D -> 0..MaxTime] : D \in SUBSET Answers}]
  <2>1. ended' = [k \in Lookups |-> ended'[k]]
    BY <1>1, Zenon
  <2> QED
    BY <2>1, <1>5, Zenon
<1>7. EndedTyped'
  BY <1>1, <1>5, <1>6, Zenon DEF EndedTyped
<1>8. \A k \in Lookups : DOMAIN ended'[k] \subseteq Answers
                     /\ \A a \in DOMAIN ended'[k] : ended'[k][a] \in 0..MaxTime
  BY <1>6
<1>9. operations' \in 0..MaxOperations
  BY CacheAssumption DEF TypeOK, Change
<1>10. TypeOK'
  BY <1>1, <1>8, <1>9, Zenon DEF TypeOK, TablesOK, locals
<1>11. ReadHeld'
  <2> SUFFICES ASSUME NEW r \in Requests
               PROVE  /\ step[r] # "idle" => key[r] \in Lookups
                      /\ step[r] = "set" =>
                           /\ readAt[r] <= now /\ now - readAt[r] <= MaxLookup
                           /\ \/ Lookup(key[r])' = got[r]
                              \/ got[r] \in DOMAIN ended'[key[r]] /\ readAt[r] <= ended'[key[r]][got[r]]
    BY <1>1, Zenon DEF ReadHeld, locals, Lookup
  <2>1. /\ step[r] # "idle" => key[r] \in Lookups
        /\ step[r] = "set" =>
             /\ readAt[r] <= now /\ now - readAt[r] <= MaxLookup
             /\ \/ Lookup(key[r]) = got[r]
                \/ got[r] \in DOMAIN ended[key[r]] /\ readAt[r] <= ended[key[r]][got[r]]
    BY Zenon DEF ReadHeld
  <2>2. SUFFICES ASSUME step[r] = "set"
                 PROVE  \/ Lookup(key[r])' = got[r]
                        \/ got[r] \in DOMAIN ended'[key[r]] /\ readAt[r] <= ended'[key[r]][got[r]]
    BY <2>1, Zenon
  <2>3. key[r] \in Lookups
    BY <2>1, <2>2, Zenon
  <2>4. readAt[r] \in 0..MaxTime /\ readAt[r] <= now
    BY <2>1, <2>2, Zenon DEF TypeOK
  <2>5. \A a \in DOMAIN ended[key[r]] : ended[key[r]][a] \in 0..MaxTime
    BY <2>3, Zenon DEF TypeOK
  <2>0. PICK k \in Lookups, a \in Answers : k = key[r] /\ a = got[r]
    BY <2>3, Zenon DEF TypeOK
  <2>6. /\ DOMAIN ended[k] \subseteq DOMAIN ended'[k]
        /\ \A b \in DOMAIN ended[k] : ended[k][b] <= ended'[k][b]
        /\ Lookup(k)' # Lookup(k) =>
             Lookup(k) \in DOMAIN ended'[k] /\ ended'[k][Lookup(k)] = now
    BY <1>5, Zenon
  <2>7. \A b \in DOMAIN ended'[k] : ended'[k][b] \in 0..MaxTime
    BY <1>8, Zenon
  <2>8. \/ Lookup(k) = a
        \/ a \in DOMAIN ended[k] /\ readAt[r] <= ended[k][a]
    BY <2>0, <2>1, <2>2, Zenon
  <2>9. \A b \in DOMAIN ended[k] : ended[k][b] \in 0..MaxTime
    BY <2>0, <2>5, Zenon
  <2>10. \/ Lookup(k)' = a
         \/ a \in DOMAIN ended'[k] /\ readAt[r] <= ended'[k][a]
    BY <2>4, <2>6, <2>7, <2>8, <2>9, <1>3
  <2> QED
    BY <1>1, <2>0, <2>10, Zenon DEF locals
<1>12. EntryHeld'
  <2> SUFFICES ASSUME NEW k \in DOMAIN entries
               PROVE  LET a == entries[k].answer
                          e == entries[k].expires
                      IN  /\ e <= now + Ttl(k, a)
                          /\ \/ Lookup(k)' = a
                             \/ a \in DOMAIN ended'[k] /\ e <= ended'[k][a] + Ttl(k, a) + MaxLookup
    BY <1>1, Zenon DEF EntryHeld, Ttl
  <2> DEFINE a == entries[k].answer
             e == entries[k].expires
  <2>1. /\ e <= now + Ttl(k, a)
        /\ \/ Lookup(k) = a
           \/ a \in DOMAIN ended[k] /\ e <= ended[k][a] + Ttl(k, a) + MaxLookup
    BY Zenon DEF EntryHeld
  <2>2. k \in Lookups /\ e \in Nat
    BY Zenon DEF TypeOK
  <2>3. Ttl(k, a) \in Nat
    BY TtlType, Zenon
  <2>4. \A b \in DOMAIN ended[k] : ended[k][b] \in 0..MaxTime
    BY <2>2, Zenon DEF TypeOK
  <2> HIDE DEF a, e
  <2>5. \/ Lookup(k)' = a
        \/ a \in DOMAIN ended'[k] /\ e <= ended'[k][a] + Ttl(k, a) + MaxLookup
    BY <2>1, <2>2, <2>3, <2>4, <1>3, <1>5, <1>8, CacheAssumption
  <2> QED
    BY <2>1, <2>5, Zenon DEF a, e
<1> QED
  BY <1>7, <1>10, <1>11, <1>12, Zenon

-----------------------------------------------------------------------------
(* The steps of the requests, the janitor and the clock leave the tables   *)
(* and the history of answers alone.                                       *)

\* A hit changes nothing.
LEMMA HitInv ==
  ASSUME IndInv, NEW r \in Requests, NEW k \in Lookups, Hit(r, k)
  PROVE  IndInv'
<1> USE DEF IndInv
<1>1. UNCHANGED <<tables, adding, operations, ended, now, entries, locals>>
  BY Zenon DEF Hit
<1>2. TypeOK' /\ EndedTyped'
  BY <1>1, Zenon DEF TypeOK, EndedTyped, tables, locals
<1>3. EntryHeld'
  BY <1>1, Zenon DEF EntryHeld, Lookup, Ttl, tables
<1>4. ReadHeld'
  BY <1>1, Zenon DEF ReadHeld, Lookup, tables, locals
<1> QED
  BY <1>2, <1>3, <1>4, Zenon

\* A miss begins a read now.
LEMMA MissInv ==
  ASSUME IndInv, NEW r \in Requests, NEW k \in Lookups, Miss(r, k)
  PROVE  IndInv'
<1> USE DEF IndInv
<1>1. /\ UNCHANGED <<tables, adding, operations, ended, now, entries, got, readAt>>
      /\ key' = [key EXCEPT ![r] = k] /\ step' = [step EXCEPT ![r] = "query"]
  BY Zenon DEF Miss
<1>2. TypeOK' /\ EndedTyped'
  BY <1>1, Zenon DEF TypeOK, EndedTyped, tables
<1>3. EntryHeld'
  BY <1>1, Zenon DEF EntryHeld, Lookup, Ttl, tables
<1>4. ReadHeld'
  BY <1>1, Zenon DEF ReadHeld, Lookup, TypeOK, tables
<1> QED
  BY <1>2, <1>3, <1>4, Zenon

\* What a query reads holds now, after the read began.
LEMMA QueryInv ==
  ASSUME IndInv, NEW r \in Requests, Query(r)
  PROVE  IndInv'
<1> USE DEF IndInv
<1>1. /\ UNCHANGED <<tables, adding, operations, ended, now, entries, key>>
      /\ step[r] = "query" /\ step' = [step EXCEPT ![r] = "set"]
      /\ got' = [got EXCEPT ![r] = Lookup(key[r])]
      /\ readAt' = [readAt EXCEPT ![r] = now]
  BY Zenon DEF Query
<1>2. key[r] \in Lookups
  BY <1>1, Zenon DEF ReadHeld
<1>3. Lookup(key[r]) \in Answers
  BY <1>2, LookupType, Zenon DEF TypeOK, TablesOK
<1>4. TypeOK' /\ EndedTyped'
  BY <1>1, <1>3, Zenon DEF TypeOK, EndedTyped, tables
<1>5. EntryHeld'
  BY <1>1, Zenon DEF EntryHeld, Lookup, Ttl, tables
<1>6. now \in Nat /\ now - now <= MaxLookup
  BY CacheAssumption DEF TypeOK
<1>7. \A k \in Lookups : Lookup(k)' = Lookup(k)
  BY <1>1, Zenon DEF Lookup, tables
<1>8. ReadHeld'
  <2> SUFFICES ASSUME NEW q \in Requests
               PROVE  (/\ step[q] # "idle" => key[q] \in Lookups
                       /\ step[q] = "set" =>
                            /\ readAt[q] <= now /\ now - readAt[q] <= MaxLookup
                            /\ \/ Lookup(key[q]) = got[q]
                               \/ got[q] \in DOMAIN ended[key[q]] /\ readAt[q] <= ended[key[q]][got[q]])'
    BY Zenon DEF ReadHeld
  <2>1. CASE q = r
    BY <1>1, <1>2, <1>6, <1>7, <2>1 DEF TypeOK
  <2>2. CASE q # r
    <3>1. step'[q] = step[q] /\ got'[q] = got[q] /\ readAt'[q] = readAt[q] /\ key'[q] = key[q]
      BY <1>1, <2>2, Zenon DEF TypeOK
    <3> QED
      BY <1>1, <1>7, <3>1, Zenon DEF ReadHeld
  <2> QED
    BY <2>1, <2>2, Zenon
<1> QED
  BY <1>4, <1>5, <1>8, Zenon

\* A request that is done reads nothing.
LEMMA DoneRead ==
  ASSUME IndInv, NEW r \in Requests, Done(r), UNCHANGED <<tables, ended, now>>
  PROVE  /\ ReadHeld'
         /\ key' \in [Requests -> Lookups \cup {"none"}] /\ got' \in [Requests -> Answers]
         /\ step' \in [Requests -> {"idle", "query", "set"}]
         /\ readAt' \in [Requests -> 0..MaxTime]
<1> USE DEF IndInv
<1>1. /\ key' \in [Requests -> Lookups \cup {"none"}] /\ got' \in [Requests -> Answers]
      /\ step' \in [Requests -> {"idle", "query", "set"}]
      /\ readAt' \in [Requests -> 0..MaxTime]
  BY CacheAssumption DEF Done, TypeOK, Answers
<1>2. step'[r] = "idle"
  BY Zenon DEF Done, TypeOK
<1>3. \A q \in Requests \ {r} : step'[q] = step[q] /\ got'[q] = got[q] /\ readAt'[q] = readAt[q]
                               /\ key'[q] = key[q]
  BY Zenon DEF Done, TypeOK
<1>4. \A k \in Lookups : Lookup(k)' = Lookup(k)
  BY Zenon DEF Lookup, tables
<1>5. ReadHeld'
  <2> SUFFICES ASSUME NEW q \in Requests
               PROVE  /\ step'[q] # "idle" => key'[q] \in Lookups
                      /\ step'[q] = "set" =>
                           /\ readAt'[q] <= now' /\ now' - readAt'[q] <= MaxLookup
                           /\ \/ Lookup(key[q])' = got'[q]
                              \/ got'[q] \in DOMAIN ended'[key'[q]] /\ readAt'[q] <= ended'[key'[q]][got'[q]]
    BY Zenon DEF ReadHeld
  <2>1. CASE q = r
    BY <1>2, <2>1, Zenon
  <2>2. CASE q # r
    BY <1>3, <1>4, <2>2, Zenon DEF ReadHeld
  <2> QED
    BY <2>1, <2>2, Zenon
<1> QED
  BY <1>1, <1>5, Zenon

\* A failed query leaves no entry.
LEMMA QueryFailsInv ==
  ASSUME IndInv, NEW r \in Requests, QueryFails(r)
  PROVE  IndInv'
<1>1. Done(r) /\ UNCHANGED <<tables, adding, operations, ended, now, entries>>
  BY Zenon DEF QueryFails
<1>2. /\ ReadHeld'
      /\ key' \in [Requests -> Lookups \cup {"none"}] /\ got' \in [Requests -> Answers]
      /\ step' \in [Requests -> {"idle", "query", "set"}]
      /\ readAt' \in [Requests -> 0..MaxTime]
  BY <1>1, DoneRead, Zenon
<1>3. TypeOK' /\ EndedTyped'
  BY <1>1, <1>2, Zenon DEF IndInv, TypeOK, EndedTyped, tables
<1>4. EntryHeld'
  BY <1>1, ZenonT(30) DEF IndInv, EntryHeld, Lookup, Ttl, tables
<1> QED
  BY <1>2, <1>3, <1>4, Zenon DEF IndInv

\* An entry expires a TTL after an answer that held when the read was under way.
LEMMA SetInv ==
  ASSUME IndInv, NEW r \in Requests, Set(r)
  PROVE  IndInv'
<1> USE DEF IndInv
<1>1. /\ Done(r) /\ UNCHANGED <<tables, adding, operations, ended, now>> /\ step[r] = "set"
      /\ entries' = [k \in DOMAIN entries \cup {key[r]} |->
                       IF k = key[r] THEN Entry(k, got[r]) ELSE entries[k]]
  BY Zenon DEF Set
<1>2. /\ ReadHeld'
      /\ key' \in [Requests -> Lookups \cup {"none"}] /\ got' \in [Requests -> Answers]
      /\ step' \in [Requests -> {"idle", "query", "set"}]
      /\ readAt' \in [Requests -> 0..MaxTime]
  BY <1>1, DoneRead, Zenon
<1>3. PICK j \in Lookups, a \in Answers, t \in 0..MaxTime : j = key[r] /\ a = got[r] /\ t = readAt[r]
  BY <1>1, Zenon DEF ReadHeld, TypeOK
<1>4. Ttl(j, a) \in Nat /\ now \in Nat /\ now + Ttl(j, a) \in Nat
  <2>1. Ttl(j, a) \in Nat /\ now \in Nat
    BY TtlType, TimeIsNat, Zenon DEF TypeOK
  <2> QED
    BY <2>1
<1>5. /\ DOMAIN entries' = DOMAIN entries \cup {j}
      /\ entries'[j].answer = a /\ entries'[j].expires = now + Ttl(j, a)
      /\ entries'[j] \in [answer : Answers, expires : Nat]
      /\ \A k \in DOMAIN entries \ {j} : entries'[k] = entries[k]
  BY <1>1, <1>3, <1>4, Zenon DEF Entry
<1>6. TypeOK' /\ EndedTyped'
  BY <1>1, <1>2, <1>5 DEF TypeOK, EndedTyped, tables
<1>7. \A k \in Lookups : Lookup(k)' = Lookup(k)
  BY <1>1, Zenon DEF Lookup, tables
<1>8. \A b \in DOMAIN ended[j] : ended[j][b] \in 0..MaxTime
  BY Zenon DEF TypeOK
<1>9. \/ Lookup(j) = a
      \/ a \in DOMAIN ended[j] /\ now + Ttl(j, a) <= ended[j][a] + Ttl(j, a) + MaxLookup
  <2>1. /\ t <= now /\ now - t <= MaxLookup
        /\ Lookup(j) = a \/ (a \in DOMAIN ended[j] /\ t <= ended[j][a])
    BY <1>1, <1>3, Zenon DEF ReadHeld
  <2>2. MaxLookup \in Nat /\ t \in Nat /\ \A b \in DOMAIN ended[j] : ended[j][b] \in Nat
    BY <1>8, TimeIsNat, CacheAssumption, Zenon
  <2> QED
    BY <1>4, <2>1, <2>2, ReadAge, Zenon
<1>10. EntryHeld'
  <2> SUFFICES ASSUME NEW k \in DOMAIN entries'
               PROVE  LET b == entries'[k].answer
                          e == entries'[k].expires
                      IN  /\ e <= now + Ttl(k, b)
                          /\ \/ Lookup(k)' = b
                             \/ b \in DOMAIN ended[k] /\ e <= ended[k][b] + Ttl(k, b) + MaxLookup
    BY <1>1, Zenon DEF EntryHeld, Ttl
  <2>1. CASE k = j
    BY <1>4, <1>5, <1>7, <1>9, <2>1
  <2>2. CASE k # j
    <3>1. k \in DOMAIN entries /\ entries'[k] = entries[k]
      BY <1>5, <2>2, Zenon
    <3>2. k \in Lookups
      BY <3>1, Zenon DEF TypeOK
    <3> QED
      BY <3>1, <3>2, <1>7, Zenon DEF EntryHeld
  <2> QED
    BY <2>1, <2>2, Zenon
<1> QED
  BY <1>2, <1>6, <1>10, Zenon

\* The janitor only takes entries away.
LEMMA JanitorInv ==
  ASSUME IndInv, Janitor
  PROVE  IndInv'
<1> USE DEF IndInv
<1>1. /\ UNCHANGED <<tables, adding, operations, ended, now, locals>>
      /\ DOMAIN entries' \subseteq DOMAIN entries
      /\ \A k \in DOMAIN entries' : entries'[k] = entries[k]
  BY Zenon DEF Janitor
<1>2. TypeOK' /\ EndedTyped'
  BY <1>1, Zenon DEF TypeOK, EndedTyped, tables, locals
<1>3. EntryHeld'
  BY <1>1, Zenon DEF EntryHeld, Lookup, Ttl, tables
<1>4. ReadHeld'
  BY <1>1, Zenon DEF ReadHeld, Lookup, tables, locals
<1> QED
  BY <1>2, <1>3, <1>4, Zenon

\* The clock stands while a read would outlast its bound.
LEMMA TickInv ==
  ASSUME IndInv, Tick
  PROVE  IndInv'
<1> USE DEF IndInv
<1>1. /\ UNCHANGED <<tables, adding, operations, ended, entries, locals>>
      /\ now' = now + 1 /\ now' \in 0..MaxTime /\ now \in Nat
      /\ \A r \in Requests : step[r] = "set" => now - readAt[r] < MaxLookup
  BY CacheAssumption DEF Tick, TypeOK
<1>2. TypeOK' /\ EndedTyped'
  BY <1>1 DEF TypeOK, EndedTyped, tables, locals
<1>3. \A k \in Lookups : Lookup(k)' = Lookup(k)
  BY <1>1, Zenon DEF Lookup, tables
<1>4. EntryHeld'
  <2> SUFFICES ASSUME NEW k \in DOMAIN entries
               PROVE  /\ entries[k].expires <= now' + Ttl(k, entries[k].answer)
                      /\ \/ Lookup(k)' = entries[k].answer
                         \/ /\ entries[k].answer \in DOMAIN ended[k]
                            /\ entries[k].expires
                                 <= ended[k][entries[k].answer] + Ttl(k, entries[k].answer) + MaxLookup
    BY <1>1, Zenon DEF EntryHeld, Ttl
  <2>1. entries[k].expires \in Nat /\ Ttl(k, entries[k].answer) \in Nat /\ k \in Lookups
    BY TtlType, Zenon DEF TypeOK
  <2> QED
    BY <1>1, <1>3, <2>1 DEF EntryHeld
<1>5. ReadHeld'
  <2> SUFFICES ASSUME NEW r \in Requests
               PROVE  /\ step[r] # "idle" => key[r] \in Lookups
                      /\ step[r] = "set" =>
                           /\ readAt[r] <= now' /\ now' - readAt[r] <= MaxLookup
                           /\ \/ Lookup(key[r]) = got[r]
                              \/ got[r] \in DOMAIN ended[key[r]] /\ readAt[r] <= ended[key[r]][got[r]]
    BY <1>1, Zenon DEF ReadHeld, Lookup, tables, locals
  <2>1. readAt[r] \in Nat
    BY DEF TypeOK
  <2>2. /\ step[r] # "idle" => key[r] \in Lookups
        /\ step[r] = "set" =>
             /\ readAt[r] <= now /\ now - readAt[r] <= MaxLookup
             /\ \/ Lookup(key[r]) = got[r]
                \/ got[r] \in DOMAIN ended[key[r]] /\ readAt[r] <= ended[key[r]][got[r]]
    BY Zenon DEF ReadHeld
  <2>3. step[r] = "set" => readAt[r] <= now' /\ now' - readAt[r] <= MaxLookup
    BY <1>1, <2>1, <2>2, CacheAssumption
  <2> QED
    BY <2>2, <2>3, Zenon
<1> QED
  BY <1>2, <1>4, <1>5, Zenon

\* Every step preserves the invariant.
LEMMA IndNext == IndInv /\ [Next]_tenantVars => IndInv'
<1> SUFFICES ASSUME IndInv, [Next]_tenantVars PROVE IndInv'
  OBVIOUS
<1>1. CASE Operator
  BY <1>1, OperatorStep, ChangeInv, Zenon DEF IndInv
<1>2. ASSUME NEW r \in Requests, Resolve(r) PROVE IndInv'
  BY <1>2, HitInv, MissInv, Zenon DEF Resolve
<1>3. ASSUME NEW r \in Requests, Query(r) \/ QueryFails(r) \/ Set(r) PROVE IndInv'
  BY <1>3, QueryInv, QueryFailsInv, SetInv, Zenon
<1>4. CASE Janitor \/ Tick
  BY <1>4, JanitorInv, TickInv, Zenon
<1>5. CASE UNCHANGED tenantVars
  BY <1>5, ZenonT(30) DEF IndInv, TypeOK, EndedTyped, ReadHeld, EntryHeld, Lookup, Ttl, tenantVars, tables, locals
<1> QED
  BY <1>1, <1>2, <1>3, <1>4, <1>5, Zenon DEF Next

\* The types, and the bookkeeping from snapshot to expiry, hold in every
\* reachable state of the cache.
THEOREM CacheInvariance == Spec => []IndInv
<1> QED
  BY IndInit, IndNext, PTL DEF Spec
-----------------------------------------------------------------------------
(* Refinement.                                                             *)

\* The bound of the abstract cache.
LEMMA StalenessIs ==
  ASSUME NEW k \in Lookups, NEW a \in Answers
  PROVE  Staleness[k][a] = Ttl(k, a) + MaxLookup
BY Zenon DEF Staleness, Ttl

\* The initial states are initial states of BoundedStaleness.
LEMMA RefineInit == Init => Freshness!Init
<1> SUFFICES ASSUME Init PROVE Freshness!Init
  OBVIOUS
<1>1. TablesOK
  BY Zenon DEF Init, TablesOK
<1>2. Truth \in [Lookups -> Answers]
  BY <1>1, LookupType, Zenon DEF Truth
<1> QED
  BY <1>2, Zenon DEF Init, Unanswered, Freshness!NoAnswer, Freshness!Init

\* An operator command is a Change.
LEMMA RefineChange ==
  ASSUME IndInv, Operator
  PROVE  Freshness!Change
<1>1. Change /\ TablesOK'
  BY OperatorStep, Zenon DEF IndInv
<1>2. Truth' \in [Lookups -> Answers]
  BY <1>1, LookupTypeNext, Zenon DEF Truth
<1>3. ended' = [k \in Lookups |->
         IF Truth'[k] = Truth[k] THEN ended[k] ELSE Freshness!Noted(ended[k], Truth[k], now)]
  BY <1>1, Zenon DEF Change, Truth, Noted, Freshness!Noted
<1> QED
  BY <1>1, <1>2, <1>3, Zenon DEF Change, Silent, Unanswered, Freshness!NoAnswer, Freshness!Change

\* An answer that held recently enough is a Serve.
LEMMA RefineServe ==
  ASSUME IndInv, NEW k \in Lookups, NEW a \in Answers,
         \/ Lookup(k) = a
         \/ a \in DOMAIN ended[k] /\ now - ended[k][a] < Ttl(k, a) + MaxLookup,
         served' = [key |-> k, answer |-> a],
         UNCHANGED <<tables, ended, now>>
  PROVE  Freshness!Serve(k, a)
<1>1. Truth[k] = Lookup(k)
  BY Zenon DEF Truth
<1>2. Freshness!HeldWithin(k, a, Staleness[k][a])
  BY <1>1, StalenessIs, Zenon DEF Freshness!HeldWithin
<1>3. Truth' = Truth
  BY DEF Truth, Lookup, tables
<1> QED
  BY <1>2, <1>3, Zenon DEF Freshness!Serve

\* A hit is a Serve.
LEMMA RefineHit ==
  ASSUME IndInv, NEW r \in Requests, NEW k \in Lookups, Hit(r, k)
  PROVE  \E a \in Answers : Freshness!Serve(k, a)
<1>1. PICK a \in Answers, e \in Nat : a = entries[k].answer /\ e = entries[k].expires
  BY Zenon DEF IndInv, TypeOK, Hit, Fresh
<1>2. /\ k \in DOMAIN entries /\ now < e
      /\ served' = [key |-> k, answer |-> a] /\ UNCHANGED <<tables, ended, now>>
  BY <1>1, Zenon DEF Hit, Fresh
<1>3. \/ Lookup(k) = a
      \/ a \in DOMAIN ended[k] /\ e <= ended[k][a] + Ttl(k, a) + MaxLookup
  BY <1>1, <1>2, Zenon DEF IndInv, EntryHeld
<1>4. \/ Lookup(k) = a
      \/ a \in DOMAIN ended[k] /\ now - ended[k][a] < Ttl(k, a) + MaxLookup
  <2>1. now \in Nat /\ \A b \in DOMAIN ended[k] : ended[k][b] \in Nat
    BY TimeIsNat, Zenon DEF IndInv, TypeOK
  <2>2. Ttl(k, a) + MaxLookup \in Nat
    BY TtlType, CacheAssumption
  <2>3. ended[k][a] + Ttl(k, a) + MaxLookup = ended[k][a] + (Ttl(k, a) + MaxLookup)
        \/ a \notin DOMAIN ended[k]
    BY <2>1, TtlType, CacheAssumption
  <2> QED
    BY <1>2, <1>3, <2>1, <2>2, <2>3, EntryAge, Zenon
<1> QED
  BY <1>2, <1>4, RefineServe, Zenon

\* So is the answer to a miss.
LEMMA RefineSet ==
  ASSUME IndInv, NEW r \in Requests, Set(r)
  PROVE  \E k \in Lookups, a \in Answers : Freshness!Serve(k, a)
<1>1. PICK k \in Lookups, a \in Answers, t \in Nat : k = key[r] /\ a = got[r] /\ t = readAt[r]
  <2>1. key[r] \in Lookups
    BY Zenon DEF IndInv, ReadHeld, Set
  <2>2. got[r] \in Answers /\ readAt[r] \in Nat
    BY TimeIsNat, Zenon DEF IndInv, TypeOK
  <2> QED
    BY <2>1, <2>2, Zenon
<1>2. served' = [key |-> k, answer |-> a] /\ UNCHANGED <<tables, ended, now>>
  BY <1>1, Zenon DEF Set
<1>3. /\ t <= now /\ now - t <= MaxLookup
      /\ Lookup(k) = a \/ (a \in DOMAIN ended[k] /\ t <= ended[k][a])
  BY <1>1, Zenon DEF IndInv, ReadHeld, Set
<1>4. \/ Lookup(k) = a
      \/ a \in DOMAIN ended[k] /\ now - ended[k][a] < Ttl(k, a) + MaxLookup
  <2>1. now \in Nat /\ \A b \in DOMAIN ended[k] : ended[k][b] \in Nat
    BY TimeIsNat, Zenon DEF IndInv, TypeOK
  <2>2. Ttl(k, a) \in Nat /\ Ttl(k, a) # 0 /\ MaxLookup \in Nat
    BY TtlType, CacheAssumption, Zenon
  <2> QED
    BY <1>3, <2>1, <2>2, ReadAge, Zenon
<1> QED
  BY <1>2, <1>4, RefineServe, Zenon

\* Every step is a step of BoundedStaleness, or a stutter.
LEMMA RefineNext ==
  ASSUME IndInv, [Next]_tenantVars
  PROVE  [Freshness!Next]_(Freshness!vars)
<1>1. CASE Operator
  BY <1>1, RefineChange, Zenon DEF Freshness!Next
<1>2. ASSUME NEW r \in Requests, NEW k \in Lookups, Hit(r, k) PROVE Freshness!Next
  BY <1>2, RefineHit, Zenon DEF Freshness!Next
<1>3. ASSUME NEW r \in Requests, Set(r) PROVE Freshness!Next
  BY <1>3, RefineSet, Zenon DEF Freshness!Next
<1>4. ASSUME NEW r \in Requests, (\E k \in Lookups : Miss(r, k)) \/ Query(r) \/ QueryFails(r)
      PROVE  Freshness!Silent
  <2>1. Silent /\ UNCHANGED <<tables, ended, now>>
    BY <1>4, Zenon DEF Miss, Query, QueryFails
  <2>2. Truth' = Truth
    BY <2>1 DEF Truth, Lookup, tables
  <2> QED
    BY <2>1, <2>2, Zenon DEF Silent, Unanswered, Freshness!Silent, Freshness!NoAnswer
<1>5. CASE Janitor
  BY <1>5 DEF Janitor, Silent, Unanswered, Freshness!Silent, Freshness!NoAnswer, Freshness!Next, Truth, Lookup, tables
<1>6. CASE Tick
  BY <1>6 DEF Tick, Silent, Unanswered, Freshness!NoAnswer, Freshness!Next, Freshness!Tick, Truth, Lookup, tables
<1>7. CASE UNCHANGED tenantVars
  BY <1>7 DEF tenantVars, Freshness!vars, Truth, Lookup, tables
<1> QED
  BY <1>1, <1>2, <1>3, <1>4, <1>5, <1>6, <1>7, Zenon DEF Next, Resolve, Freshness!Next

\* Whatever concurrent misses, late answers, evictions and operator commands
\* do, every answer of the tenant cache held less than its TTL plus the
\* longest query ago: the cache implements BoundedStaleness.
THEOREM TenantCacheBoundedStaleness == Spec => RefinesBoundedStaleness
<1> QED
  BY RefineInit, RefineNext, CacheInvariance, PTL DEF Spec, RefinesBoundedStaleness, Freshness!Spec

-----------------------------------------------------------------------------
(* The rate limiter.                                                       *)

\* What a bucket has given and what it still holds never exceed its size and
\* what it has gained; a bucket that does not exist yet has given nothing.
Within(b, p, v, elapsed) ==
  /\ b.requests <= b.burst /\ b.requests + p <= b.burst + b.rps * elapsed
  /\ b.bytes <= b.byteBurst /\ b.bytes + v <= b.byteBurst + b.bps * elapsed

Ledger ==
  \A k \in BucketKeys :
    IF k \in DOMAIN buckets THEN Within(buckets[k], passed[k], volume[k], clock - since)
    ELSE passed[k] = 0 /\ volume[k] = 0

LimiterInv == LimiterTypeOK /\ Ledger

\* The ledger of one bucket: a full one owes nothing, a token or n bytes move
\* from what it holds to what it gave, and what it gave is bounded.
LEMMA WithinFull ==
  ASSUME NEW b, NEW d \in Nat, b.requests = b.burst, b.bytes = b.byteBurst,
         b.burst \in Nat, b.rps \in Nat, b.byteBurst \in Nat, b.bps \in Nat
  PROVE  Within(b, 0, 0, d)
<1>1. b.rps * d \in Nat /\ b.bps * d \in Nat
  OBVIOUS
<1> QED
  BY <1>1 DEF Within

\* What a bucket gains over a time is a natural number.
LEMMA RatesAreNat ==
  ASSUME NEW b \in Bucket, NEW d \in Nat
  PROVE  b.rps * d \in Nat /\ b.bps * d \in Nat
BY DEF Bucket

\* A granted request moves one token from the bucket to what was granted.
LEMMA WithinRequest ==
  ASSUME NEW b \in Bucket, NEW p \in Nat, NEW v, NEW d \in Nat, Within(b, p, v, d)
  PROVE  Within([b EXCEPT !.requests = @ - 1], p + 1, v, d)
BY RatesAreNat DEF Within, Bucket

\* Granted bytes move from the bucket to what was granted.
LEMMA WithinBytes ==
  ASSUME NEW b \in Bucket, NEW p, NEW v \in Nat, NEW d \in Nat, Within(b, p, v, d),
         NEW n \in Nat
  PROVE  Within([b EXCEPT !.bytes = @ - n], p, v + n, d)
BY RatesAreNat DEF Within, Bucket

\* The ledger bounds what was granted: a bucket never holds less than 0.
LEMMA WithinBounds ==
  ASSUME NEW b \in Bucket, NEW p \in Nat, NEW v \in Nat, NEW d \in Nat, Within(b, p, v, d)
  PROVE  p <= b.burst + b.rps * d /\ v <= b.byteBurst + b.bps * d
<1>1. /\ b.requests \in Nat /\ b.burst \in Nat /\ b.rps * d \in Nat
      /\ b.bytes \in Nat /\ b.byteBurst \in Nat /\ b.bps * d \in Nat
  BY DEF Bucket
<1> QED
  BY <1>1 DEF Within

\* A new bucket is a full one.
LEMMA NewBucketType ==
  ASSUME NEW l \in Limits
  PROVE  /\ NewBucket(l) \in Bucket
         /\ NewBucket(l).requests = NewBucket(l).burst
         /\ NewBucket(l).bytes = NewBucket(l).byteBurst
BY Zenon DEF NewBucket, Bucket, Limits, Fields

\* The limits of a tenant and a method are numbers, whoever sets them.
LEMMA LimitsOfType ==
  ASSUME settings \in [Tenants -> Settings], NEW t \in Tenants, NEW m \in Methods
  PROVE  LimitsOf(t, m) \in Limits
<1>1. BaseOf(m) \in Limits
  BY LimiterAssumption, Zenon DEF BaseOf
<1>2. settings[t] \in [Fields -> Nat \cup {Null}]
  BY LimiterAssumption, Zenon
<1>3. \A f \in Fields : settings[t][f] \in Nat \cup {Null} /\ BaseOf(m)[f] \in Nat
  BY <1>1, <1>2, Zenon DEF Limits
<1> QED
  BY <1>3, Zenon DEF LimitsOf, Limits

\* One more second is one more time the rate.
LEMMA OneMore ==
  ASSUME NEW r \in Nat, NEW d \in Nat
  PROVE  r * (d + 1) = r * d + r /\ r * d \in Nat
OBVIOUS

\* A second adds at most the rate to what a bucket holds.
LEMMA WithinRefilled ==
  ASSUME NEW b \in Bucket, NEW p \in Nat, NEW v \in Nat, NEW d \in Nat, Within(b, p, v, d)
  PROVE  Refilled(b) \in Bucket /\ Within(Refilled(b), p, v, d + 1)
<1> DEFINE rq == AtMost(b.requests + b.rps, b.burst)
           by == AtMost(b.bytes + b.bps, b.byteBurst)
<1>1. /\ b.requests \in Nat /\ b.burst \in Nat /\ b.rps \in Nat
      /\ b.bytes \in Nat /\ b.byteBurst \in Nat /\ b.bps \in Nat
  BY Zenon DEF Bucket
<1>2. /\ b.rps * (d + 1) = b.rps * d + b.rps /\ b.rps * d \in Nat
      /\ b.bps * (d + 1) = b.bps * d + b.bps /\ b.bps * d \in Nat
  BY <1>1, OneMore, Zenon
<1>3. Refilled(b) = [b EXCEPT !.requests = rq, !.bytes = by]
  BY Zenon DEF Refilled
<1>4. /\ rq \in Nat /\ rq <= b.burst /\ rq <= b.requests + b.rps
      /\ by \in Nat /\ by <= b.byteBurst /\ by <= b.bytes + b.bps
  BY <1>1 DEF AtMost
<1> HIDE DEF rq, by
<1>5. /\ Refilled(b) \in Bucket
      /\ Refilled(b).requests = rq /\ Refilled(b).bytes = by
      /\ Refilled(b).burst = b.burst /\ Refilled(b).rps = b.rps
      /\ Refilled(b).byteBurst = b.byteBurst /\ Refilled(b).bps = b.bps
  BY <1>3, <1>4, ZenonT(30) DEF Bucket
<1>6. rq + p <= b.burst + b.rps * (d + 1)
  <2>1. b.requests + p <= b.burst + b.rps * d
    BY Zenon DEF Within
  <2> QED
    BY <1>1, <1>2, <1>4, <2>1
<1>7. by + v <= b.byteBurst + b.bps * (d + 1)
  <2>1. b.bytes + v <= b.byteBurst + b.bps * d
    BY Zenon DEF Within
  <2> QED
    BY <1>1, <1>2, <1>4, <2>1
<1> QED
  BY <1>4, <1>5, <1>6, <1>7, Zenon DEF Within

\* A limiter without buckets has given nothing.
LEMMA LimiterInitial == LimiterInit => LimiterInv
<1> SUFFICES ASSUME LimiterInit PROVE LimiterInv
  OBVIOUS
<1>1. LimiterTypeOK
  <2>1. clock \in Nat /\ since \in 0..clock
    BY DEF LimiterInit
  <2>2. passed \in [BucketKeys -> Nat] /\ volume \in [BucketKeys -> Nat]
    BY Zenon DEF LimiterInit
  <2>3. DOMAIN buckets = {}
    BY Zenon DEF LimiterInit
  <2> QED
    BY <2>1, <2>2, <2>3, Zenon DEF LimiterInit, LimiterTypeOK
<1>2. Ledger
  BY Zenon DEF LimiterInit, Ledger
<1> QED
  BY <1>1, <1>2, Zenon DEF LimiterInv

\* bucketFor makes a full bucket or leaves the one there is.
LEMMA BucketForInv ==
  ASSUME LimiterInv, NEW c \in Callers, NEW t \in Tenants, NEW m \in Methods, NEW n \in Sizes,
         BucketFor(c, t, m, n)
  PROVE  LimiterInv'
<1> DEFINE k0 == <<t, m>>
           nb == NewBucket(LimitsOf(t, m))
<1>0. k0 \in BucketKeys
  BY Zenon DEF BucketKeys
<1>1. /\ nb \in Bucket /\ nb.requests = nb.burst /\ nb.bytes = nb.byteBurst
  BY LimitsOfType, NewBucketType, Zenon DEF LimiterInv, LimiterTypeOK
<1>2. UNCHANGED <<clock, settings, since, passed, volume>>
  BY Zenon DEF BucketFor
<1> HIDE DEF nb
<1>3. CASE k0 \in DOMAIN buckets
  <2>1. buckets' = buckets
    BY <1>3, Zenon DEF BucketFor, Found
  <2>2. LimiterTypeOK'
    BY <1>2, <1>3, <2>1, Zenon DEF BucketFor, LimiterInv, LimiterTypeOK
  <2>3. Ledger'
    BY <1>2, <2>1, Zenon DEF LimiterInv, Ledger
  <2> QED
    BY <2>2, <2>3, Zenon DEF LimiterInv
<1>4. CASE k0 \notin DOMAIN buckets
  <2>1. buckets' = [k \in DOMAIN buckets \cup {k0} |-> IF k = k0 THEN nb ELSE buckets[k]]
    BY <1>4, Zenon DEF BucketFor, Found, nb
  <2>2. /\ DOMAIN buckets' = DOMAIN buckets \cup {k0}
        /\ buckets'[k0] = nb
        /\ \A k \in DOMAIN buckets : buckets'[k] = buckets[k]
    BY <2>1, <1>4, Zenon
  <2>3. LimiterTypeOK'
    <3>1. \A k \in DOMAIN buckets' : buckets'[k] \in Bucket
      BY <2>2, <1>1, Zenon DEF LimiterInv, LimiterTypeOK
    <3>2. DOMAIN buckets' \subseteq BucketKeys
      BY <2>2, <1>0, Zenon DEF LimiterInv, LimiterTypeOK
    <3>3. call' \in [Callers -> {Idle} \cup
            [at : {"requests", "bytes"}, key : DOMAIN buckets', size : Sizes]]
      <4>1. [at |-> "requests", key |-> k0, size |-> n]
              \in [at : {"requests", "bytes"}, key : DOMAIN buckets', size : Sizes]
        BY <2>2, Zenon
      <4>2. \A x \in [at : {"requests", "bytes"}, key : DOMAIN buckets, size : Sizes] :
              x \in [at : {"requests", "bytes"}, key : DOMAIN buckets', size : Sizes]
        BY <2>2, Zenon
      <4> QED
        BY <4>1, <4>2, Zenon DEF BucketFor, LimiterInv, LimiterTypeOK
    <3> QED
      BY <1>2, <3>1, <3>2, <3>3, Zenon DEF LimiterInv, LimiterTypeOK
  <2>4. Ledger'
    <3> SUFFICES ASSUME NEW k \in BucketKeys
                 PROVE  IF k \in DOMAIN buckets'
                        THEN Within(buckets'[k], passed[k], volume[k], clock - since)
                        ELSE passed[k] = 0 /\ volume[k] = 0
      BY <1>2, Zenon DEF Ledger
    <3>1. CASE k = k0
      <4>1. passed[k] = 0 /\ volume[k] = 0
        BY <3>1, <1>4, Zenon DEF LimiterInv, Ledger
      <4>2. clock - since \in Nat
        BY DEF LimiterInv, LimiterTypeOK
      <4>3. nb.burst \in Nat /\ nb.rps \in Nat /\ nb.byteBurst \in Nat /\ nb.bps \in Nat
        BY <1>1, Zenon DEF Bucket
      <4>4. Within(nb, 0, 0, clock - since)
        BY <4>2, <4>3, <1>1, WithinFull, Zenon
      <4> QED
        BY <3>1, <2>2, <4>1, <4>4, Zenon
    <3>2. CASE k # k0
      BY <3>2, <2>2, Zenon DEF LimiterInv, Ledger
    <3> QED
      BY <3>1, <3>2, Zenon
  <2> QED
    BY <2>3, <2>4, Zenon DEF LimiterInv
<1> QED
  BY <1>3, <1>4, Zenon

\* A caller moves on and no bucket comes or goes: the types are kept.
LEMMA CallType ==
  ASSUME LimiterTypeOK, NEW c \in Callers, DOMAIN buckets' = DOMAIN buckets,
         call' = [call EXCEPT ![c] = Idle] \/
           (call[c].at = "requests" /\ call' = [call EXCEPT ![c].at = "bytes"])
  PROVE  call' \in [Callers -> {Idle} \cup
           [at : {"requests", "bytes"}, key : DOMAIN buckets', size : Sizes]]
BY DEF LimiterTypeOK, Idle

\* A caller past bucketFor has a bucket.
LEMMA CallHasBucket ==
  ASSUME LimiterTypeOK, NEW c \in Callers, call[c].at \in {"requests", "bytes"}
  PROVE  /\ call[c].key \in DOMAIN buckets /\ call[c].key \in BucketKeys
         /\ buckets[call[c].key] \in Bucket /\ call[c].size \in Nat
<1>1. call[c] \in {Idle} \cup [at : {"requests", "bytes"}, key : DOMAIN buckets, size : Sizes]
  BY Zenon DEF LimiterTypeOK
<1>2. call[c] # Idle
  BY DEF Idle
<1>3. call[c].key \in DOMAIN buckets /\ call[c].size \in Sizes
  BY <1>1, <1>2, Zenon
<1> QED
  BY <1>3, LimiterAssumption, Zenon DEF LimiterTypeOK

\* A token given to a request is counted, and a refusal changes nothing.
LEMMA AllowRequestInv ==
  ASSUME LimiterInv, NEW c \in Callers, AllowRequest(c)
  PROVE  LimiterInv'
<1> DEFINE k0 == call[c].key
<1>1. /\ k0 \in DOMAIN buckets /\ k0 \in BucketKeys /\ buckets[k0] \in Bucket
  BY CallHasBucket, Zenon DEF AllowRequest, LimiterInv
<1>2. UNCHANGED <<clock, settings, since, volume>>
  BY Zenon DEF AllowRequest
<1> HIDE DEF k0
<1>3. CASE buckets[k0].requests >= 1
  <2>1. /\ buckets' = [buckets EXCEPT ![k0].requests = @ - 1]
        /\ passed' = [passed EXCEPT ![k0] = @ + 1]
        /\ call[c].at = "requests" /\ call' = [call EXCEPT ![c].at = "bytes"]
    BY <1>3, Zenon DEF AllowRequest, k0
  <2>2. /\ DOMAIN buckets' = DOMAIN buckets
        /\ buckets'[k0] = [buckets[k0] EXCEPT !.requests = @ - 1]
        /\ \A k \in DOMAIN buckets : k # k0 => buckets'[k] = buckets[k]
    BY <2>1, <1>1, Zenon
  <2>3. buckets'[k0] \in Bucket
    BY <2>2, <1>1, <1>3 DEF Bucket
  <2>4. passed' \in [BucketKeys -> Nat]
    BY <2>1, <1>1 DEF LimiterInv, LimiterTypeOK
  <2>5. LimiterTypeOK'
    <3>1. \A k \in DOMAIN buckets' : buckets'[k] \in Bucket
      BY <2>2, <2>3, Zenon DEF LimiterInv, LimiterTypeOK
    <3>2. call' \in [Callers -> {Idle} \cup
            [at : {"requests", "bytes"}, key : DOMAIN buckets', size : Sizes]]
      BY CallType, <2>1, <2>2, Zenon DEF LimiterInv
    <3> QED
      BY <1>2, <2>2, <2>4, <3>1, <3>2, Zenon DEF LimiterInv, LimiterTypeOK
  <2>6. Ledger'
    <3> SUFFICES ASSUME NEW k \in BucketKeys
                 PROVE  IF k \in DOMAIN buckets
                        THEN Within(buckets'[k], passed'[k], volume[k], clock - since)
                        ELSE passed'[k] = 0 /\ volume[k] = 0
      BY <1>2, <2>2, Zenon DEF Ledger
    <3>1. CASE k = k0
      <4>1. Within(buckets[k], passed[k], volume[k], clock - since)
        BY <3>1, <1>1, Zenon DEF LimiterInv, Ledger
      <4>2. passed[k] \in Nat /\ passed'[k] = passed[k] + 1
        BY <2>1 , <3>1, Zenon DEF LimiterInv, LimiterTypeOK
      <4>3. clock - since \in Nat
        BY DEF LimiterInv, LimiterTypeOK
      <4>4. buckets[k] \in Bucket /\ passed[k] \in Nat /\ volume[k] \in Nat
        BY <3>1, <1>1, Zenon DEF LimiterInv, LimiterTypeOK
      <4>5. Within([buckets[k] EXCEPT !.requests = @ - 1], passed[k] + 1, volume[k], clock - since)
        BY <1>1, <4>1, <4>3, <4>4, WithinRequest, Zenon
      <4> QED
        BY <3>1, <1>1, <2>2, <4>2, <4>5, Zenon
    <3>2. CASE k # k0
      <4>1. passed'[k] = passed[k]
        BY <3>2, <2>1, Zenon DEF LimiterInv, LimiterTypeOK
      <4> QED
        BY <3>2, <4>1, <2>2, Zenon DEF LimiterInv, Ledger
    <3> QED
      BY <3>1, <3>2, Zenon
  <2> QED
    BY <2>5, <2>6, Zenon DEF LimiterInv
<1>4. CASE ~ (buckets[k0].requests >= 1)
  <2>1. call' = [call EXCEPT ![c] = Idle] /\ UNCHANGED <<buckets, passed>>
    BY <1>4, Zenon DEF AllowRequest, k0
  <2>2. LimiterTypeOK'
    BY <1>2, <2>1, CallType, Zenon DEF LimiterInv, LimiterTypeOK
  <2>3. Ledger'
    BY <1>2, <2>1, Zenon DEF LimiterInv, Ledger
  <2> QED
    BY <2>2, <2>3, Zenon DEF LimiterInv
<1> QED
  BY <1>3, <1>4, Zenon

\* Bytes are given as a whole and counted, or not at all.
LEMMA AllowBytesInv ==
  ASSUME LimiterInv, NEW c \in Callers, AllowBytes(c)
  PROVE  LimiterInv'
<1> DEFINE k0 == call[c].key
           n == call[c].size
<1>1. /\ k0 \in DOMAIN buckets /\ k0 \in BucketKeys /\ buckets[k0] \in Bucket /\ n \in Nat
  BY CallHasBucket, Zenon DEF AllowBytes, LimiterInv
<1>2. UNCHANGED <<clock, settings, since, passed>> /\ call' = [call EXCEPT ![c] = Idle]
  BY Zenon DEF AllowBytes
<1> HIDE DEF k0, n
<1>3. CASE buckets[k0].bytes >= n
  <2>1. /\ buckets' = [buckets EXCEPT ![k0].bytes = @ - n]
        /\ volume' = [volume EXCEPT ![k0] = @ + n]
    BY <1>3, Zenon DEF AllowBytes, k0, n
  <2>2. /\ DOMAIN buckets' = DOMAIN buckets
        /\ buckets'[k0] = [buckets[k0] EXCEPT !.bytes = @ - n]
        /\ \A k \in DOMAIN buckets : k # k0 => buckets'[k] = buckets[k]
    BY <2>1, <1>1, Zenon
  <2>3. buckets'[k0] \in Bucket
    BY <2>2, <1>1, <1>3 DEF Bucket
  <2>4. volume' \in [BucketKeys -> Nat]
    BY <2>1, <1>1 DEF LimiterInv, LimiterTypeOK
  <2>5. LimiterTypeOK'
    <3>1. \A k \in DOMAIN buckets' : buckets'[k] \in Bucket
      BY <2>2, <2>3, Zenon DEF LimiterInv, LimiterTypeOK
    <3>2. call' \in [Callers -> {Idle} \cup
            [at : {"requests", "bytes"}, key : DOMAIN buckets', size : Sizes]]
      BY CallType, <1>2, <2>2, Zenon DEF LimiterInv
    <3> QED
      BY <1>2, <2>2, <2>4, <3>1, <3>2, Zenon DEF LimiterInv, LimiterTypeOK
  <2>6. Ledger'
    <3> SUFFICES ASSUME NEW k \in BucketKeys
                 PROVE  IF k \in DOMAIN buckets
                        THEN Within(buckets'[k], passed[k], volume'[k], clock - since)
                        ELSE passed[k] = 0 /\ volume'[k] = 0
      BY <1>2, <2>2, Zenon DEF Ledger
    <3>1. CASE k = k0
      <4>1. Within(buckets[k], passed[k], volume[k], clock - since)
        BY <3>1, <1>1, Zenon DEF LimiterInv, Ledger
      <4>2. volume[k] \in Nat /\ volume'[k] = volume[k] + n
        BY <2>1, <3>1, Zenon DEF LimiterInv, LimiterTypeOK
      <4>3. clock - since \in Nat
        BY DEF LimiterInv, LimiterTypeOK
      <4>4. buckets[k] \in Bucket /\ passed[k] \in Nat /\ volume[k] \in Nat
        BY <3>1, <1>1, Zenon DEF LimiterInv, LimiterTypeOK
      <4>5. Within([buckets[k] EXCEPT !.bytes = @ - n], passed[k], volume[k] + n, clock - since)
        BY <1>1, <4>1, <4>3, <4>4, WithinBytes, Zenon
      <4> QED
        BY <3>1, <1>1, <2>2, <4>2, <4>5, Zenon
    <3>2. CASE k # k0
      <4>1. volume'[k] = volume[k]
        BY <3>2, <2>1, Zenon DEF LimiterInv, LimiterTypeOK
      <4> QED
        BY <3>2, <4>1, <2>2, Zenon DEF LimiterInv, Ledger
    <3> QED
      BY <3>1, <3>2, Zenon
  <2> QED
    BY <2>5, <2>6, Zenon DEF LimiterInv
<1>4. CASE ~ (buckets[k0].bytes >= n)
  <2>1. UNCHANGED <<buckets, volume>>
    BY <1>4, Zenon DEF AllowBytes, k0, n
  <2>2. LimiterTypeOK'
    BY <1>2, <2>1, CallType, Zenon DEF LimiterInv, LimiterTypeOK
  <2>3. Ledger'
    BY <1>2, <2>1, Zenon DEF LimiterInv, Ledger
  <2> QED
    BY <2>2, <2>3, Zenon DEF LimiterInv
<1> QED
  BY <1>3, <1>4, Zenon

\* A second passes for every bucket at once.
LEMMA SecondInv ==
  ASSUME LimiterInv, SecondPasses
  PROVE  LimiterInv'
<1>1. /\ clock' = clock + 1 /\ UNCHANGED <<settings, call, since, passed, volume>>
      /\ DOMAIN buckets' = DOMAIN buckets
      /\ \A k \in DOMAIN buckets : buckets'[k] = Refilled(buckets[k])
  BY Zenon DEF SecondPasses
<1>2. clock \in Nat /\ since \in 0..clock
  BY Zenon DEF LimiterInv, LimiterTypeOK
<1>3. ASSUME NEW k \in DOMAIN buckets
      PROVE  /\ buckets'[k] \in Bucket
             /\ Within(buckets'[k], passed[k], volume[k], clock + 1 - since)
  <2>1. buckets[k] \in Bucket /\ k \in BucketKeys /\ passed[k] \in Nat /\ volume[k] \in Nat
    BY Zenon DEF LimiterInv, LimiterTypeOK
  <2>2. Within(buckets[k], passed[k], volume[k], clock - since)
    BY <2>1, Zenon DEF LimiterInv, Ledger
  <2>3. clock - since \in Nat /\ clock + 1 - since = clock - since + 1
    BY <1>2
  <2> QED
    BY <1>1, <2>1, <2>2, <2>3, WithinRefilled, Zenon
<1>4. LimiterTypeOK'
  <2>1. clock' \in Nat /\ since' \in 0..clock'
    BY <1>1, <1>2
  <2>2. \A k \in DOMAIN buckets' : buckets'[k] \in Bucket
    BY <1>1, <1>3, Zenon
  <2> QED
    BY <1>1, <2>1, <2>2, Zenon DEF LimiterInv, LimiterTypeOK
<1>5. Ledger'
  <2> SUFFICES ASSUME NEW k \in BucketKeys
               PROVE  IF k \in DOMAIN buckets'
                      THEN Within(buckets'[k], passed'[k], volume'[k], clock' - since')
                      ELSE passed'[k] = 0 /\ volume'[k] = 0
    BY Zenon DEF Ledger
  <2>1. CASE k \in DOMAIN buckets
    <3>1. /\ k \in DOMAIN buckets' /\ passed'[k] = passed[k] /\ volume'[k] = volume[k]
          /\ clock' - since' = clock + 1 - since
      BY <1>1, <1>2, <2>1
    <3> QED
      BY <1>3, <2>1, <3>1, Zenon
  <2>2. CASE k \notin DOMAIN buckets
    BY <1>1, <2>2, Zenon DEF LimiterInv, Ledger
  <2> QED
    BY <2>1, <2>2, Zenon
<1> QED
  BY <1>4, <1>5, Zenon DEF LimiterInv

\* At the start of a window a bucket holds its size at most.
LEMMA ObserveInv ==
  ASSUME LimiterInv, Observe
  PROVE  LimiterInv'
<1>1. /\ since' = clock /\ UNCHANGED <<clock, settings, buckets, call>>
      /\ passed' = [k \in BucketKeys |-> 0] /\ volume' = [k \in BucketKeys |-> 0]
  BY Zenon DEF Observe
<1>2. LimiterTypeOK'
  BY <1>1 DEF LimiterInv, LimiterTypeOK
<1>3. ASSUME NEW k \in DOMAIN buckets
      PROVE  Within(buckets[k], 0, 0, clock - clock)
  <2>1. buckets[k] \in Bucket /\ clock \in Nat
    BY Zenon DEF LimiterInv, LimiterTypeOK
  <2>2. buckets[k].requests <= buckets[k].burst /\ buckets[k].bytes <= buckets[k].byteBurst
    BY Zenon DEF LimiterInv, LimiterTypeOK, Ledger, Within
  <2>3. clock - clock = 0 /\ buckets[k].rps * 0 = 0 /\ buckets[k].bps * 0 = 0
    BY <2>1 DEF Bucket
  <2> QED
    BY <2>1, <2>2, <2>3 DEF Within, Bucket
<1>4. Ledger'
  BY <1>1, <1>3, Zenon DEF Ledger
<1> QED
  BY <1>2, <1>4, Zenon DEF LimiterInv

\* A changed override touches no bucket.
LEMMA OverrideInv ==
  ASSUME LimiterInv, NEW t \in Tenants, NEW s \in Settings, Override(t, s)
  PROVE  LimiterInv'
<1>1. LimiterTypeOK'
  BY Zenon DEF LimiterInv, LimiterTypeOK, Override
<1>2. Ledger'
  BY Zenon DEF LimiterInv, Ledger, Override
<1> QED
  BY <1>1, <1>2, Zenon DEF LimiterInv

\* Every step of the limiter keeps the ledger.
LEMMA LimiterStep == LimiterInv /\ [LimiterNext]_limiterVars => LimiterInv'
<1> SUFFICES ASSUME LimiterInv, [LimiterNext]_limiterVars PROVE LimiterInv'
  OBVIOUS
<1>1. ASSUME NEW c \in Callers, NEW t \in Tenants, NEW m \in Methods, NEW n \in Sizes,
             BucketFor(c, t, m, n)
      PROVE  LimiterInv'
  BY <1>1, BucketForInv, Zenon
<1>2. ASSUME NEW c \in Callers, AllowRequest(c) PROVE LimiterInv'
  BY <1>2, AllowRequestInv, Zenon
<1>3. ASSUME NEW c \in Callers, AllowBytes(c) PROVE LimiterInv'
  BY <1>3, AllowBytesInv, Zenon
<1>4. CASE SecondPasses
  BY <1>4, SecondInv, Zenon
<1>5. ASSUME NEW t \in Tenants, NEW s \in Settings, Override(t, s) PROVE LimiterInv'
  BY <1>5, OverrideInv, Zenon
<1>6. CASE Observe
  BY <1>6, ObserveInv, Zenon
<1>7. CASE UNCHANGED limiterVars
  BY <1>7, Zenon DEF limiterVars, LimiterInv, LimiterTypeOK, Ledger
<1> QED
  BY <1>1, <1>2, <1>3, <1>4, <1>5, <1>6, <1>7, Zenon DEF LimiterNext

\* The ledger implies the limits.
LEMMA LedgerLimits == LimiterInv => LimitsHold
<1> SUFFICES ASSUME LimiterInv, NEW k \in DOMAIN buckets
             PROVE  /\ passed[k] <= buckets[k].burst + buckets[k].rps * (clock - since)
                    /\ volume[k] <= buckets[k].byteBurst + buckets[k].bps * (clock - since)
  BY Zenon DEF LimitsHold
<1>1. k \in BucketKeys /\ buckets[k] \in Bucket /\ passed[k] \in Nat /\ volume[k] \in Nat
  BY Zenon DEF LimiterInv, LimiterTypeOK
<1>2. Within(buckets[k], passed[k], volume[k], clock - since)
  BY <1>1, Zenon DEF LimiterInv, Ledger
<1>3. clock - since \in Nat
  BY DEF LimiterInv, LimiterTypeOK
<1> QED
  BY <1>1, <1>2, <1>3, WithinBounds, Zenon

\* Allow keeps every tenant within its limits over any window of time,
\* whatever the limits, the callers and the moments they come in.
THEOREM LimitsAlwaysHold == LimiterSpec => []LimitsHold
<1>1. LimiterInit => LimiterInv
  BY LimiterInitial, Zenon
<1>2. LimiterInv /\ [LimiterNext]_limiterVars => LimiterInv'
  BY LimiterStep, Zenon
<1>3. LimiterInv => LimitsHold
  BY LedgerLimits, Zenon
<1> QED
  BY <1>1, <1>2, <1>3, PTL DEF LimiterSpec
-----------------------------------------------------------------------------
(* The drain.                                                              *)

\* Nothing is in flight before the process serves, and HTTP alone is taken
\* once the drain has begun.
DrainInv ==
  /\ phase \in {"boot", "serving", "grpc", "http", "pool", "failed", "exited", "crashed"}
  /\ export \in [Exports -> {"none", "handling", "writing"}]
  /\ phase = "boot" => \A e \in Exports : export[e] = "none"
  /\ DrainIsClean

\* Every step of runPublic, of its handlers and of the watcher keeps it.
LEMMA DrainStep == DrainInv /\ [ServerNext]_serverVars => DrainInv'
<1> SUFFICES ASSUME DrainInv, [ServerNext]_serverVars PROVE DrainInv'
  OBVIOUS
<1> USE DEF Exports
<1>1. CASE UNCHANGED serverVars
  BY <1>1, Zenon DEF serverVars, DrainInv, DrainIsClean, Over
<1>2. CASE Load
  BY <1>2, Zenon DEF Load, DrainInv, DrainIsClean, Over
<1>3. CASE phase' = phase /\ export' = export
  BY <1>3, Zenon DEF DrainInv, DrainIsClean, Over
<1>4. ASSUME NEW e \in Exports, Accept(e) PROVE DrainInv'
  <2>1. export' = [export EXCEPT ![e] = "handling"] /\ phase' = phase /\ phase \in {"serving", "grpc"}
    BY <1>4, Zenon DEF Accept
  <2> QED BY <2>1 DEF DrainInv, DrainIsClean, Over
<1>5. ASSUME NEW e \in Exports, Write(e) PROVE DrainInv'
  <2>1. /\ export' = [export EXCEPT ![e] = "writing"] /\ phase' = phase
        /\ phase \in {"serving", "grpc", "http"} /\ export[e] = "handling"
    BY <1>5, Zenon DEF Write
  <2>2. phase = "http" => e \notin GrpcExports
    BY <2>1, Zenon DEF DrainInv, DrainIsClean
  <2> QED BY <2>1, <2>2 DEF DrainInv, DrainIsClean, Over
<1>6. ASSUME NEW e \in Exports, Reply(e) PROVE DrainInv'
  <2>1. export' = [export EXCEPT ![e] = "none"] /\ phase' = phase
    BY <1>6, Zenon DEF Reply
  <2> QED BY <2>1 DEF DrainInv, DrainIsClean, Over
<1>7. CASE BeginDrain \/ GracefulStop \/ Shutdown \/ ServeFails
  BY <1>7, Zenon DEF BeginDrain, GracefulStop, Shutdown, ServeFails, Goes, DrainInv, DrainIsClean, Over
<1>8. CASE ClosePool
  BY <1>8, Zenon DEF ClosePool, Goes, DrainInv, DrainIsClean, Over
<1>9. CASE \/ AddWatch \/ TakeEvent \/ ReadFile \/ Store \/ StopWatch \/ EndSave \/ Signal
           \/ \E c \in Contents : BeginSave(c) \/ RenameOver(c)
  BY <1>3, <1>9, Zenon DEF AddWatch, TakeEvent, ReadFile, Store, StopWatch, EndSave, Signal, BeginSave, RenameOver
<1> QED
  BY <1>1, <1>2, <1>4, <1>5, <1>6, <1>7, <1>8, <1>9, Zenon DEF ServerNext

\* For any number of exports and any content of the schema file: GracefulStop
\* returns with no gRPC call left and none comes later, and neither a drain
\* nor a crash leaves a write open behind pool.Close (runPublic).
THEOREM DrainAlwaysClean == ServerSpec => []DrainIsClean
<1>1. ServerInit => DrainInv
  BY Zenon DEF ServerInit, DrainInv, DrainIsClean, Over, Exports
<1>2. DrainInv => DrainIsClean
  BY Zenon DEF DrainInv
<1> QED
  BY <1>1, <1>2, DrainStep, PTL DEF ServerSpec
-----------------------------------------------------------------------------
(* The rollups of the command statistics.                                  *)

\* Multiplying by the length of a day keeps the order strictly.
LEMMA DaysApart ==
  ASSUME NEW p \in Nat, NEW q \in Nat, p < q
  PROVE  Day * p + Day <= Day * q
<1> DEFINE r == q - (p + 1)
<1>1. r \in Nat /\ q = p + 1 + r
  OBVIOUS
<1> HIDE DEF r
<1>2. Day * q = Day * p + Day + Day * r /\ Day * r \in Nat /\ Day * p \in Nat
  BY <1>1, RollupsAssumption
<1> QED
  BY <1>2, RollupsAssumption

\* An hour as days and the hours of the last one.
LEMMA DaySplit ==
  ASSUME NEW h \in Nat
  PROVE  /\ h % Day \in 0..(Day - 1) /\ h \div Day \in Nat
         /\ h = Day * (h \div Day) + (h % Day)
  BY RollupsAssumption

\* The start of the day of an hour: it is a day, and less than a day before.
LEMMA DayOfHour ==
  ASSUME NEW h \in Nat
  PROVE  /\ DayOf(h) \in Nat /\ DayOf(h) % Day = 0
         /\ DayOf(h) <= h /\ h < DayOf(h) + Day
<1> DEFINE p == h \div Day
           d == DayOf(h)
           r == d % Day
           q == d \div Day
<1>1. d = Day * p /\ p \in Nat /\ d \in Nat /\ d <= h /\ h < d + Day
  BY DaySplit, RollupsAssumption DEF DayOf
<1>2. d = Day * q + r /\ q \in Nat /\ r \in 0..(Day - 1)
  BY <1>1, DaySplit, Zenon
<1>3. r = 0
  <2> HIDE DEF p, d, r, q
  <2>1. CASE p < q
    BY <1>1, <1>2, <2>1, DaysApart, RollupsAssumption
  <2>2. CASE q < p
    BY <1>1, <1>2, <2>2, DaysApart, RollupsAssumption
  <2>3. CASE p = q
    BY <1>1, <1>2, <2>3, RollupsAssumption
  <2> QED
    BY <1>1, <1>2, <2>1, <2>2, <2>3
<1> QED
  BY <1>1, <1>3, Zenon

\* Two days are at least a day apart.
LEMMA NextDay ==
  ASSUME NEW d \in Nat, NEW e \in Nat, d % Day = 0, e % Day = 0, d < e
  PROVE  d + Day <= e
<1> DEFINE p == d \div Day
           q == e \div Day
<1>1. d = Day * p /\ e = Day * q /\ p \in Nat /\ q \in Nat
  BY DaySplit, RollupsAssumption
<1> HIDE DEF p, q
<1>2. CASE p < q
  BY <1>1, <1>2, DaysApart, Zenon
<1>3. CASE q < p
  BY <1>1, <1>3, DaysApart, RollupsAssumption
<1>4. CASE p = q
  BY <1>1, <1>4
<1> QED
  BY <1>1, <1>2, <1>3, <1>4

\* What is stored or counted was sent.
Sent ==
  /\ hour \in 0..MaxHour /\ hourlyMark \in Nat /\ dailyMark \in Days
  /\ hourlyRun \in Nat /\ dailyRun \in Nat
  /\ \A s \in sent : s.hour \in Nat
  /\ sent \subseteq Spans /\ traces \subseteq sent /\ hourly \subseteq sent /\ daily \subseteq sent

\* The jobs are at most Lag behind, and a watermark is where the last run of
\* its job put it, or above.
OnTime ==
  /\ hour <= hourlyRun + Lag /\ hour <= dailyRun + Lag
  /\ hourlyRun <= hourlyMark + 1 /\ dailyRun <= dailyMark + Day

\* What the hourly job may compute again is in the hypertable.
RawKept == \A s \in sent : s.hour + HourlyStart >= hour => s \in traces

\* What the daily job may compute again is in the hourly view.
HoursKept == \A s \in daily : s.hour + HourlyKeep >= hour => s \in HourView

RollupInv == Sent /\ OnTime /\ RawKept /\ HoursKept

\* The steps that leave the views and the jobs alone.
LEMMA StillRollups ==
  ASSUME RollupInv,
         UNCHANGED <<hour, traces, hourly, daily, hourlyMark, dailyMark, hourlyRun, dailyRun, sent>>
  PROVE  RollupInv' /\ DayView \subseteq DayView'
  BY Zenon DEF RollupInv, Sent, OnTime, RawKept, HoursKept, HourView, DayView, Days

\* Once the hourly view only grows, so does the daily view above its watermark.
LEMMA HoursGrow ==
  ASSUME HoursKept, HourView \subseteq HourView', UNCHANGED <<hour, daily, dailyMark>>
  PROVE  HoursKept' /\ DayView \subseteq DayView'
  BY Zenon DEF HoursKept, DayView

\* A late span only adds to the views.
LEMMA IngestCounts ==
  ASSUME RollupInv, NEW s \in Spans, Ingest(s)
  PROVE  RollupInv' /\ DayView \subseteq DayView'
<1>1. /\ traces' = traces \cup {s} /\ sent' = sent \cup {s}
      /\ UNCHANGED <<hour, hourly, daily, hourlyMark, dailyMark, hourlyRun, dailyRun>>
  BY Zenon DEF Ingest, StoreSpan
<1>2. Sent'
  BY <1>1, RollupsAssumption DEF RollupInv, Sent, Days
<1>3. OnTime' /\ RawKept'
  BY <1>1, Zenon DEF RollupInv, OnTime, RawKept
<1>4. HourView \subseteq HourView'
  BY <1>1, Zenon DEF HourView
<1> QED
  BY <1>1, <1>2, <1>3, <1>4, HoursGrow, Zenon DEF RollupInv

\* The hourly job counts again what it had counted, and what it moves its
\* watermark over.
LEMMA RefreshHourlyCounts ==
  ASSUME PoliciesFit, RollupInv, RefreshHourly
  PROVE  RollupInv' /\ DayView \subseteq DayView'
<1> DEFINE due == HourlyDue
<1>1. /\ hourly' = {s \in hourly : s.hour \notin due} \cup {s \in traces : s.hour \in due}
      /\ hourlyMark' = Later(hourlyMark, hour - 1) /\ hourlyRun' = hour
      /\ UNCHANGED <<hour, traces, daily, dailyMark, dailyRun, sent>>
  BY Zenon DEF RefreshHourly
<1>2. /\ hour \in Nat /\ hour <= MaxHour /\ hourlyMark \in Nat /\ hour <= hourlyMark + 1 + Lag
      /\ \A s \in sent : s.hour \in Nat
      /\ traces \subseteq sent /\ hourly \subseteq sent
  BY RollupsAssumption DEF RollupInv, Sent, OnTime
<1>3. /\ hourlyMark' \in {hourlyMark, hour - 1}
      /\ hourlyMark' >= hourlyMark /\ hourlyMark' >= hour - 1 /\ hourlyMark' \in Nat
  BY <1>1, <1>2 DEF Later
<1>4. HourView \subseteq HourView'
  <2> SUFFICES ASSUME NEW s \in HourView PROVE s \in HourView'
    OBVIOUS
  <2>1. s \in sent /\ s.hour \in Nat
    BY <1>2 DEF HourView
  <2>2. s.hour \in due <=> /\ s.hour + HourlyStart >= hour /\ s.hour < hour - 1
                           /\ s.hour >= hourlyMark \/ s.hour \in staleHours
    BY <1>2, <2>1, RollupsAssumption DEF HourlyDue
  <2>3. CASE s \in hourly /\ s.hour < hourlyMark
    <3>1. s \in hourly'
      BY <1>1, <2>1, <2>2, <2>3, Zenon DEF RollupInv, RawKept
    <3>2. s.hour < hourlyMark'
      BY <1>2, <1>3, <2>1, <2>3
    <3> QED
      BY <3>1, <3>2, Zenon DEF HourView
  <2>4. CASE s \in traces /\ s.hour >= hourlyMark
    <3>1. CASE s.hour >= hourlyMark'
      BY <1>1, <2>4, <3>1, Zenon DEF HourView
    <3>2. CASE s.hour < hourlyMark'
      <4>1. s.hour < hour - 1
        BY <1>2, <1>3, <2>1, <2>4, <3>2
      <4>2. s.hour \in due
        BY <1>2, <2>1, <2>2, <2>4, <4>1, RollupsAssumption DEF PoliciesFit
      <4> QED
        BY <1>1, <2>4, <3>2, <4>2, Zenon DEF HourView
    <3> QED
      BY <1>3, <2>1, <3>1, <3>2
  <2> QED
    BY <2>3, <2>4, Zenon DEF HourView
<1>5. Sent'
  BY <1>1, <1>3 DEF RollupInv, Sent, Days
<1>6. OnTime'
  BY <1>1, <1>2, <1>3, RollupsAssumption DEF RollupInv, OnTime
<1>7. RawKept'
  BY <1>1, Zenon DEF RollupInv, RawKept
<1> QED
  BY <1>1, <1>4, <1>5, <1>6, <1>7, HoursGrow, Zenon DEF RollupInv

\* Where the daily job puts its watermark: at the start of the last day that
\* has begun before the hour, unless it is there already.
LEMMA DailyMarkIs ==
  ASSUME Sent, NEW m, m = Later(dailyMark, DayOf(hour - 1))
  PROVE  /\ m \in Days /\ m \in Nat /\ m >= dailyMark /\ hour <= m + Day
         /\ m = dailyMark \/ m <= hour - 1
<1> DEFINE e == DayOf(hour - 1)
<1>1. hour \in Nat /\ hour <= MaxHour /\ Day \in Nat /\ Day >= 1 /\ MaxHour \in Nat
  BY RollupsAssumption DEF Sent
<1>2. dailyMark \in Days /\ dailyMark \in Nat
  BY <1>1 DEF Days, Sent
<1>3. CASE hour = 0
  <2>1. e < 0 /\ e \in Int
    BY <1>1, <1>3 DEF DayOf
  <2> QED
    BY <1>1, <1>2, <1>3, <2>1 DEF Later
<1>4. CASE hour # 0
  <2>1. /\ e \in Nat /\ e % Day = 0 /\ e <= hour - 1 /\ hour - 1 < e + Day
    BY <1>1, <1>4, DayOfHour
  <2> HIDE DEF e
  <2>2. e \in Days
    BY <1>1, <2>1 DEF Days
  <2>3. m = IF dailyMark >= e THEN dailyMark ELSE e
    BY Zenon DEF Later, e
  <2> QED
    BY <1>1, <1>2, <2>1, <2>2, <2>3
<1> QED
  BY <1>3, <1>4, Zenon

\* The daily job counts again what it had counted, and what it moves its
\* watermark over.
LEMMA RefreshDailyCounts ==
  ASSUME PoliciesFit, RollupInv, RefreshDaily
  PROVE  RollupInv' /\ DayView \subseteq DayView'
<1> DEFINE due == DailyDue
<1>1. /\ daily' = {s \in daily : DayOf(s.hour) \notin due} \cup
                  {s \in HourView : DayOf(s.hour) \in due}
      /\ dailyMark' = Later(dailyMark, DayOf(hour - 1)) /\ dailyRun' = hour
      /\ UNCHANGED <<hour, traces, hourly, hourlyMark, hourlyRun, sent>>
  BY Zenon DEF RefreshDaily
<1>2. /\ hour \in Nat /\ hour <= MaxHour /\ dailyMark \in Days /\ dailyMark \in Nat
      /\ hour <= dailyMark + Day + Lag /\ Day \in Nat /\ MaxHour \in Nat
      /\ \A s \in sent : s.hour \in Nat
      /\ traces \subseteq sent /\ hourly \subseteq sent /\ daily \subseteq sent
  BY RollupsAssumption DEF RollupInv, Sent, OnTime, Days
<1>3. /\ dailyMark' \in Days /\ dailyMark' \in Nat /\ dailyMark' >= dailyMark
      /\ hour <= dailyMark' + Day
      /\ dailyMark' = dailyMark \/ dailyMark' <= hour - 1
  BY <1>1, DailyMarkIs, Zenon DEF RollupInv
<1>4. HourView' = HourView /\ HourView \subseteq sent
  BY <1>1, <1>2, Zenon DEF HourView
<1>5. DayView \subseteq DayView'
  <2> SUFFICES ASSUME NEW s \in DayView PROVE s \in DayView'
    OBVIOUS
  <2> DEFINE d == DayOf(s.hour)
  <2>1. s \in sent /\ s.hour \in Nat
    BY <1>2, <1>4 DEF DayView
  <2>2. d \in Nat /\ d % Day = 0 /\ d <= s.hour
    BY <2>1, DayOfHour, Zenon
  <2> HIDE DEF d
  <2>3. d \in due <=> /\ d + DailyStart >= hour /\ d + Day <= hour - 1
                      /\ d >= dailyMark \/ d \in staleDays
    BY <1>2, <2>1, <2>2, RollupsAssumption DEF DailyDue, Days
  <2>4. CASE s \in daily /\ d < dailyMark
    <3>1. d \in due => s \in HourView
      BY <1>2, <2>1, <2>2, <2>3, <2>4, RollupsAssumption
         DEF PoliciesFit, RollupInv, HoursKept
    <3>2. s \in daily'
      BY <1>1, <2>4, <3>1, Zenon DEF d
    <3>3. d < dailyMark'
      BY <1>2, <1>3, <2>2, <2>4
    <3> QED
      BY <3>2, <3>3, Zenon DEF DayView, d
  <2>5. CASE s \in HourView /\ d >= dailyMark
    <3>1. CASE d >= dailyMark'
      BY <1>4, <2>5, <3>1, Zenon DEF DayView, d
    <3>2. CASE d < dailyMark'
      <4>1. dailyMark' % Day = 0 /\ dailyMark' <= hour - 1
        <5>1. dailyMark' % Day = 0
          BY <1>3, <1>2, Zenon DEF Days
        <5>2. dailyMark' # dailyMark
          BY <1>2, <1>3, <2>2, <2>5, <3>2
        <5> QED
          BY <1>3, <5>1, <5>2, Zenon
      <4>2. d + Day <= dailyMark'
        BY <1>3, <2>2, <3>2, <4>1, NextDay, Zenon
      <4>3. d \in due
        BY <1>2, <1>3, <2>2, <2>3, <2>5, <4>1, <4>2, RollupsAssumption DEF PoliciesFit
      <4> QED
        BY <1>1, <2>5, <3>2, <4>3, Zenon DEF DayView, d
    <3> QED
      BY <1>3, <2>2, <3>1, <3>2
  <2> QED
    BY <2>4, <2>5, Zenon DEF DayView, d
<1>6. Sent'
  BY <1>1, <1>2, <1>3, <1>4, Zenon DEF RollupInv, Sent, Days
<1>7. OnTime' /\ RawKept'
  <2>1. OnTime'
    <3>1. hour <= hourlyRun + Lag /\ hourlyRun <= hourlyMark + 1
      BY Zenon DEF RollupInv, OnTime
    <3>2. hour <= hour + Lag
      BY <1>2, RollupsAssumption
    <3> QED
      BY <1>1, <1>3, <3>1, <3>2, Zenon DEF OnTime
  <2>2. RawKept'
    BY <1>1, Zenon DEF RollupInv, RawKept
  <2> QED
    BY <2>1, <2>2, Zenon
<1>8. HoursKept'
  BY <1>1, <1>4, Zenon DEF RollupInv, HoursKept
<1> QED
  BY <1>5, <1>6, <1>7, <1>8, Zenon DEF RollupInv

\* Pruning takes no span that a view still reads from the hypertable, and none
\* that the hourly job may compute again.
LEMMA PruneCounts ==
  ASSUME PoliciesFit, RollupInv, NEW keep \in Nat, HourlyStart <= keep, PruneSpans(keep)
  PROVE  RollupInv' /\ DayView \subseteq DayView'
<1>1. /\ traces' = traces \ {s \in traces : s.hour < hour - keep}
      /\ UNCHANGED <<hour, hourly, daily, hourlyMark, dailyMark, hourlyRun, dailyRun, sent>>
  BY Zenon DEF PruneSpans
<1>2. /\ hour \in Nat /\ hourlyMark \in Nat /\ hour <= hourlyMark + 1 + Lag
      /\ \A s \in traces : s.hour \in Nat
  BY RollupsAssumption DEF RollupInv, Sent, OnTime
<1>3. \A s \in traces : s.hour + HourlyStart >= hour => s \in traces'
  BY <1>1, <1>2, RollupsAssumption
<1>4. HourView \subseteq HourView'
  <2> SUFFICES ASSUME NEW s \in traces, s.hour >= hourlyMark PROVE s \in traces'
    BY <1>1, Zenon DEF HourView
  <2> QED
    BY <1>2, <1>3, RollupsAssumption DEF PoliciesFit
<1>5. Sent' /\ OnTime'
  BY <1>1, Zenon DEF RollupInv, Sent, OnTime, Days
<1>6. RawKept'
  BY <1>1, <1>3, Zenon DEF RollupInv, RawKept
<1> QED
  BY <1>1, <1>4, <1>5, <1>6, HoursGrow, Zenon DEF RollupInv

\* The retention of the hourly aggregate takes no bucket of a day that the
\* daily view still reads from it.
LEMMA DropHourlyCounts ==
  ASSUME PoliciesFit, RollupInv, DropHourly
  PROVE  RollupInv' /\ DayView \subseteq DayView'
<1>1. /\ hourly' = {s \in hourly : s.hour >= hour - HourlyKeep}
      /\ UNCHANGED <<hour, traces, daily, hourlyMark, dailyMark, hourlyRun, dailyRun, sent>>
  BY Zenon DEF DropHourly
<1>2. /\ hour \in Nat /\ dailyMark \in Nat /\ hour <= dailyMark + Day + Lag /\ Day \in Nat
      /\ \A s \in hourly : s.hour \in Nat
  BY RollupsAssumption DEF RollupInv, Sent, OnTime, Days
<1>3. \A s \in HourView : s.hour + HourlyKeep >= hour => s \in HourView'
  BY <1>1, <1>2, RollupsAssumption DEF HourView
<1>4. \A s \in HourView : DayOf(s.hour) >= dailyMark => s \in HourView'
  <2> SUFFICES ASSUME NEW s \in HourView, DayOf(s.hour) >= dailyMark PROVE s \in HourView'
    OBVIOUS
  <2>1. s.hour \in Nat
    BY DEF RollupInv, Sent, HourView
  <2>2. DayOf(s.hour) \in Nat /\ DayOf(s.hour) <= s.hour
    BY <2>1, DayOfHour, Zenon
  <2>3. s.hour + HourlyKeep >= hour
    BY <1>2, <2>1, <2>2, RollupsAssumption DEF PoliciesFit
  <2> QED
    BY <1>3, <2>3, Zenon
<1>5. DayView \subseteq DayView'
  BY <1>1, <1>4, Zenon DEF DayView
<1>6. Sent' /\ OnTime' /\ RawKept'
  BY <1>1, Zenon DEF RollupInv, Sent, OnTime, RawKept, Days
<1>7. HoursKept'
  BY <1>1, <1>3, Zenon DEF RollupInv, HoursKept
<1> QED
  BY <1>5, <1>6, <1>7, Zenon DEF RollupInv

\* Time passes only while both jobs keep up.
LEMMA HourCounts ==
  ASSUME RollupInv, NextHour
  PROVE  RollupInv' /\ DayView \subseteq DayView'
<1>1. /\ hour < MaxHour /\ hour - hourlyRun < Lag /\ hour - dailyRun < Lag /\ hour' = hour + 1
      /\ UNCHANGED <<traces, hourly, daily, hourlyMark, dailyMark, hourlyRun, dailyRun, sent>>
  BY Zenon DEF NextHour
<1>2. /\ hour \in Nat /\ hourlyRun \in Nat /\ dailyRun \in Nat
      /\ \A s \in sent : s.hour \in Nat
      /\ daily \subseteq sent
  BY RollupsAssumption DEF RollupInv, Sent
<1>3. HourView' = HourView /\ DayView' = DayView
  BY <1>1, Zenon DEF HourView, DayView
<1>4. Sent'
  BY <1>1, <1>2, RollupsAssumption DEF RollupInv, Sent, Days
<1>5. OnTime'
  BY <1>1, <1>2, RollupsAssumption DEF RollupInv, OnTime
<1>6. RawKept'
  BY <1>1, <1>2, RollupsAssumption DEF RollupInv, RawKept
<1>7. HoursKept'
  BY <1>1, <1>2, <1>3, RollupsAssumption DEF RollupInv, HoursKept
<1> QED
  BY <1>3, <1>4, <1>5, <1>6, <1>7, Zenon DEF RollupInv

\* Whatever happens, the invariant stays and the daily view loses nothing.
LEMMA AnyStepCounts ==
  ASSUME PoliciesFit, RollupInv, [RollupsNext]_rollupVars
  PROVE  RollupInv' /\ DayView \subseteq DayView'
<1>1. ASSUME NEW s \in Spans, Ingest(s) PROVE RollupInv' /\ DayView \subseteq DayView'
  BY <1>1, IngestCounts, Zenon
<1>2. ASSUME NEW a \in Attempts, Attempt(a) PROVE RollupInv' /\ DayView \subseteq DayView'
  BY <1>2, StillRollups, Zenon DEF Attempt
<1>3. CASE RefreshHourly
  BY <1>3, RefreshHourlyCounts, Zenon
<1>4. CASE RefreshDaily
  BY <1>4, RefreshDailyCounts, Zenon
<1>5. CASE DropChunks
  BY <1>5, PruneCounts, RollupsAssumption, Zenon DEF DropChunks, PoliciesFit
<1>6. CASE SweepTenantRetention
  BY <1>6, PruneCounts, RollupsAssumption, Zenon DEF SweepTenantRetention, PoliciesFit
<1>7. CASE DropHourly
  BY <1>7, DropHourlyCounts, Zenon
<1>8. CASE NextHour
  BY <1>8, HourCounts, Zenon
<1>9. CASE UNCHANGED rollupVars
  BY <1>9, StillRollups, Zenon DEF rollupVars
<1> QED
  BY <1>1, <1>2, <1>3, <1>4, <1>5, <1>6, <1>7, <1>8, <1>9, Zenon DEF RollupsNext

\* A span that the daily view counts is counted for good, whatever refreshes,
\* late arrivals and prunings come, as long as the refresh windows, the lag of
\* the jobs and the retentions of migrations 0003 and 0004, of
\* storage.traces.retention_after and of the tenant fit each other.
THEOREM CommandsCountedForGood ==
  ASSUME PoliciesFit
  PROVE  RollupsSpec => CountedForGood
<1>1. RollupsInit => RollupInv
  <2> SUFFICES ASSUME RollupsInit PROVE RollupInv
    OBVIOUS
  <2>1. 0 \in Days
    BY RollupsAssumption DEF Days
  <2> QED
    BY <2>1, RollupsAssumption
       DEF RollupsInit, RollupInv, Sent, OnTime, RawKept, HoursKept
<1>2. RollupInv /\ [RollupsNext]_rollupVars => RollupInv' /\ DayView \subseteq DayView'
  BY AnyStepCounts, Zenon
<1> QED
  BY <1>1, <1>2, PTL DEF RollupsSpec, CountedForGood
=============================================================================
