---------------------------- MODULE TenantCache ----------------------------
(***************************************************************************)
(* Tenant resolution: the in-memory Cache (internal/tenant/cache.go) of    *)
(* one server process in front of the Store (store.go, members.go), while  *)
(* the operator CLI changes the tables.                                    *)
(*                                                                         *)
(* The tables are those of one tenant, with one API key and one OIDC       *)
(* identity.  Each of the four lookups of the Resolver is one cache key:   *)
(* an API key, a tenant id, an identity's memberships, and the list of     *)
(* active tenants.  An answer is Absent (not found, or an empty list) or   *)
(* the row found, of which the model keeps what the operations change.     *)
(***************************************************************************)
EXTENDS Integers

CONSTANTS
  Requests,    \* goroutines that resolve an identity
  Lookups,     \* the lookups they make, of the four
  TenantConfigs, \* versions of tenant_config
  Roles,       \* roles of tenant_members
  TTL,         \* api_key_cache_ttl, in clock ticks
  Second,      \* one second: the floor of the negative TTL
  HasJanitor,  \* whether the process runs Janitor
  MaxLookup,   \* bound: ticks from a query's snapshot to its answer being stored
  MaxTime,     \* bound: the clock stops here
  MaxOperations, \* bound: operations on the tables
  Absent

ASSUME CacheAssumption ==
  /\ TTL \in Nat \ {0} /\ Second \in Nat \ {0}
  /\ MaxLookup \in Nat /\ MaxTime \in Nat /\ MaxOperations \in Nat
  /\ HasJanitor \in BOOLEAN
  /\ Lookups \subseteq {"key", "tenant", "memberships", "active"}
  /\ Absent \notin TenantConfigs \cup Roles

VARIABLES
  tenantConfig, \* its row of tenant_config, Absent before `tenant create`
  apiKey,    \* api_keys: "none", "live" or "revoked"
  role,      \* tenant_members: the identity's role, or Absent
  adding,    \* an AddMember between its two statements: its role argument
  operations, \* how many so far
  ended,     \* history: when an answer last ceased to hold, per key
  now,
  entries,   \* the cache: key -> answer and expiresAt
  step, key, \* where each request is, and what it looks up
  got, readAt, \* the answer of its query, and the time of its snapshot
  served     \* history: what this step answers

tables == <<tenantConfig, apiKey, role>>
locals == <<step, key, got, readAt>>
tenantVars == <<tables, adding, operations, ended, now, entries, locals, served>>

Answers == TenantConfigs \cup Roles \cup {"listed", Absent}

\* The queries of the Store, each one statement.
Lookup(k) ==
  CASE k = "key" -> IF apiKey = "live" THEN tenantConfig ELSE Absent
    [] k = "tenant" -> tenantConfig
    [] k = "memberships" -> role
    [] k = "active" -> IF tenantConfig = Absent THEN Absent ELSE "listed"

\* NewCache: negative results live a quarter as long, but a second at least.
NegTTL == IF TTL \div 4 < Second THEN Second ELSE TTL \div 4

\* Mutant of Ttl: an empty membership list lives as long as a full one.
TtlSame(k, a) == IF k = "active" THEN NegTTL ELSE TTL

\* The TTL each of the four methods picks for its answer.
Ttl(k, a) == IF k = "active" \/ a = Absent THEN NegTTL ELSE TTL

Unanswered == [key |-> "none"]
Silent == served' = Unanswered

\* The process starts before the tenant is created, or long after.
Init ==
  /\ \/ tenantConfig = Absent /\ apiKey = "none" /\ role = Absent
     \/ tenantConfig \in TenantConfigs /\ apiKey = "live" /\ role \in Roles
  /\ adding = "no" /\ operations = 0
  /\ ended = [k \in Lookups |-> [a \in {} |-> 0]]
  /\ now = 0
  /\ entries = [k \in {} |-> Absent]
  /\ step = [r \in Requests |-> "idle"]
  /\ key = [r \in Requests |-> "none"]
  /\ got = [r \in Requests |-> Absent]
  /\ readAt = [r \in Requests |-> 0]
  /\ served = Unanswered

-----------------------------------------------------------------------------
(* The operator CLI.  Every change notes which answers it ends.            *)

Noted(old, a) == [b \in DOMAIN old \cup {a} |-> IF b = a THEN now ELSE old[b]]

Change ==
  /\ operations < MaxOperations
  /\ operations' = operations + 1
  /\ ended' = [k \in Lookups |->
       IF Lookup(k)' = Lookup(k) THEN ended[k] ELSE Noted(ended[k], Lookup(k))]
  /\ Silent /\ UNCHANGED <<now, entries, locals>>

CreateTenant(c) ==
  /\ tenantConfig = Absent
  /\ tenantConfig' = c
  /\ UNCHANGED <<apiKey, role, adding>> /\ Change

UpsertConfig(c) ==
  /\ tenantConfig # Absent
  /\ tenantConfig' = c
  /\ UNCHANGED <<apiKey, role, adding>> /\ Change

CreateAPIKey ==
  /\ tenantConfig # Absent /\ apiKey = "none"
  /\ apiKey' = "live"
  /\ UNCHANGED <<tenantConfig, role, adding>> /\ Change

RevokeAPIKey ==
  /\ apiKey = "live"
  /\ apiKey' = "revoked"
  /\ UNCHANGED <<tenantConfig, role, adding>> /\ Change

\* AddMember, first statement: INSERT ... ON CONFLICT DO NOTHING.
AddMember(r) ==
  /\ tenantConfig # Absent /\ adding = "no"
  /\ role' = IF role = Absent THEN r ELSE role
  /\ adding' = IF role = Absent THEN "no" ELSE r
  /\ UNCHANGED <<tenantConfig, apiKey>> /\ Change

\* Its second statement, for an existing member: UPDATE ... SET role.  No row
\* changes if the membership is gone by then.  (Without a role argument it
\* only reads the row.)
ChangeRole ==
  /\ adding # "no"
  /\ role' = IF role = Absent THEN Absent ELSE adding
  /\ adding' = "no"
  /\ UNCHANGED <<tenantConfig, apiKey>> /\ Change

RemoveMember ==
  /\ role # Absent
  /\ role' = Absent
  /\ UNCHANGED <<tenantConfig, apiKey, adding>> /\ Change

Operator ==
  \/ \E c \in TenantConfigs : CreateTenant(c) \/ UpsertConfig(c)
  \/ CreateAPIKey \/ RevokeAPIKey
  \/ \E r \in Roles : AddMember(r)
  \/ ChangeRole \/ RemoveMember
-----------------------------------------------------------------------------
(* The cache.                                                              *)

Fresh(k) == k \in DOMAIN entries /\ now < entries[k].expires

Hit(r, k) ==
  /\ step[r] = "idle" /\ Fresh(k)
  /\ served' = [key |-> k, answer |-> entries[k].answer]
  /\ UNCHANGED <<tables, adding, operations, ended, now, entries, locals>>

Miss(r, k) ==
  /\ step[r] = "idle" /\ ~ Fresh(k)
  /\ key' = [key EXCEPT ![r] = k]
  /\ step' = [step EXCEPT ![r] = "query"]
  /\ Silent /\ UNCHANGED <<tables, adding, operations, ended, now, entries, got, readAt>>

\* The query takes its snapshot; no lock is held meanwhile.
Query(r) ==
  /\ step[r] = "query"
  /\ got' = [got EXCEPT ![r] = Lookup(key[r])]
  /\ readAt' = [readAt EXCEPT ![r] = now]
  /\ step' = [step EXCEPT ![r] = "set"]
  /\ Silent /\ UNCHANGED <<tables, adding, operations, ended, now, entries, key>>

Done(r) ==
  /\ step' = [step EXCEPT ![r] = "idle"]
  /\ key' = [key EXCEPT ![r] = "none"]
  /\ got' = [got EXCEPT ![r] = Absent]
  /\ readAt' = [readAt EXCEPT ![r] = 0]

\* Infrastructure failures are not cached.
QueryFails(r) ==
  /\ step[r] \in {"query", "set"}
  /\ Done(r)
  /\ Silent /\ UNCHANGED <<tables, adding, operations, ended, now, entries>>

Entry(k, a) == [answer |-> a, expires |-> now + Ttl(k, a)]

\* set: the answer arrives, is stamped with the time of its arrival, replaces
\* whatever a concurrent request stored, and is returned.
Set(r) ==
  /\ step[r] = "set"
  /\ entries' = [k \in DOMAIN entries \cup {key[r]} |->
       IF k = key[r] THEN Entry(k, got[r]) ELSE entries[k]]
  /\ served' = [key |-> key[r], answer |-> got[r]]
  /\ Done(r)
  /\ UNCHANGED <<tables, adding, operations, ended, now>>

Expired == {k \in DOMAIN entries : now > entries[k].expires}

\* Mutant of Janitor: negative results stay until they are replaced.
JanitorKeepsNegative ==
  /\ HasJanitor /\ \E k \in Expired : entries[k].answer # Absent
  /\ entries' = [k \in {j \in DOMAIN entries :
                         j \notin Expired \/ entries[j].answer = Absent} |-> entries[k]]
  /\ Silent /\ UNCHANGED <<tables, adding, operations, ended, now, locals>>

\* A tick of the Janitor that finds something to evict.
Janitor ==
  /\ HasJanitor /\ Expired # {}
  /\ entries' = [k \in DOMAIN entries \ Expired |-> entries[k]]
  /\ Silent /\ UNCHANGED <<tables, adding, operations, ended, now, locals>>

Tick ==
  /\ now < MaxTime
  /\ \A r \in Requests : step[r] = "set" => now - readAt[r] < MaxLookup
  /\ now' = now + 1
  /\ Silent /\ UNCHANGED <<tables, adding, operations, ended, entries, locals>>

Resolve(r) == \E k \in Lookups : Hit(r, k) \/ Miss(r, k)

Next ==
  \/ Operator
  \/ \E r \in Requests : Resolve(r) \/ Query(r) \/ QueryFails(r) \/ Set(r)
  \/ Janitor
  \/ Tick

Spec == Init /\ [][Next]_tenantVars

\* The janitor's ticker fires for ever and time passes; requests come and go
\* as they like, but a started one ends.
Fairness ==
  /\ WF_tenantVars(Janitor) /\ WF_tenantVars(Tick)
  /\ \A r \in Requests : WF_tenantVars(Query(r) \/ Set(r))

FairSpec == Spec /\ Fairness
-----------------------------------------------------------------------------
(* Properties.                                                             *)

TypeOK ==
  /\ tenantConfig \in TenantConfigs \cup {Absent} /\ apiKey \in {"none", "live", "revoked"}
  /\ role \in Roles \cup {Absent} /\ adding \in Roles \cup {"no"}
  /\ operations \in 0..MaxOperations /\ now \in 0..MaxTime
  /\ DOMAIN entries \subseteq Lookups
  /\ \A k \in DOMAIN entries : entries[k] \in [answer : Answers, expires : Nat]
  /\ step \in [Requests -> {"idle", "query", "set"}]
  /\ key \in [Requests -> Lookups \cup {"none"}] /\ got \in [Requests -> Answers]
  /\ readAt \in [Requests -> 0..MaxTime]
  /\ \A k \in Lookups : DOMAIN ended[k] \subseteq Answers
  /\ \A k \in Lookups : \A a \in DOMAIN ended[k] : ended[k][a] \in 0..MaxTime

\* The cache implements bounded staleness: every answer, positive or negative,
\* held less than its TTL and the longest query ago, whatever concurrent
\* misses, late answers and evictions do to the entry.
Truth == [k \in Lookups |-> Lookup(k)]
Staleness == [k \in Lookups |-> [a \in Answers |->
  (IF k = "active" \/ a = Absent THEN NegTTL ELSE TTL) + MaxLookup]]
Freshness == INSTANCE BoundedStaleness WITH
  truth <- Truth, Keys <- Lookups, Bound <- Staleness
RefinesBoundedStaleness == Freshness!Spec

\* Again and again there is no entry in the map that has expired: a process
\* with a janitor does not keep the answer for every key ever tried.
Evicted == []<>(Expired = {})
=============================================================================
