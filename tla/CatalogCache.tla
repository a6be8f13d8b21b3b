---------------------------- MODULE CatalogCache ----------------------------
(***************************************************************************)
(* The cache of metric catalogs of one ingest process: catalogCache.rules  *)
(* (internal/otlp/catalog.go) run by concurrent exports, in front of       *)
(* MetricCatalogRules, while catalogs are applied.  Entries are kept by    *)
(* tenant, each on its own: the model has the one tenant whose             *)
(* definitions it extends, and all of its CLIs in the one entry.           *)
(*                                                                         *)
(* Unlike the tenant cache it stamps an entry with the time at which the   *)
(* lookup began, and it never evicts.                                      *)
(***************************************************************************)
EXTENDS MetricDefinitions

CONSTANTS
  Exports,    \* goroutines that handle an export
  TTL,        \* metric_catalog_cache_ttl, in clock ticks
  MaxLoad,    \* bound: ticks a load may last
  MaxTime,    \* bound: the clock stops here
  None

ASSUME CacheAssumption == TTL \in Nat \ {0} /\ MaxLoad \in Nat /\ MaxTime \in Nat

VARIABLES
  ended,      \* history: when a catalog was last replaced
  now,
  entry,      \* the cache: None, or an answer and when it expires
  pc, began, got,  \* each export: its now, what it loaded
  served      \* history: the catalog an export goes on with

locals == <<pc, began, got>>
cacheVars == <<now, entry, locals>>

\* MetricCatalogRules: one query over the tenant's current definitions.
Catalog == [s \in Services |-> Current(definitions, s)]

NoAnswer == [key |-> "none"]
Silent == served' = NoAnswer

CacheInit ==
  /\ ended = [c \in {} |-> 0]
  /\ now = 0
  /\ entry = None
  /\ pc = [e \in Exports |-> "idle"]
  /\ began = [e \in Exports |-> 0]
  /\ got = [e \in Exports |-> None]
  /\ served = NoAnswer

\* Keeps the history; the commit of an apply is what replaces a catalog.
NoteEnd ==
  ended' = IF Catalog' = Catalog THEN ended
           ELSE [c \in DOMAIN ended \cup {Catalog} |-> IF c = Catalog THEN now ELSE ended[c]]

Apply == DefNext /\ NoteEnd /\ Silent /\ UNCHANGED cacheVars

Fresh == entry # None /\ now < entry.expires

Hit(e) ==
  /\ pc[e] = "idle" /\ Fresh
  /\ served' = [key |-> "catalog", answer |-> entry.answer]
  /\ UNCHANGED <<ended, now, entry, locals>>

\* The lock is released before the load: nothing keeps a second export from
\* loading the same catalog.
Miss(e) ==
  /\ pc[e] = "idle" /\ ~ Fresh
  /\ pc' = [pc EXCEPT ![e] = "load"]
  /\ began' = [began EXCEPT ![e] = now]
  /\ Silent /\ UNCHANGED <<ended, now, entry, got>>

Load(e) ==
  /\ pc[e] = "load"
  /\ got' = [got EXCEPT ![e] = Catalog]
  /\ pc' = [pc EXCEPT ![e] = "store"]
  /\ Silent /\ UNCHANGED <<ended, now, entry, began>>

Done(e) ==
  /\ pc' = [pc EXCEPT ![e] = "idle"]
  /\ began' = [began EXCEPT ![e] = 0]
  /\ got' = [got EXCEPT ![e] = None]

\* The load fails: nothing is cached and the export is rejected.
LoadFails(e) ==
  /\ pc[e] \in {"load", "store"}
  /\ Done(e)
  /\ Silent /\ UNCHANGED <<ended, now, entry>>

\* Mutant of Entry: stamped with the time at which the load ended.
EntryLate(e) == [answer |-> got[e], expires |-> now + TTL]

Entry(e) == [answer |-> got[e], expires |-> began[e] + TTL]

Store(e) ==
  /\ pc[e] = "store"
  /\ entry' = Entry(e)
  /\ served' = [key |-> "catalog", answer |-> got[e]]
  /\ Done(e)
  /\ UNCHANGED <<ended, now>>

Tick ==
  /\ now < MaxTime
  /\ \A e \in Exports : pc[e] # "idle" => now - began[e] < MaxLoad
  /\ now' = now + 1
  /\ Silent /\ UNCHANGED <<ended, entry, locals>>

CacheNext ==
  \/ Apply
  \/ /\ \/ \E e \in Exports : Hit(e) \/ Miss(e) \/ Load(e) \/ LoadFails(e) \/ Store(e)
        \/ Tick
     /\ UNCHANGED defVars
-----------------------------------------------------------------------------
(* Properties.                                                             *)

\* The cache implements bounded staleness with the TTL alone as the bound,
\* unless a load itself lasts longer: a slow load shortens the life of its
\* entry, and a late one that overwrites a newer entry expires before it.
Catalogs == [Services -> {NoRows} \cup {f.metrics : f \in Files}]
Staleness == IF MaxLoad < TTL THEN TTL ELSE MaxLoad + 1
Freshness == INSTANCE BoundedStaleness WITH
  truth <- [k \in {"catalog"} |-> Catalog], ended <- [k \in {"catalog"} |-> ended],
  Keys <- {"catalog"}, Answers <- Catalogs, Bound <- [k \in {"catalog"} |-> [c \in Catalogs |-> Staleness]]
RefinesBoundedStaleness == Freshness!Spec
=============================================================================
