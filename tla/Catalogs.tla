------------------------------ MODULE Catalogs ------------------------------
(***************************************************************************)
(* The metric catalogs of a tenant with the two parts of the system that   *)
(* read them: the dashboard layouts saved on the metrics server, and the   *)
(* catalog cache of an ingest process.  The two readers share nothing but  *)
(* the definitions, so a behaviour has one of them.                        *)
(***************************************************************************)
EXTENDS DashboardCards, CatalogCache

VARIABLE reader  \* "dashboard" or "ingest"

allVars == <<vars, ended, cacheVars, served, reader>>

CatalogsInit == Init /\ CacheInit /\ reader \in {"dashboard", "ingest"}

CatalogsNext ==
  \/ reader = "dashboard" /\ Next /\ NoteEnd /\ UNCHANGED <<cacheVars, served, reader>>
  \/ reader = "ingest" /\ CacheNext /\ UNCHANGED <<cardVars, reader>>

CatalogsSpec == CatalogsInit /\ [][CatalogsNext]_allVars
=============================================================================
