-------------------------------- MODULE Jwks --------------------------------
(***************************************************************************)
(* Verification of JWTs with the keys the provider publishes: Verify       *)
(* (internal/oidc/oidc.go) with discover (discovery.go) and lookupKey      *)
(* (jwks.go), by concurrent requests, while the provider rotates its keys. *)
(* A key is its kid; alg filters like kid and is left out.                 *)
(***************************************************************************)
EXTENDS Provider, FiniteSets

CONSTANTS
  Kids,      \* keys the provider can publish
  JWTs,      \* tokens: kid (or NoKid), the key that signed it, what its claims come to
  CacheTTL,  \* jwks_cache_ttl
  Cooldown,  \* unknownKIDCooldown
  NoKid

ASSUME JwksAssumption ==
  /\ JWTs \subseteq [kid : Kids \cup {NoKid}, by : Kids, claims : {"ok", "scope", "invalid"}]
  /\ CacheTTL \in Nat \ {0} /\ Cooldown \in Nat /\ NoKid \notin Kids

VARIABLES
  published,  \* the provider's JWKS
  meta,       \* whether the discovery document has been fetched
  keys, fetchedAt, lastUnknownRefresh,  \* jwksCache; None for the zero time
  asked,      \* history: what came of the refresh lastUnknownRefresh tells of
  answer      \* history: what this step answers, and on the word of which refresh

cache == <<meta, keys, fetchedAt, lastUnknownRefresh, asked>>

NoAnswer == [outcome |-> "none"]
Silent == answer' = NoAnswer

JwksInit ==
  /\ published \in {K \in SUBSET Kids : Cardinality(K) = 1}
  /\ meta = FALSE
  /\ keys = {} /\ fetchedAt = None /\ lastUnknownRefresh = None
  /\ asked = "none"
  /\ answer = NoAnswer

Publish(k) ==
  /\ Acts /\ k \notin published
  /\ published' = published \cup {k}

Retire(k) ==
  /\ Acts /\ k \in published
  /\ published' = published \ {k}

\* The header checks need no provider: a token that fails them is left out.
Verify(r, t) ==
  /\ pc[r] = "idle"
  /\ token' = [token EXCEPT ![r] = t]
  /\ GoTo(r, IF meta THEN "lookup" ELSE "discover")
  /\ Silent /\ UNCHANGED <<flight, got, cache>>

discover(r) ==
  /\ pc[r] = "discover"
  /\ Do(r, "discovery")
  /\ GoTo(r, "discovered")
  /\ Silent /\ UNCHANGED <<token, got, cache>>

DiscoveryLands ==
  /\ Landed("discovery")
  /\ Lands("discovery", flight["discovery"].read)
  /\ meta' = (meta \/ flight["discovery"].read # Failed)
  /\ Silent /\ UNCHANGED <<pc, token, keys, fetchedAt, lastUnknownRefresh, asked>>

Discovered(r) ==
  /\ pc[r] = "discovered" /\ got[r] \notin {None, Failed}
  /\ GoTo(r, "lookup")
  /\ got' = [got EXCEPT ![r] = None]
  /\ Silent /\ UNCHANGED <<flight, token, cache>>

\* The keys of a set that suit the token.
Matching(set, t) == IF t.kid = NoKid THEN set ELSE set \cap {t.kid}

\* matchKey: exactly one.
matchKey(set, t) == Cardinality(Matching(set, t)) = 1

\* The token is answered with the key of the set that matches.
Verdict(set, t) == IF t.by \in Matching(set, t) THEN t.claims ELSE "invalid"

Answer(r, outcome, refresh) ==
  /\ answer' = [outcome |-> outcome, token |-> token[r], refresh |-> refresh]
  /\ Return(r)

DiscoveryFailed(r) ==
  /\ pc[r] = "discovered" /\ got[r] = Failed
  /\ Answer(r, "unavailable", "none")
  /\ UNCHANGED <<flight, cache>>

\* Mutant of Fresh: a set counts as fresh for good.
FreshForGood == fetchedAt # None

Fresh == fetchedAt # None /\ now - fetchedAt < CacheTTL

Cooling == lastUnknownRefresh # None /\ now - lastUnknownRefresh < Cooldown

\* lookupKey, under the mutex: the cached key,
KnownKey(r) ==
  /\ pc[r] = "lookup" /\ Fresh /\ matchKey(keys, token[r])
  /\ Answer(r, Verdict(keys, token[r]), "none")
  /\ UNCHANGED <<flight, cache>>

\* or a refusal during the cooldown,
UnknownKey(r) ==
  /\ pc[r] = "lookup" /\ Fresh /\ ~ matchKey(keys, token[r]) /\ Cooling
  /\ Answer(r, "unknown", asked)
  /\ UNCHANGED <<flight, cache>>

\* or a refresh, which a fresh set has at most one of per cooldown.
NeedRefresh(r) ==
  /\ pc[r] = "lookup" /\ (Fresh => ~ matchKey(keys, token[r]) /\ ~ Cooling)
  /\ lastUnknownRefresh' = IF Fresh THEN now ELSE lastUnknownRefresh
  /\ asked' = IF Fresh THEN "running" ELSE asked
  /\ GoTo(r, "refresh")
  /\ Silent /\ UNCHANGED <<flight, token, got, meta, keys, fetchedAt>>

refreshJWKS(r) ==
  /\ pc[r] = "refresh"
  /\ Do(r, "jwks")
  /\ GoTo(r, "refreshed")
  /\ Silent /\ UNCHANGED <<token, got, cache>>

JwksLands ==
  /\ Landed("jwks")
  /\ LET read == flight["jwks"].read
     IN  /\ Lands("jwks", read)
         /\ keys' = IF read = Failed THEN keys ELSE read
         /\ fetchedAt' = IF read = Failed THEN fetchedAt ELSE now
         /\ asked' = IF asked = "running" THEN IF read = Failed THEN "failed" ELSE "ok" ELSE asked
  /\ Silent /\ UNCHANGED <<pc, token, meta, lastUnknownRefresh>>

Refreshed(r) ==
  /\ pc[r] = "refreshed" /\ got[r] \notin {None, Failed}
  /\ Answer(r, IF matchKey(got[r], token[r]) THEN Verdict(got[r], token[r]) ELSE "unknown", "ok")
  /\ UNCHANGED <<flight, cache>>

\* Mutant of RefreshFailed: the old set does not help.
RefreshFailedClosed(r) ==
  /\ pc[r] = "refreshed" /\ got[r] = Failed
  /\ Answer(r, "unavailable", "failed")
  /\ UNCHANGED <<flight, cache>>

\* The old set, whatever its age, rather than an error.
RefreshFailed(r) ==
  /\ pc[r] = "refreshed" /\ got[r] = Failed
  /\ Answer(r, IF matchKey(keys, token[r]) THEN Verdict(keys, token[r]) ELSE "unavailable", "failed")
  /\ UNCHANGED <<flight, cache>>

JwksRequest(r) ==
  \/ discover(r) \/ Discovered(r) \/ DiscoveryFailed(r)
  \/ KnownKey(r) \/ UnknownKey(r) \/ NeedRefresh(r)
  \/ refreshJWKS(r) \/ Refreshed(r) \/ RefreshFailed(r)

JwksCall ==
  \/ Reads("discovery", "document") /\ Silent /\ UNCHANGED <<locals, cache>>
  \/ Reads("jwks", published) /\ Silent /\ UNCHANGED <<locals, cache>>
  \/ DiscoveryLands \/ JwksLands
-----------------------------------------------------------------------------
(* Properties.                                                             *)

JwksTypeOK ==
  /\ published \subseteq Kids /\ keys \subseteq Kids /\ meta \in BOOLEAN
  /\ fetchedAt \in 0..MaxTime \cup {None} /\ lastUnknownRefresh \in 0..MaxTime \cup {None}
  /\ asked \in {"none", "running", "ok", "failed"}

\* "Keep serving from a stale key set rather than failing every request": no
\* request that got to the key set is answered 503 while the set has its key.
OutageServesCached ==
  answer.outcome = "unavailable" => answer.refresh = "none" \/ ~ matchKey(keys, answer.token)

\* A kid is refused as unknown on the word of the provider alone: "refresh
\* unless one was just done", and an outage "is a statement about the provider,
\* never about the token".
UnknownIsTheProvidersWord == answer.outcome = "unknown" => answer.refresh = "ok"
=============================================================================
