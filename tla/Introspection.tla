---------------------------- MODULE Introspection ----------------------------
(***************************************************************************)
(* Verification of opaque tokens with the provider: Introspect and its     *)
(* cache (internal/oidc/introspect.go), by concurrent requests, while the  *)
(* provider revokes tokens and tokens expire.  The endpoint is configured, *)
(* or in the discovery document CheckStartup has fetched.                  *)
(***************************************************************************)
EXTENDS Provider, FiniteSets

CONSTANTS
  Opaque,          \* opaque tokens
  Exp,             \* their exp
  IntroTTL,        \* introspection.cache_ttl
  NegativeTTL,     \* introspection.negative_cache_ttl
  Leeway,          \* clockSkewLeeway
  MaxEntries       \* maxIntrospectionCacheEntries

ASSUME IntrospectionAssumption ==
  /\ Exp \in [Opaque -> Nat] /\ IntroTTL \in Nat \ {0} /\ NegativeTTL \in Nat \ {0}
  /\ Leeway \in Nat /\ MaxEntries \in Nat \ {0}

VARIABLES
  active,   \* the tokens the provider calls active
  entries,  \* introspectionCache: token -> verdict and expiresAt
  reply     \* history: what this step answers

NoReply == [verdict |-> "none"]
Quiet == reply' = NoReply

IntrospectionInit ==
  /\ active = Opaque
  /\ entries = [t \in {} |-> None]
  /\ reply = NoReply

\* The provider revokes the token, or activates it again.
Toggle(t) ==
  /\ Acts
  /\ active' = IF t \in active THEN active \ {t} ELSE active \cup {t}

Live(t) == t \in DOMAIN entries /\ now < entries[t].expires

\* get deletes an entry it finds expired.
Swept(t) == [u \in {v \in DOMAIN entries : v = t => Live(t)} |-> entries[u]]

Reply(r, verdict) ==
  /\ reply' = [token |-> token[r], verdict |-> verdict, at |-> now]
  /\ Return(r)

Introspect(r, t) ==
  /\ pc[r] = "idle"
  /\ token' = [token EXCEPT ![r] = t]
  /\ entries' = Swept(t)
  /\ GoTo(r, "introspect")
  /\ Quiet /\ UNCHANGED <<flight, got>>

\* The cache has the answer, at the first get or at the one inside the call.
Cached(r) ==
  /\ pc[r] = "introspect" /\ Live(token[r])
  /\ Reply(r, entries[token[r]].verdict)
  /\ UNCHANGED <<flight, entries>>

Call(r) ==
  /\ pc[r] = "introspect" /\ (token[r] \in DOMAIN flight \/ ~ Live(token[r]))
  /\ Do(r, token[r])
  /\ entries' = IF token[r] \in DOMAIN flight THEN entries ELSE Swept(token[r])
  /\ GoTo(r, "introspected")
  /\ Quiet /\ UNCHANGED <<token, got>>

\* validateIntrospection; the other checks of the response are rejections too.
validateIntrospection(t, says) ==
  IF says = "inactive" THEN "inactive"
  ELSE IF now > Exp[t] + Leeway THEN "expired" ELSE "active"

\* Mutant of expiresAt: not capped by the token's exp.
expiresAtUncapped(t, verdict) ==
  now + (IF verdict = "active" THEN IntroTTL ELSE NegativeTTL)

expiresAt(t, verdict) ==
  IF verdict # "active" THEN now + NegativeTTL
  ELSE IF Exp[t] - now < IntroTTL THEN Exp[t] ELSE now + IntroTTL

\* put: when full, drop what has expired; when still full, do not cache.
put(t, e) ==
  LET full == t \notin DOMAIN entries /\ Cardinality(DOMAIN entries) >= MaxEntries
      kept == IF full THEN {u \in DOMAIN entries : Live(u)} ELSE DOMAIN entries
      room == ~ full \/ Cardinality(kept) < MaxEntries
  IN  [u \in kept \cup (IF room THEN {t} ELSE {}) |-> IF u = t THEN e ELSE entries[u]]

\* The call ends: the answer is stamped with the time of its arrival and
\* cached; provider trouble never is.
CallLands(t) ==
  /\ Landed(t)
  /\ LET read == flight[t].read
         verdict == IF read = Failed THEN Failed ELSE validateIntrospection(t, read)
         e == [verdict |-> verdict, expires |-> expiresAt(t, verdict)]
     IN  /\ Lands(t, verdict)
         /\ entries' = IF read = Failed \/ e.expires <= now THEN entries ELSE put(t, e)
  /\ Quiet /\ UNCHANGED <<pc, token>>

Introspected(r) ==
  /\ pc[r] = "introspected" /\ got[r] # None
  /\ Reply(r, IF got[r] = Failed THEN "unavailable" ELSE got[r])
  /\ UNCHANGED <<flight, entries>>

IntrospectionRequest(r) == Cached(r) \/ Call(r) \/ Introspected(r)

IntrospectionCall == \E t \in Opaque :
  \/ Reads(t, IF t \in active THEN "active" ELSE "inactive") /\ Quiet /\ UNCHANGED <<locals, entries>>
  \/ CallLands(t)
-----------------------------------------------------------------------------
(* Properties.                                                             *)

IntrospectionTypeOK ==
  /\ active \subseteq Opaque
  /\ DOMAIN entries \subseteq Opaque
  /\ \A t \in DOMAIN entries : entries[t].verdict \in {"active", "inactive", "expired"}

\* "capped by the token's own exp": whatever was cached, shared or delayed, no
\* token is accepted later than the leeway after its exp; and "bounds memory
\* under a flood of distinct tokens": concurrent calls for any number of tokens
\* leave at most maxIntrospectionCacheEntries in the cache.
CacheKeepsItsLimits ==
  /\ reply.verdict = "active" => reply.at <= Exp[reply.token] + Leeway
  /\ Cardinality(DOMAIN entries) <= MaxEntries
=============================================================================
