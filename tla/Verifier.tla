------------------------------ MODULE Verifier ------------------------------
(***************************************************************************)
(* The verifier of one OIDC provider (internal/oidc): JWTs with its key    *)
(* set, opaque tokens with its introspection.  The two have only the       *)
(* provider in common, so a behaviour has the tokens of one of them.       *)
(***************************************************************************)
EXTENDS Jwks, Introspection

\* No document of the provider is taken for another, or for none.
ASSUME VerifierAssumption ==
  /\ Kids \cap Opaque = {}
  /\ \A s \in {"document", "active", "inactive", "expired"} : s \notin {None, Failed}
  /\ \A K \in SUBSET Kids : K \notin {None, Failed}

VARIABLES
  tokens,         \* "jwt" or "opaque"
  ended, served   \* history, for BoundedStaleness

jwksVars == <<published, cache, answer>>
introVars == <<active, entries, reply>>
vars == <<now, provider, flight, locals, jwksVars, introVars, tokens, ended, served>>

\* What the provider says: of a kid, whether it is a key; of an opaque token,
\* whether it is active.
Truth == [k \in Kids \cup Opaque |-> k \in published \cup active]

Init ==
  /\ ProviderInit /\ JwksInit /\ IntrospectionInit
  /\ tokens \in {"jwt", "opaque"}
  /\ ended = [k \in Kids \cup Opaque |-> [a \in {} |-> 0]]
  /\ served = [key |-> "none"]

Unserved == served' = [key |-> "none"]
Serve(k, a) == served' = [key |-> k, answer |-> a]

\* A JWT's answer says whether its kid is a key, unless the old set was used
\* because the provider failed.
ServeJWT ==
  IF \/ answer' = NoAnswer \/ answer'.token.kid = NoKid
     \/ answer'.outcome = "unavailable" \/ (answer'.refresh = "failed" /\ answer'.outcome # "unknown")
    THEN Unserved
    ELSE Serve(answer'.token.kid, answer'.outcome # "unknown")

ServeOpaque ==
  IF reply' = NoReply \/ reply'.verdict \in {"unavailable", "expired"}
    THEN Unserved
    ELSE Serve(reply'.token, reply'.verdict = "active")

JwtStep ==
  /\ tokens = "jwt"
  /\ \/ \E r \in Requests : JwksRequest(r) \/ \E t \in JWTs : Verify(r, t)
     \/ JwksCall
  /\ ServeJWT
  /\ UNCHANGED <<now, provider, published, introVars, tokens, ended>>

OpaqueStep ==
  /\ tokens = "opaque"
  /\ \/ \E r \in Requests : IntrospectionRequest(r) \/ \E t \in Opaque : Introspect(r, t)
     \/ IntrospectionCall
  /\ ServeOpaque
  /\ UNCHANGED <<now, provider, active, jwksVars, tokens, ended>>

\* The provider is external to the program.
ProviderStep ==
  /\ \/ tokens = "jwt" /\ (\E k \in Kids : Publish(k) \/ Retire(k)) /\ UNCHANGED <<up, active>>
     \/ tokens = "opaque" /\ (\E t \in Opaque : Toggle(t)) /\ UNCHANGED <<up, published>>
     \/ Acts /\ up' = ~ up /\ UNCHANGED <<published, active>>
  /\ ended' = [k \in DOMAIN ended |->
       IF Truth'[k] = Truth[k] THEN ended[k]
       ELSE [a \in DOMAIN ended[k] \cup {Truth[k]} |-> IF a = Truth[k] THEN now ELSE ended[k][a]]]
  /\ Silent /\ Quiet /\ Unserved
  /\ UNCHANGED <<now, flight, locals, cache, entries, tokens>>

Tick ==
  /\ Passes /\ Silent /\ Quiet /\ Unserved
  /\ UNCHANGED <<provider, flight, locals, published, cache, active, entries, tokens, ended>>

Next == JwtStep \/ OpaqueStep \/ ProviderStep \/ Tick

Spec == Init /\ [][Next]_vars
-----------------------------------------------------------------------------
(* Properties.                                                             *)

TypeOK ==
  /\ now \in 0..MaxTime /\ up \in BOOLEAN /\ changes \in 0..MaxChanges
  /\ \A c \in DOMAIN flight : flight[c].waiting \subseteq Requests
  /\ token \in [Requests -> JWTs \cup Opaque \cup {None}]
  /\ JwksTypeOK /\ IntrospectionTypeOK

\* The caches implement bounded staleness: unless the provider failed, a kid is
\* taken or refused as the provider published it less than jwks_cache_ttl and a
\* fetch ago, and an opaque token is accepted or refused as the provider said
\* less than the TTL of such an answer and a call ago, outages included.
Staleness == [k \in Kids \cup Opaque |-> [a \in BOOLEAN |->
  MaxFetch + (IF k \in Kids THEN CacheTTL ELSE IF a THEN IntroTTL ELSE NegativeTTL)]]
Freshness == INSTANCE BoundedStaleness WITH
  truth <- Truth, Keys <- Kids \cup Opaque, Answers <- BOOLEAN, Bound <- Staleness
RefinesBoundedStaleness == Freshness!Spec
=============================================================================
