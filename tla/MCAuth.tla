------------------------------- MODULE MCAuth -------------------------------
(***************************************************************************)
(* How a request is authenticated and what its verifiers remember.  A      *)
(* behaviour follows one of two parts, neither of which reads the state of *)
(* the other.                                                              *)
(*                                                                         *)
(* Requests: two tenants, both servers, six configurations of verifiers,   *)
(* every credential the code tells apart.  With a tenant suspended at      *)
(* first, the user has the same role in both.                              *)
(* Verifiers: two requests, two keys, a token of each key and one without  *)
(* a kid; two opaque tokens, of which one expires early, and a cache for   *)
(* one.                                                                    *)
(***************************************************************************)
EXTENDS Access, Verifier, TLC

CONSTANTS
  t1, t2, r1, r2, k1, k2, o1, o2,
  Parts  \* the parts followed, of those named in MCInit

VARIABLE followed

All == {"api_key", "jwt", "oidc"}

Config(server, methods, userIntro, admin, adminIntro, trust) ==
  [server |-> server, methods |-> methods, userIntro |-> userIntro, admin |-> admin,
   adminIntro |-> adminIntro, trust |-> trust, adminRole |-> "viewer", roleClaim |-> admin = "own"]

MCConfigs ==
  {Config("public", All, TRUE, "own", FALSE, TRUE),
   Config("metrics", {"api_key"}, FALSE, "off", FALSE, FALSE),
   Config("metrics", {"jwt", "oidc"}, TRUE, "off", FALSE, TRUE),
   Config("metrics", All, TRUE, "same", FALSE, FALSE),
   Config("metrics", All, FALSE, "own", TRUE, FALSE),
   Config("metrics", {"oidc"}, TRUE, "own", FALSE, FALSE)}

Blank == [form |-> "empty", user |-> "invalid", admin |-> "invalid", recognised |-> FALSE,
          claim |-> "none", sub |-> TRUE, role |-> "none", tenant |-> NoTenant, scope |-> ""]

Judged == {"ok", "invalid", "scope"}

MCTokens ==
  {[Blank EXCEPT !.form = f] : f \in {"empty", "other_alg", "key", "opaque"}}
  \cup {[Blank EXCEPT !.form = "key", !.tenant = t, !.scope = k] :
          t \in Tenants, k \in {"public_ingest", "metrics_query", "metrics_admin"}}
  \cup {[Blank EXCEPT !.form = "opaque", !.tenant = t, !.scope = "metrics_query"] : t \in Tenants}
  \cup {[Blank EXCEPT !.form = "hs256", !.user = "ok", !.claim = c] : c \in {"none", "bad"} \cup Tenants}
  \cup {[Blank EXCEPT !.form = "hs256", !.claim = c] : c \in Tenants}
  \cup {[Blank EXCEPT !.form = "asymmetric", !.user = u, !.recognised = r, !.admin = "ok", !.role = "admin"] :
          u \in Judged, r \in BOOLEAN}
  \cup {[Blank EXCEPT !.form = "asymmetric", !.user = u, !.recognised = TRUE, !.role = "admin"] :
          u \in Judged}
  \cup {[Blank EXCEPT !.form = "opaque", !.user = u, !.admin = a, !.recognised = TRUE] :
          u \in {"ok", "invalid"}, a \in Judged}
  \cup {[Blank EXCEPT !.form = "asymmetric", !.user = "ok", !.claim = c] : c \in {"bad"} \cup Tenants}
  \cup {[Blank EXCEPT !.form = "asymmetric", !.user = "ok", !.sub = FALSE]}

-----------------------------------------------------------------------------
JWT(kid, by) == [kid |-> kid, by |-> by, claims |-> "ok"]

MCJWTs == {JWT(k1, k1), JWT(k2, k2), JWT(NoKid, k1)}

MCExp == (o1 :> 1 @@ o2 :> 9)

-----------------------------------------------------------------------------
mcVars == <<accessVars, vars, followed>>

MCInit ==
  /\ AccessInit /\ Init /\ followed \in Parts \cap {"requests", "verifiers"}
  /\ followed = "requests" =>
       /\ tokens = "jwt" /\ published = {k1}
       /\ (\E t \in Tenants : status[t] = "suspended") => Cardinality({members[t] : t \in Tenants}) = 1
  /\ followed = "verifiers" =>
       /\ auth = CHOOSE c \in AuthConfigs : TRUE
       /\ \A t \in Tenants : status[t] = "active" /\ members[t] = ""

RequestStep == followed = "requests" /\ AccessNext /\ UNCHANGED <<vars, followed>>

VerifierStep == followed = "verifiers" /\ Next /\ UNCHANGED <<accessVars, followed>>

\* The verifiers come to rest when time is up; a request always goes on.
Rest == followed = "verifiers" /\ now = MaxTime /\ UNCHANGED mcVars

MCNext == RequestStep \/ VerifierStep \/ Rest

MCSpec == MCInit /\ [][MCNext]_mcVars

Symmetry == Permutations(Tenants) \cup Permutations(Requests)
=============================================================================
