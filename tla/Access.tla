------------------------------- MODULE Access -------------------------------
(***************************************************************************)
(* Who may do what: authentication (internal/authn) and the authorization  *)
(* of the routes of the two servers (internal/otlp/core.go and             *)
(* internal/metricsapi/auth.go).                                           *)
(*                                                                         *)
(* A request walks through AuthenticateForTenant one lookup or provider    *)
(* call at a time.  Between two of them operators change memberships, keys *)
(* and tenants, and a provider can become unreachable.  Requests share     *)
(* nothing but these, so the model has one.  What a lookup answers may in  *)
(* the program be a cached answer (TenantCache, Introspection): here it    *)
(* answers what holds.                                                     *)
(***************************************************************************)
EXTENDS Integers, FiniteSets

CONSTANTS
  Tenants,
  AuthConfigs, \* server, methods, introspection, admin, trust: see ConfigSpace
  Tokens,      \* credentials, what each verifier would say of them: see TokenSpace
  MaxEdits,    \* bound: operators' changes over a behaviour
  NoTenant, NoToken

Roles == {"viewer", "admin"}

ConfigSpace ==
  [server : {"public", "metrics"}, methods : SUBSET {"api_key", "jwt", "oidc"},
   userIntro : BOOLEAN, admin : {"off", "same", "own"}, adminIntro : BOOLEAN,
   adminRole : Roles, roleClaim : BOOLEAN, trust : BOOLEAN]

\* A verifier's verdict; the claim and the role in the token; the tenant and the
\* scope of the key stored under the credential's hash, if there is one.
TokenSpace ==
  [form : {"empty", "key", "hs256", "asymmetric", "other_alg", "opaque"},
   user : {"ok", "invalid", "scope"}, admin : {"ok", "invalid", "scope"}, recognised : BOOLEAN,
   claim : Tenants \cup {"none", "bad"}, sub : BOOLEAN, role : Roles \cup {"none"},
   tenant : Tenants \cup {NoTenant}, scope : {"", "public_ingest", "metrics_query", "metrics_admin"}]

ASSUME AccessAssumption ==
  /\ AuthConfigs \subseteq ConfigSpace /\ Tokens \subseteq TokenSpace
  /\ \A t \in Tokens : t.scope # "" => t.tenant \in Tenants
  /\ {"", "none", "bad", NoTenant} \cap Tenants = {}

VARIABLES
  auth,
  status, members, revoked,    \* the database: tenants, tenant_members, api_keys
  edits,
  stage, credential, hint, route,   \* the request
  id,                          \* the Identity it has so far
  adminErr,                    \* why admin verification did not apply
  response,                    \* "" or the HTTP status
  owned, activeSeen,               \* history: memberships and active tenants seen since it began
  outage                       \* history: a verifier could not reach its provider

request == <<stage, credential, hint, route, id, adminErr, response>>
database == <<status, members, revoked>>
history == <<owned, activeSeen, outage>>
accessVars == <<auth, database, edits, request, history>>

Errors == {"unauthenticated", "suspended", "no_access", "tenant_required", "scope", "unavailable", "internal"}
Nobody == [method |-> "none", admin |-> FALSE, tenant |-> NoTenant, role |-> "", scope |-> ""]

Memberships == {<<t, members[t]>> : t \in {t \in Tenants : members[t] # ""}}
ActiveTenants == {t \in Tenants : status[t] = "active"}

AccessInit ==
  /\ auth \in AuthConfigs
  /\ status \in [Tenants -> {"active", "suspended"}] /\ "active" \in {status[t] : t \in Tenants}
  /\ members \in [Tenants -> Roles \cup {""}]
  /\ revoked = FALSE
  /\ edits = 0
  /\ stage = "idle" /\ credential = NoToken /\ hint = "" /\ route = "none"
  /\ id = Nobody /\ adminErr = "" /\ response = ""
  /\ owned = {} /\ activeSeen = {} /\ outage = FALSE

-----------------------------------------------------------------------------
(* Operators.                                                              *)

Change ==
  /\ edits < MaxEdits /\ stage \notin {"idle", "done"} /\ edits' = edits + 1
  /\ owned' = owned \cup {<<t, members'[t]>> : t \in {t \in Tenants : members'[t] # ""}}
  /\ activeSeen' = activeSeen \cup {t \in Tenants : status'[t] = "active"}
  /\ UNCHANGED <<auth, request, outage>>

AddMember(t, r) ==
  /\ members[t] # r
  /\ members' = [members EXCEPT ![t] = r] /\ UNCHANGED <<status, revoked>> /\ Change

RemoveMember(t) ==
  /\ members[t] # ""
  /\ members' = [members EXCEPT ![t] = ""] /\ UNCHANGED <<status, revoked>> /\ Change

\* By hand: no command changes tenants.status.
SetStatus(t, s) ==
  /\ status[t] # s
  /\ status' = [status EXCEPT ![t] = s] /\ UNCHANGED <<members, revoked>> /\ Change

RevokeAPIKey ==
  /\ ~ revoked /\ revoked' = TRUE /\ UNCHANGED <<status, members>> /\ Change

Operator ==
  \/ \E t \in Tenants :
       \/ \E r \in Roles : AddMember(t, r)
       \/ RemoveMember(t)
       \/ \E s \in {"active", "suspended"} : SetStatus(t, s)
  \/ RevokeAPIKey

-----------------------------------------------------------------------------
(* A request.  Each step ends with a lookup or a provider call, or answers. *)

\* writeAuthError; for the public server authenticate and httpStatusForAuthError.
HTTPStatus(err) ==
  CASE err = "unavailable" -> "503"
    [] err \in {"scope", "suspended", "no_access"} -> "403"
    [] err = "tenant_required" -> IF auth.server = "public" THEN "403" ELSE "400"
    [] err = "unauthenticated" -> "401"
    [] err = "internal" -> "500"

Respond(a) == stage' = "done" /\ response' = a
writeAuthError(err) == Respond(HTTPStatus(err)) /\ id' = Nobody

Routes == IF auth.server = "public" THEN {"export"} ELSE {"read", "catalog", "layout", "tenants"}
Hints == IF auth.server = "public" THEN {""} ELSE {"", "bad"} \cup Tenants

\* v.admin is nil unless EnableAdmin was called with a rule and the oidc method.
HasAdmin == auth.admin # "off" /\ auth.server = "metrics" /\ "oidc" \in auth.methods
OwnVerifier == HasAdmin /\ auth.admin = "own"
\* With no verifier of its own, admin verification is user verification.
AdminIntrospects == OwnVerifier /\ auth.adminIntro

\* AuthenticateSubject: the method is picked by the form of the credential.
Dispatch(t) ==
  CASE t.form = "empty" -> "unauthenticated"
    [] t.form = "key" -> "apikey"
    [] t.form = "hs256" -> IF "jwt" \in auth.methods THEN "jwt" ELSE "unauthenticated"
    [] t.form = "asymmetric" -> IF "oidc" \in auth.methods THEN "oidc" ELSE "unauthenticated"
    [] t.form = "other_alg" -> "unauthenticated"
    [] t.form = "opaque" ->
         IF "oidc" \in auth.methods /\ (auth.userIntro \/ AdminIntrospects) THEN "oidc" ELSE "apikey"

\* authenticateAdminFirst applies.
AdminFirst(t) == OwnVerifier /\ (t.form = "opaque" => auth.adminIntro)

AfterDispatch(t) ==
  IF Dispatch(t) # "oidc" THEN Dispatch(t)
  ELSE IF AdminFirst(t) THEN "verify_admin" ELSE "verify_user"

\* userMiddleware reads no hint.
Arrive(t, h, r) ==
  /\ stage = "idle" /\ (r = "tenants" => h = "")
  /\ credential' = t /\ hint' = h /\ route' = r /\ adminErr' = ""
  /\ owned' = Memberships /\ activeSeen' = ActiveTenants /\ outage' = FALSE
  /\ id' = Nobody
  /\ IF AfterDispatch(t) = "unauthenticated"
       THEN Respond(HTTPStatus("unauthenticated"))
       ELSE stage' = AfterDispatch(t) /\ response' = ""
  /\ UNCHANGED <<auth, database, edits>>

\* Mutant of Bound: the hint is not compared with the credential's tenant.
BoundWhateverHint(i) == stage' = "authorize" /\ id' = i /\ UNCHANGED response

\* The credential names its tenant: the route decides, or the hint refuses.
Bound(i) ==
  IF route # "tenants" /\ hint # "" /\ hint # i.tenant
    THEN writeAuthError("no_access")
    ELSE stage' = "authorize" /\ id' = i /\ UNCHANGED response

Scopes == IF auth.server = "public" THEN {"public_ingest"} ELSE {"metrics_query", "metrics_admin"}

\* Resolve finds the key under an accepted scope, and it is not revoked.
KeyFound == credential.scope \in Scopes /\ ~ revoked

authenticateAPIKey ==
  /\ stage = "apikey"
  /\ IF "api_key" \notin auth.methods \/ ~ KeyFound THEN writeAuthError("unauthenticated")
     ELSE IF status[credential.tenant] # "active" THEN writeAuthError("suspended")
     ELSE Bound([Nobody EXCEPT !.method = "api_key", !.tenant = credential.tenant, !.scope = credential.scope])
  /\ UNCHANGED <<auth, database, edits, credential, hint, route, adminErr, history>>

\* The claim is re-resolved; the claims alone are not trusted.
authenticateJWT ==
  /\ stage = "jwt"
  /\ IF credential.user # "ok" \/ credential.claim \notin Tenants THEN writeAuthError("unauthenticated")
     ELSE IF status[credential.claim] # "active" THEN writeAuthError("suspended")
     ELSE Bound([Nobody EXCEPT !.method = "jwt", !.tenant = credential.claim])
  /\ UNCHANGED <<auth, database, edits, credential, hint, route, adminErr, history>>

\* What a verifier says: its verdict, or that its provider cannot be reached.
Verdicts(v) == {v, "unavailable"}
AsError(v) == IF v = "invalid" THEN "unauthenticated" ELSE v

roleFor == IF auth.roleClaim /\ credential.role \in Roles THEN credential.role ELSE auth.adminRole

\* Who the verified token is, an admin if a rule recognises it.
Subject(recognised) ==
  [Nobody EXCEPT !.method = "oidc", !.admin = recognised, !.role = IF recognised THEN roleFor ELSE ""]

\* After verification: GET /v1/tenants lists, anything else needs a tenant.
Verified(recognised) ==
  /\ id' = Subject(recognised)
  /\ stage' = IF route = "tenants" THEN "list" ELSE IF recognised THEN "select_admin" ELSE "select"
  /\ UNCHANGED response

\* authenticateAdminFirst, and what authenticateOIDC makes of its failure.
VerifyAdmin == stage = "verify_admin" /\ \E v \in Verdicts(credential.admin) :
  /\ outage' = (outage \/ v = "unavailable")
  /\ adminErr' = IF v = "ok" THEN "" ELSE AsError(v)
  /\ IF v = "ok" /\ credential.recognised THEN Verified(TRUE)
     ELSE IF credential.form = "opaque" /\ ~ auth.userIntro
       THEN IF adminErr' \notin {"", "unauthenticated"} THEN writeAuthError(adminErr')
            ELSE stage' = "apikey" /\ UNCHANGED <<id, response>>
     ELSE stage' = "verify_user" /\ UNCHANGED <<id, response>>
  /\ UNCHANGED <<auth, database, edits, credential, hint, route, owned, activeSeen>>

\* Mutant of preferAdminErr: always the user verifier's error.
preferUserErr(userErr) == userErr

preferAdminErr(userErr) ==
  IF userErr = "unauthenticated" /\ adminErr \in {"unavailable", "scope"} THEN adminErr ELSE userErr

\* Mutant of Recognised: a rule is asked although admin tokens have a verifier of their own.
RecognisedByEither == HasAdmin /\ credential.recognised

\* A token of the user verifier is an admin's only if admins have no other verifier.
Recognised == HasAdmin /\ ~ OwnVerifier /\ credential.recognised

VerifyUser == stage = "verify_user" /\ \E v \in Verdicts(credential.user) :
  /\ outage' = (outage \/ v = "unavailable")
  /\ IF v = "ok" THEN Verified(Recognised) ELSE writeAuthError(preferAdminErr(AsError(v)))
  /\ UNCHANGED <<auth, database, edits, credential, hint, route, adminErr, owned, activeSeen>>

Resolve(t, r) == stage' = "resolve" /\ id' = [id EXCEPT !.tenant = t, !.role = r] /\ UNCHANGED response

\* The memberships the request may mean.
Choices == IF hint = "" THEN Memberships ELSE {m \in Memberships : m[1] = hint}

\* selectTenant up to its choice, or the trusted claim.
selectTenant ==
  /\ stage = "select"
  /\ IF credential.claim = "bad" THEN writeAuthError("no_access")
     ELSE IF credential.claim \in Tenants /\ auth.trust
       THEN IF hint \notin {"", credential.claim} THEN writeAuthError("no_access") ELSE Resolve(credential.claim, "")
     ELSE IF ~ credential.sub \/ (credential.claim \in Tenants /\ members[credential.claim] = "") THEN writeAuthError("no_access")
     ELSE IF Choices = {} THEN writeAuthError("no_access")
     ELSE IF Cardinality(Choices) > 1 THEN writeAuthError("tenant_required")
     ELSE \E c \in Choices : Resolve(c[1], c[2])
  /\ UNCHANGED <<auth, database, edits, credential, hint, route, adminErr, history>>

selectAdminTenant ==
  /\ stage = "select_admin"
  /\ IF hint = "bad" THEN writeAuthError("no_access")
     ELSE IF hint # "" THEN Resolve(hint, id.role)
     ELSE IF ActiveTenants = {} THEN writeAuthError("no_access")
     ELSE IF Cardinality(ActiveTenants) > 1 THEN writeAuthError("tenant_required")
     ELSE \E t \in ActiveTenants : Resolve(t, id.role)
  /\ UNCHANGED <<auth, database, edits, credential, hint, route, adminErr, history>>

Usable(t) == status[t] = "active"

\* ResolveByTenantID, the last lookup.
resolveTenant ==
  /\ stage = "resolve"
  /\ IF Usable(id.tenant) THEN stage' = "authorize" /\ UNCHANGED <<id, response>>
     ELSE writeAuthError(IF id.admin THEN "no_access" ELSE "suspended")
  /\ UNCHANGED <<auth, database, edits, credential, hint, route, adminErr, history>>

isCatalogKey == id.method = "api_key" /\ id.scope = "metrics_admin"

\* readOnlyAccess, catalogWriteAccess, layoutWriteAccess, userMiddleware's
\* refusal of credentials that are not OIDC, and core.authenticate's of admins.
Allowed ==
  CASE route = "read" -> ~ isCatalogKey
    [] route = "catalog" -> isCatalogKey \/ id.role = "admin"
    [] route = "layout" -> ~ isCatalogKey /\ id.role = "admin"
    [] route = "tenants" -> FALSE
    [] route = "export" -> ~ id.admin

Authorize ==
  /\ stage = "authorize" /\ Respond(IF Allowed THEN "200" ELSE "403")
  /\ UNCHANGED <<auth, database, edits, credential, hint, route, id, adminErr, history>>

\* GET /v1/tenants: the memberships, or for an admin the active tenants.
handleTenants ==
  /\ stage = "list" /\ Respond("200")
  /\ UNCHANGED <<auth, database, edits, credential, hint, route, id, adminErr, history>>

\* A lookup fails: Postgres is unreachable.
LookupFails ==
  /\ stage \in {"apikey", "jwt", "select", "select_admin", "resolve", "list"}
  /\ stage = "apikey" => "api_key" \in auth.methods
  /\ stage = "jwt" => credential.user = "ok" /\ credential.claim \in Tenants
  /\ stage = "select" => credential.claim # "bad" /\ credential.sub /\ ~ (auth.trust /\ credential.claim \in Tenants)
  /\ stage = "select_admin" => hint = ""
  /\ writeAuthError("internal")
  /\ UNCHANGED <<auth, database, edits, credential, hint, route, adminErr, history>>

\* The answer is sent, and what the request knew is forgotten.
Replied ==
  /\ stage = "done"
  /\ stage' = "idle" /\ credential' = NoToken /\ hint' = "" /\ route' = "none"
  /\ id' = Nobody /\ adminErr' = "" /\ response' = ""
  /\ owned' = {} /\ activeSeen' = {} /\ outage' = FALSE
  /\ UNCHANGED <<auth, database, edits>>

Request ==
  \/ stage = "idle" /\ \E t \in Tokens, h \in Hints, r \in Routes : Arrive(t, h, r)
  \/ authenticateAPIKey \/ authenticateJWT \/ VerifyAdmin \/ VerifyUser
  \/ selectTenant \/ selectAdminTenant \/ resolveTenant
  \/ Authorize \/ handleTenants \/ LookupFails \/ Replied

AccessNext == Operator \/ Request

AccessSpec == AccessInit /\ [][AccessNext]_accessVars
-----------------------------------------------------------------------------
(* Properties.                                                             *)

Identities ==
  [method : {"none", "api_key", "jwt", "oidc"}, admin : BOOLEAN, tenant : Tenants \cup {NoTenant},
   role : Roles \cup {""}, scope : {"", "public_ingest", "metrics_query", "metrics_admin"}]

AccessTypeOK ==
  /\ auth \in ConfigSpace
  /\ stage \in {"idle", "done", "apikey", "jwt", "verify_admin", "verify_user", "select", "select_admin",
             "resolve", "authorize", "list"}
  /\ response \in {"", "200", "400", "401", "403", "500", "503"}
  /\ id \in Identities
  /\ stage \in {"resolve", "authorize"} => id.tenant \in Tenants

\* The request was let through to a tenant's data.
Granted == response = "200" /\ route # "tenants"

\* "The hint only ever chooses among tenants the verified identity already
\* owns": a tenant is granted only to a key of it, to a token trusted to name
\* it, to a recognised admin, or to an identity that was a member of it, with
\* the role it is given, at some moment of the request; and only a tenant that
\* was active at some moment of the request, the one the hint names if it names one.
TenantIsOwned == Granted =>
  /\ id.tenant \in activeSeen /\ hint \in {"", id.tenant}
  /\ \/ id.method = "api_key" /\ credential.tenant = id.tenant
     \/ id.method = "jwt" /\ credential.claim = id.tenant /\ credential.user = "ok"
     \/ id.method = "oidc" /\ id.admin
     \/ id.method = "oidc" /\ auth.trust /\ credential.claim = id.tenant /\ id.role = ""
     \/ id.method = "oidc" /\ <<id.tenant, id.role>> \in owned

\* "401 means sign in again": a caller is told so only when every verifier
\* asked has judged the credential; an outage met on the way, the admin
\* provider's included, is never reported as a bad token.
OutageIsNot401 == response = "401" => ~ outage

\* "Roles come from memberships or the admin identity rules, never from the
\* request".  An identity is an admin only on the metrics server, when a rule
\* recognises a token that the verifier configured for admins accepted; a key
\* reaches the routes of its own scope only, and no key saves a layout; whoever
\* else writes held the admin role in that tenant during the request, or is an
\* admin whose role is admin.
RightsAreVerified ==
  /\ id.admin =>
       /\ auth.server = "metrics" /\ "oidc" \in auth.methods /\ credential.recognised
       /\ IF auth.admin = "own" THEN credential.admin = "ok"
          ELSE auth.admin = "same" /\ credential.user = "ok"
  /\ Granted /\ id.method = "api_key" =>
       <<route, credential.scope>> \in {<<"export", "public_ingest">>, <<"read", "metrics_query">>,
                                  <<"catalog", "metrics_admin">>}
  /\ Granted /\ route \in {"catalog", "layout"} /\ id.method # "api_key" =>
       id.method = "oidc" /\ id.role = "admin" /\ (id.admin \/ <<id.tenant, "admin">> \in owned)
=============================================================================
