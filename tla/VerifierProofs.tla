--------------------------- MODULE VerifierProofs ---------------------------
(***************************************************************************)
(* Proofs about the verifier of an OIDC provider, for any number of        *)
(* requests, keys and tokens, any TTLs and any outages: the limits of its  *)
(* caches, what an outage may cost, and bounded staleness.                 *)
(*                                                                         *)
(* The invariant follows a document of the provider from the moment it is  *)
(* read, through the shared call that reads it and the requests that wait  *)
(* for it, into the cache.  A request that has its result is not waiting   *)
(* any more, so that the clock stands until it has used it.                *)
(***************************************************************************)
EXTENDS Verifier, FiniteSetTheorems, TLAPS

\* The arithmetic of moments, TTLs and leeways.
LEMMA NatSums ==
  ASSUME NEW n \in Nat, NEW x \in Nat, NEW l \in Nat
  PROVE  /\ n + l \in Nat /\ n + l <= n + l
         /\ ~ (n > x + l) => n <= x + l
         /\ \A e \in Nat : n < e /\ e <= x => n <= x + l
OBVIOUS

\* A bound on an age, with its two parts named as one.
LEMMA SumMoved ==
  ASSUME NEW n \in Nat, NEW s \in Int, NEW m \in Nat, NEW d \in Nat, NEW b,
         b = m + d, n < s + m + d
  PROVE  n < s + b /\ b \in Int
OBVIOUS

AllKeys == Kids \cup Opaque

\* By the truth and the ends en: the answer a for k holds, or ceased to at s or
\* later.
Held(truth, en, k, a, s) == truth[k] = a \/ (a \in DOMAIN en[k] /\ s <= en[k][a])

\* A set of keys held, kid by kid.
SetHeld(truth, en, set, s) == \A k \in Kids : Held(truth, en, k, k \in set, s)

Documents == (SUBSET Kids) \cup {"document", "active", "inactive", None, Failed}
CallSet == [began : Nat, read : Documents, waiting : SUBSET Requests]

\* The calls in progress at time n.
CallsOK(fl, n) ==
  /\ fl = [c \in DOMAIN fl |-> fl[c]]
  /\ \A c \in DOMAIN fl : fl[c] \in CallSet /\ fl[c].began <= n /\ n <= fl[c].began + MaxFetch

Base ==
  /\ tokens \in {"jwt", "opaque"}
  /\ now \in Nat /\ published \in SUBSET Kids /\ active \in SUBSET Opaque
  /\ pc = [r \in Requests |-> pc[r]] /\ token = [r \in Requests |-> token[r]]
  /\ got = [r \in Requests |-> got[r]]
  /\ ended = [k \in AllKeys |-> ended[k]]
  /\ \A k \in AllKeys : \A a \in DOMAIN ended[k] : ended[k][a] \in Nat
  /\ CallsOK(flight, now)

\* While JWTs are verified.
JwtFlights ==
  /\ DOMAIN flight \subseteq {"discovery", "jwks"}
  /\ \A c \in DOMAIN flight : \A r \in flight[c].waiting :
       pc[r] = (IF c = "jwks" THEN "refreshed" ELSE "discovered") /\ got[r] = None
  /\ "jwks" \in DOMAIN flight /\ flight["jwks"].read \notin {None, Failed} =>
       /\ flight["jwks"].read \in SUBSET Kids
       /\ SetHeld(Truth, ended, flight["jwks"].read, flight["jwks"].began)

JwtRequests ==
  \A r \in Requests :
    /\ pc[r] # "idle" => token[r] \in JWTs
    /\ got[r] # None => pc[r] \in {"discovered", "refreshed"}
    /\ pc[r] = "refreshed" /\ got[r] \notin {None, Failed} =>
         got[r] \in SUBSET Kids /\ SetHeld(Truth, ended, got[r], now - MaxFetch)

JwtCache ==
  /\ keys \in SUBSET Kids
  /\ fetchedAt # None =>
       fetchedAt \in Nat /\ fetchedAt <= now /\ SetHeld(Truth, ended, keys, fetchedAt - MaxFetch)
  /\ DOMAIN entries = {} /\ reply = NoReply

JwtInv == tokens = "jwt" => JwtFlights /\ JwtRequests /\ JwtCache

\* While opaque tokens are verified.
OpaqueFlights ==
  /\ DOMAIN flight \subseteq Opaque
  /\ \A c \in DOMAIN flight :
       /\ \A r \in flight[c].waiting : pc[r] = "introspected" /\ token[r] = c /\ got[r] = None
       /\ flight[c].read \in {"active", "inactive", None, Failed}
       /\ flight[c].read \in {"active", "inactive"} =>
            Held(Truth, ended, c, flight[c].read = "active", flight[c].began)

\* What a verdict v on t that a request has at time n is good for.
VerdictOK(truth, en, n, t, v) ==
  /\ v \in {"active", "inactive", "expired", Failed}
  /\ v = "active" => n <= Exp[t] + Leeway
  /\ v \in {"active", "inactive"} => Held(truth, en, t, v = "active", n - MaxFetch)

OpaqueRequests ==
  \A r \in Requests :
    /\ pc[r] # "idle" => token[r] \in Opaque
    /\ got[r] # None => pc[r] = "introspected" /\ VerdictOK(Truth, ended, now, token[r], got[r])

TTL(v) == IF v = "active" THEN IntroTTL ELSE NegativeTTL

\* What an entry e for t is good for, at time n.
EntryOK(truth, en, n, t, e) ==
  /\ e.verdict \in {"active", "inactive", "expired"} /\ e.expires \in Nat
  /\ e.expires <= n + TTL(e.verdict)
  /\ e.verdict = "active" => e.expires <= Exp[t]
  /\ e.verdict \in {"active", "inactive"} =>
       Held(truth, en, t, e.verdict = "active", e.expires - TTL(e.verdict) - MaxFetch)

OpaqueCache ==
  /\ DOMAIN entries \subseteq Opaque /\ entries = [t \in DOMAIN entries |-> entries[t]]
  /\ IsFiniteSet(DOMAIN entries) /\ Cardinality(DOMAIN entries) <= MaxEntries
  /\ \A t \in DOMAIN entries : EntryOK(Truth, ended, now, t, entries[t])
  /\ answer = NoAnswer

OpaqueInv == tokens = "opaque" => OpaqueFlights /\ OpaqueRequests /\ OpaqueCache

VerifierInv == Base /\ JwtInv /\ OpaqueInv

-----------------------------------------------------------------------------
(* What held goes on having held.                                          *)

WorldKeeps ==
  \A k \in AllKeys : \A a : \A s \in Int :
    s <= now /\ Held(Truth, ended, k, a, s) => Held(Truth', ended', k, a, s)

\* What the provider said of a key or a token ends when it says otherwise.
LEMMA ProviderKeeps ==
  ASSUME Base, ProviderStep
  PROVE  WorldKeeps
<1> SUFFICES ASSUME NEW k \in AllKeys, NEW a, NEW s \in Int, s <= now, Held(Truth, ended, k, a, s)
             PROVE  Held(Truth', ended', k, a, s)
  BY Zenon DEF WorldKeeps
<1>1. ended'[k] = IF Truth'[k] = Truth[k] THEN ended[k]
                  ELSE [b \in DOMAIN ended[k] \cup {Truth[k]} |->
                          IF b = Truth[k] THEN now ELSE ended[k][b]]
  BY Zenon DEF Base, ProviderStep
<1>2. CASE Truth'[k] = Truth[k]
  BY <1>1, <1>2, Zenon DEF Held
<1>3. CASE Truth'[k] # Truth[k]
  <2>1. a \in DOMAIN ended'[k] /\ ended'[k][a] = IF a = Truth[k] THEN now ELSE ended[k][a]
    BY <1>1, <1>3, Zenon DEF Held
  <2> QED
    BY <2>1, Zenon DEF Held
<1> QED
  BY <1>2, <1>3, Zenon

\* While the provider does nothing, nothing ends.
LEMMA StillKeeps ==
  ASSUME UNCHANGED <<published, active, ended>>
  PROVE  Truth' = Truth /\ WorldKeeps
<1>1. Truth' = Truth
  BY Zenon DEF Truth
<1> QED
  BY <1>1, Zenon DEF WorldKeeps

\* Sets of keys, verdicts and entries keep what they are good for.
LEMMA SetKeeps ==
  ASSUME WorldKeeps, NEW set, NEW s \in Int, s <= now, SetHeld(Truth, ended, set, s)
  PROVE  SetHeld(Truth', ended', set, s)
<1> SUFFICES ASSUME NEW k \in Kids PROVE Held(Truth', ended', k, k \in set, s)
  BY Zenon DEF SetHeld
<1>1. k \in AllKeys /\ Held(Truth, ended, k, k \in set, s)
  BY Zenon DEF SetHeld, AllKeys
<1> QED
  BY <1>1, Zenon DEF WorldKeeps

\* The verdict of an introspection stays as good as it was.
LEMMA VerdictKeeps ==
  ASSUME WorldKeeps, now \in Nat, NEW t \in Opaque, NEW v, VerdictOK(Truth, ended, now, t, v)
  PROVE  VerdictOK(Truth', ended', now, t, v)
<1>1. t \in AllKeys /\ now - MaxFetch \in Int /\ now - MaxFetch <= now
  BY ProviderAssumption DEF AllKeys
<1>2. v \in {"active", "inactive"} => Held(Truth', ended', t, v = "active", now - MaxFetch)
  BY <1>1, Zenon DEF VerdictOK, WorldKeeps
<1> QED
  BY <1>2, Zenon DEF VerdictOK

\* So does a cached verdict, until its expiry and after.
LEMMA EntryKeeps ==
  ASSUME WorldKeeps, now \in Nat, now' \in {now, now + 1}, NEW t \in Opaque, NEW e,
         EntryOK(Truth, ended, now, t, e)
  PROVE  EntryOK(Truth', ended', now', t, e)
<1> DEFINE s == e.expires - TTL(e.verdict) - MaxFetch
<1>1. TTL(e.verdict) \in Nat /\ e.expires \in Nat /\ e.expires <= now + TTL(e.verdict)
  BY IntrospectionAssumption, Zenon DEF TTL, EntryOK
<1>2. t \in AllKeys /\ s \in Int /\ s <= now /\ e.expires <= now' + TTL(e.verdict)
  <2> DEFINE x == e.expires
             l == TTL(e.verdict)
  <2>1. x \in Nat /\ l \in Nat /\ x <= now + l
    BY <1>1, Zenon
  <2>3. now' \in Nat /\ now <= now'
    BY ProviderAssumption
  <2> HIDE DEF x, l
  <2>4. MaxFetch \in Nat
    BY ProviderAssumption, Zenon
  <2>5. x - l - MaxFetch \in Int /\ x - l - MaxFetch <= now
    BY <2>1, <2>4
  <2>6. x <= now' + l
    <3> DEFINE m == now'
    <3>1. m \in Nat /\ now <= m
      BY <2>3, Zenon
    <3> HIDE DEF m
    <3>2. x <= m + l
      BY <2>1, <3>1
    <3> QED
      BY <3>2, Zenon DEF m
  <2>2. x - l - MaxFetch \in Int /\ x - l - MaxFetch <= now /\ x <= now' + l
    BY <2>5, <2>6, Zenon
  <2> QED
    BY <2>2, Zenon DEF x, l, AllKeys
<1> HIDE DEF s
<1>3. e.verdict \in {"active", "inactive"} => Held(Truth', ended', t, e.verdict = "active", s)
  <2>1. e.verdict \in {"active", "inactive"} => Held(Truth, ended, t, e.verdict = "active", s)
    BY Zenon DEF EntryOK, s
  <2> QED
    BY <1>2, <2>1, Zenon DEF WorldKeeps
<1> QED
  BY <1>2, <1>3, Zenon DEF EntryOK, s

-----------------------------------------------------------------------------
(* The shared calls.                                                       *)

\* "Nothing fetched" and "fetch failed" are outcomes of a call.
LEMMA Sentinels == None \in Documents /\ Failed \in Documents
  BY Zenon DEF Documents

\* A request joins a call, or begins it.
LEMMA DoCalls ==
  ASSUME CallsOK(flight, now), now \in Nat, NEW r \in Requests, NEW c, Do(r, c)
  PROVE  /\ CallsOK(flight', now) /\ DOMAIN flight' = DOMAIN flight \cup {c}
         /\ \A d \in DOMAIN flight' :
              /\ \A q \in flight'[d].waiting :
                   (q = r /\ d = c) \/ (d \in DOMAIN flight /\ q \in flight[d].waiting)
              /\ flight'[d].read # None =>
                   d \in DOMAIN flight /\ flight'[d].read = flight[d].read /\ flight'[d].began = flight[d].began
<1>1. CASE c \in DOMAIN flight
  <2>1. flight' = [flight EXCEPT ![c].waiting = @ \cup {r}]
    BY <1>1, Zenon DEF Do
  <2>2. /\ DOMAIN flight' = DOMAIN flight /\ flight' = [d \in DOMAIN flight' |-> flight'[d]]
        /\ flight'[c] = [flight[c] EXCEPT !.waiting = @ \cup {r}]
        /\ \A d \in DOMAIN flight \ {c} : flight'[d] = flight[d]
    BY <1>1, <2>1, Zenon DEF CallsOK
  <2>3. flight[c] \in CallSet
    BY <1>1, Zenon DEF CallsOK
  <2>4. /\ flight'[c] \in CallSet /\ flight'[c].began = flight[c].began /\ flight'[c].read = flight[c].read
        /\ flight'[c].waiting = flight[c].waiting \cup {r}
    BY <2>2, <2>3 DEF CallSet
  <2>5. CallsOK(flight', now)
    BY <1>1, <2>2, <2>4, Zenon DEF CallsOK
  <2> QED
    BY <1>1, <2>2, <2>4, <2>5, Zenon
<1>2. CASE c \notin DOMAIN flight
  <2>1. flight' = [d \in DOMAIN flight \cup {c} |-> IF d \in DOMAIN flight THEN flight[d]
                     ELSE [began |-> now, read |-> None, waiting |-> {r}]]
    BY <1>2, Zenon DEF Do
  <2>2. /\ DOMAIN flight' = DOMAIN flight \cup {c} /\ flight' = [d \in DOMAIN flight' |-> flight'[d]]
        /\ flight'[c] = [began |-> now, read |-> None, waiting |-> {r}]
        /\ \A d \in DOMAIN flight : flight'[d] = flight[d]
    BY <1>2, <2>1, Zenon
  <2>3. /\ flight'[c] \in CallSet /\ flight'[c].began = now /\ flight'[c].read = None
        /\ flight'[c].waiting = {r} /\ now <= now + MaxFetch
    BY <2>2, ProviderAssumption, Sentinels DEF CallSet
  <2>4. CallsOK(flight', now)
    <3>1. ASSUME NEW d \in DOMAIN flight'
          PROVE  flight'[d] \in CallSet /\ flight'[d].began <= now /\ now <= flight'[d].began + MaxFetch
      <4>1. CASE d = c
        BY <2>3, <4>1
      <4>2. CASE d # c
        BY <2>2, <4>2, Zenon DEF CallsOK
      <4> QED
        BY <4>1, <4>2, Zenon
    <3> QED
      BY <2>2, <3>1, Zenon DEF CallsOK
  <2> QED
    BY <1>2, <2>2, <2>3, <2>4, Zenon
<1> QED
  BY <1>1, <1>2, Zenon

\* The provider answers a call, or is down.
LEMMA ReadCalls ==
  ASSUME CallsOK(flight, now), NEW c, NEW document \in Documents, Reads(c, document)
  PROVE  /\ CallsOK(flight', now) /\ DOMAIN flight' = DOMAIN flight /\ c \in DOMAIN flight
         /\ \A d \in DOMAIN flight : flight'[d].waiting = flight[d].waiting /\ flight'[d].began = flight[d].began
         /\ \A d \in DOMAIN flight \ {c} : flight'[d].read = flight[d].read
         /\ flight'[c].read \in {document, Failed}
<1> DEFINE x == IF up THEN document ELSE Failed
<1>1. c \in DOMAIN flight /\ flight' = [flight EXCEPT ![c].read = x]
  BY Zenon DEF Reads
<1>2. x \in {document, Failed} /\ x \in Documents
  BY Sentinels, Zenon
<1> HIDE DEF x
<1>3. /\ DOMAIN flight' = DOMAIN flight /\ flight' = [d \in DOMAIN flight' |-> flight'[d]]
      /\ flight'[c] = [flight[c] EXCEPT !.read = x]
      /\ \A d \in DOMAIN flight \ {c} : flight'[d] = flight[d]
  BY <1>1, Zenon DEF CallsOK
<1>4. flight[c] \in CallSet
  BY <1>1, Zenon DEF CallsOK
<1>5. /\ flight'[c] \in CallSet /\ flight'[c].began = flight[c].began /\ flight'[c].read = x
      /\ flight'[c].waiting = flight[c].waiting
  BY <1>2, <1>3, <1>4, Zenon DEF CallSet
<1>6. CallsOK(flight', now)
  BY <1>1, <1>3, <1>5, Zenon DEF CallsOK
<1> QED
  BY <1>1, <1>2, <1>3, <1>5, <1>6, Zenon

\* A call ends, and those who waited for it have its result.
LEMMA LandCalls ==
  ASSUME CallsOK(flight, now), NEW c, NEW x, Lands(c, x)
  PROVE  /\ CallsOK(flight', now) /\ DOMAIN flight' = DOMAIN flight \ {c}
         /\ \A d \in DOMAIN flight' : flight'[d] = flight[d]
         /\ got' = [r \in Requests |-> got'[r]]
         /\ \A r \in Requests : got'[r] = IF r \in flight[c].waiting THEN x ELSE got[r]
<1>1. /\ flight' = [d \in DOMAIN flight \ {c} |-> flight[d]]
      /\ got' = [r \in Requests |-> IF r \in flight[c].waiting THEN x ELSE got[r]]
  BY Zenon DEF Lands
<1>2. DOMAIN flight' = DOMAIN flight \ {c} /\ \A d \in DOMAIN flight' : flight'[d] = flight[d]
  BY <1>1, Zenon
<1>3. flight' = [d \in DOMAIN flight' |-> flight'[d]]
  BY <1>1, <1>2, Zenon
<1>4. CallsOK(flight', now)
  BY <1>2, <1>3, Zenon DEF CallsOK
<1> QED
  BY <1>1, <1>2, <1>4, Zenon

-----------------------------------------------------------------------------
(* JWTs.                                                                   *)

\* What every step of the verification of JWTs leaves as it is.
JwtFrame == UNCHANGED <<now, published, active, ended, entries, reply, tokens>>

\* A request that waits for no call goes on, or ends.
LEMMA JwtMove ==
  ASSUME VerifierInv, tokens = "jwt", JwtFrame, NEW r \in Requests, NEW q, NEW t,
         \A c \in DOMAIN flight : r \notin flight[c].waiting,
         pc' = [pc EXCEPT ![r] = q], token' = [token EXCEPT ![r] = t],
         got' = [got EXCEPT ![r] = None], q # "idle" => t \in JWTs,
         UNCHANGED <<flight, keys, fetchedAt>>
  PROVE  VerifierInv'
<1>1. Truth' = Truth /\ ended' = ended /\ now' = now /\ tokens' = "jwt"
  BY StillKeeps, Zenon DEF JwtFrame
<1>2. /\ pc'[r] = q /\ token'[r] = t /\ got'[r] = None
      /\ \A s \in Requests \ {r} : pc'[s] = pc[s] /\ token'[s] = token[s] /\ got'[s] = got[s]
      /\ pc' = [s \in Requests |-> pc'[s]] /\ token' = [s \in Requests |-> token'[s]]
      /\ got' = [s \in Requests |-> got'[s]]
  BY Zenon DEF VerifierInv, Base
<1>3. Base'
  BY <1>1, <1>2, Zenon DEF VerifierInv, Base, JwtFrame
<1>4. JwtFlights'
  <2>1. \A c \in DOMAIN flight : \A s \in flight[c].waiting : s \in Requests \ {r}
    BY Zenon DEF VerifierInv, Base, CallsOK, CallSet
  <2> QED
    BY <1>1, <1>2, <2>1 DEF VerifierInv, JwtInv, JwtFlights
<1>5. JwtRequests'
  BY <1>1, <1>2, Zenon DEF VerifierInv, JwtInv, JwtRequests
<1>6. JwtCache'
  BY <1>1, Zenon DEF VerifierInv, JwtInv, JwtCache, JwtFrame
<1> QED
  BY <1>1, <1>3, <1>4, <1>5, <1>6, Zenon DEF VerifierInv, JwtInv, OpaqueInv

\* A request joins a call and waits for it.
LEMMA JwtDo ==
  ASSUME VerifierInv, tokens = "jwt", JwtFrame, NEW r \in Requests, NEW c \in {"discovery", "jwks"}, NEW q,
         q = (IF c = "jwks" THEN "refreshed" ELSE "discovered"),
         pc[r] \notin {"idle", "discovered", "refreshed"}, Do(r, c), pc' = [pc EXCEPT ![r] = q],
         UNCHANGED <<token, got, keys, fetchedAt>>
  PROVE  VerifierInv'
<1>1. Truth' = Truth /\ ended' = ended /\ now' = now /\ tokens' = "jwt"
  BY StillKeeps, Zenon DEF JwtFrame
<1>2. /\ pc'[r] = q /\ got[r] = None /\ token[r] \in JWTs
      /\ \A s \in Requests \ {r} : pc'[s] = pc[s]
      /\ pc' = [s \in Requests |-> pc'[s]]
  BY Zenon DEF VerifierInv, Base, JwtInv, JwtRequests
<1>3. /\ CallsOK(flight', now) /\ DOMAIN flight' = DOMAIN flight \cup {c}
      /\ \A d \in DOMAIN flight' :
           /\ \A s \in flight'[d].waiting :
                (s = r /\ d = c) \/ (d \in DOMAIN flight /\ s \in flight[d].waiting)
           /\ flight'[d].read # None =>
                d \in DOMAIN flight /\ flight'[d].read = flight[d].read /\ flight'[d].began = flight[d].began
  BY DoCalls, Zenon DEF VerifierInv, Base
<1>4. Base'
  BY <1>1, <1>2, <1>3, Zenon DEF VerifierInv, Base, JwtFrame
<1>5. JwtFlights'
  <2>1. ASSUME NEW d \in DOMAIN flight', NEW s \in flight'[d].waiting
        PROVE  pc'[s] = (IF d = "jwks" THEN "refreshed" ELSE "discovered") /\ got'[s] = None
    <3>1. CASE s = r /\ d = c
      BY <1>2, <3>1, Zenon
    <3>2. CASE d \in DOMAIN flight /\ s \in flight[d].waiting
      <4>1. s \in Requests /\ pc[s] \in {"refreshed", "discovered"}
        BY <3>2, Zenon DEF VerifierInv, Base, CallsOK, CallSet, JwtInv, JwtFlights
      <4>2. s # r /\ pc'[s] = pc[s]
        BY <1>2, <4>1, Zenon
      <4> QED
        BY <3>2, <4>2, Zenon DEF VerifierInv, JwtInv, JwtFlights
    <3> QED
      BY <1>3, <3>1, <3>2, Zenon
  <2>2. DOMAIN flight' \subseteq {"discovery", "jwks"}
    BY <1>3, Zenon DEF VerifierInv, JwtInv, JwtFlights
  <2>3. "jwks" \in DOMAIN flight' /\ flight'["jwks"].read \notin {None, Failed} =>
          /\ flight'["jwks"].read \in SUBSET Kids
          /\ SetHeld(Truth, ended, flight'["jwks"].read, flight'["jwks"].began)
    BY <1>3, Zenon DEF VerifierInv, JwtInv, JwtFlights
  <2> QED
    BY <1>1, <2>1, <2>2, <2>3, Zenon DEF JwtFlights
<1>6. JwtRequests'
  <2>1. \A s \in Requests : got'[s] = got[s] /\ token'[s] = token[s]
    OBVIOUS
  <2>2. q # "idle" /\ q \in {"discovered", "refreshed"}
    OBVIOUS
  <2>3. ASSUME NEW s \in Requests
        PROVE  /\ pc'[s] # "idle" => token[s] \in JWTs
               /\ got[s] # None => pc'[s] \in {"discovered", "refreshed"}
               /\ pc'[s] = "refreshed" /\ got[s] \notin {None, Failed} =>
                    got[s] \in SUBSET Kids /\ SetHeld(Truth, ended, got[s], now - MaxFetch)
    <3>1. CASE s = r
      BY <1>2, <3>1, Zenon
    <3>2. CASE s # r
      BY <1>2, <3>2, Zenon DEF VerifierInv, JwtInv, JwtRequests
    <3> QED
      BY <3>1, <3>2, Zenon
  <2> QED
    BY <1>1, <2>1, <2>3, Zenon DEF JwtRequests
<1>7. JwtCache'
  BY <1>1, Zenon DEF VerifierInv, JwtInv, JwtCache, JwtFrame
<1> QED
  BY <1>1, <1>4, <1>5, <1>6, <1>7, Zenon DEF VerifierInv, JwtInv, OpaqueInv

\* What the provider publishes holds now.
LEMMA PublishedHolds ==
  ASSUME Base, NEW s
  PROVE  SetHeld(Truth, ended, published, s)
<1> SUFFICES ASSUME NEW k \in Kids PROVE Truth[k] = (k \in published)
  BY Zenon DEF SetHeld, Held
<1>1. k \notin active
  BY VerifierAssumption, Zenon DEF Base
<1> QED
  BY <1>1 DEF Truth

\* The provider answers a call for its discovery document or its key set.
LEMMA JwtRead ==
  ASSUME VerifierInv, tokens = "jwt", JwtFrame, NEW c, NEW document,
         <<c, document>> \in {<<"discovery", "document">>, <<"jwks", published>>},
         Reads(c, document), UNCHANGED <<locals, cache>>
  PROVE  VerifierInv'
<1>1. /\ Truth' = Truth /\ ended' = ended /\ now' = now /\ tokens' = "jwt"
      /\ UNCHANGED <<pc, token, got, keys, fetchedAt>>
  BY StillKeeps, Zenon DEF JwtFrame, locals, cache
<1>2. document \in Documents /\ (c = "jwks" => document = published) /\ c \in {"discovery", "jwks"}
  BY Zenon DEF Documents, VerifierInv, Base
<1>3. /\ CallsOK(flight', now) /\ DOMAIN flight' = DOMAIN flight /\ c \in DOMAIN flight
      /\ \A d \in DOMAIN flight : flight'[d].waiting = flight[d].waiting /\ flight'[d].began = flight[d].began
      /\ \A d \in DOMAIN flight \ {c} : flight'[d].read = flight[d].read
      /\ flight'[c].read \in {document, Failed}
  BY <1>2, ReadCalls, Zenon DEF VerifierInv, Base
<1>4. Base'
  BY <1>1, <1>3, Zenon DEF VerifierInv, Base, JwtFrame
<1>5. JwtFlights'
  <2>1. "jwks" \in DOMAIN flight' /\ flight'["jwks"].read \notin {None, Failed} =>
          /\ flight'["jwks"].read \in SUBSET Kids
          /\ SetHeld(Truth, ended, flight'["jwks"].read, flight'["jwks"].began)
    <3>1. CASE c = "jwks"
      BY <1>2, <1>3, <3>1, PublishedHolds DEF VerifierInv, Base
    <3>2. CASE c # "jwks"
      BY <1>3, <3>2, Zenon DEF VerifierInv, JwtInv, JwtFlights
    <3> QED
      BY <3>1, <3>2, Zenon
  <2> QED
    BY <1>1, <1>3, <2>1, Zenon DEF VerifierInv, JwtInv, JwtFlights
<1>6. JwtRequests'
  BY <1>1, Zenon DEF VerifierInv, JwtInv, JwtRequests
<1>7. JwtCache'
  BY <1>1, Zenon DEF VerifierInv, JwtInv, JwtCache, JwtFrame
<1> QED
  BY <1>1, <1>4, <1>5, <1>6, <1>7, Zenon DEF VerifierInv, JwtInv, OpaqueInv

\* A call ends: who waited has its result, and the cache the new key set.
LEMMA JwtLand ==
  ASSUME VerifierInv, tokens = "jwt", JwtFrame, NEW c \in {"discovery", "jwks"}, Landed(c),
         Lands(c, flight[c].read), UNCHANGED <<pc, token>>,
         c = "discovery" => UNCHANGED <<keys, fetchedAt>>,
         c = "jwks" => /\ keys' = IF flight[c].read = Failed THEN keys ELSE flight[c].read
                       /\ fetchedAt' = IF flight[c].read = Failed THEN fetchedAt ELSE now
  PROVE  VerifierInv'
<1> DEFINE x == flight[c].read
<1>1. Truth' = Truth /\ ended' = ended /\ now' = now /\ tokens' = "jwt"
  BY StillKeeps, Zenon DEF JwtFrame
<1>2. /\ CallsOK(flight', now) /\ DOMAIN flight' = DOMAIN flight \ {c}
      /\ \A d \in DOMAIN flight' : flight'[d] = flight[d]
      /\ got' = [r \in Requests |-> got'[r]]
      /\ \A r \in Requests : got'[r] = IF r \in flight[c].waiting THEN x ELSE got[r]
  BY LandCalls, Zenon DEF VerifierInv, Base
<1>3. c \in DOMAIN flight /\ flight[c].began \in Nat /\ now - MaxFetch <= flight[c].began /\ x # None
  <2>1. c \in DOMAIN flight /\ x # None
    BY Zenon DEF Landed
  <2>2. now \in Nat /\ flight[c].began \in Nat /\ now <= flight[c].began + MaxFetch
    BY <2>1, Zenon DEF VerifierInv, Base, CallsOK, CallSet
  <2> QED
    BY <2>1, <2>2, ProviderAssumption
<1>4. c = "jwks" /\ x # Failed => x \in SUBSET Kids /\ SetHeld(Truth, ended, x, now - MaxFetch)
  <2> SUFFICES ASSUME c = "jwks", x # Failed
               PROVE  x \in SUBSET Kids /\ SetHeld(Truth, ended, x, now - MaxFetch)
    OBVIOUS
  <2>1. x \in SUBSET Kids /\ SetHeld(Truth, ended, x, flight[c].began)
    BY <1>3, Zenon DEF VerifierInv, JwtInv, JwtFlights
  <2>2. now \in Nat /\ \A k \in Kids : \A a \in DOMAIN ended[k] : ended[k][a] \in Nat
    BY Zenon DEF VerifierInv, Base, AllKeys
  <2>3. ASSUME NEW k \in Kids PROVE Held(Truth, ended, k, k \in x, now - MaxFetch)
    <3> DEFINE a == k \in x
    <3>1. Held(Truth, ended, k, a, flight[c].began)
      BY <2>1, Zenon DEF SetHeld
    <3> HIDE DEF a
    <3>2. CASE Truth[k] = a
      BY <3>2, Zenon DEF Held, a
    <3>3. CASE a \in DOMAIN ended[k] /\ flight[c].began <= ended[k][a]
      <4>1. ended[k][a] \in Nat /\ now - MaxFetch <= ended[k][a]
        BY <1>3, <2>2, <3>3, ProviderAssumption
      <4> QED
        BY <3>3, <4>1, Zenon DEF Held, a
    <3> QED
      BY <3>1, <3>2, <3>3, Zenon DEF Held
  <2> QED
    BY <2>1, <2>3, Zenon DEF SetHeld
<1>5. Base'
  BY <1>1, <1>2, Zenon DEF VerifierInv, Base, JwtFrame
<1>6. JwtFlights'
  <2>1. ASSUME NEW d \in DOMAIN flight', NEW r \in flight'[d].waiting
        PROVE  pc'[r] = (IF d = "jwks" THEN "refreshed" ELSE "discovered") /\ got'[r] = None
    <3>1. d \in DOMAIN flight /\ d # c /\ r \in flight[d].waiting
      BY <1>2, Zenon
    <3>2. /\ r \in Requests /\ d \in {"discovery", "jwks"}
          /\ pc[r] = (IF d = "jwks" THEN "refreshed" ELSE "discovered") /\ got[r] = None
      BY <3>1, Zenon DEF VerifierInv, Base, CallsOK, CallSet, JwtInv, JwtFlights
    <3>3. r \notin flight[c].waiting
      BY <1>3, <3>1, <3>2, Zenon DEF VerifierInv, JwtInv, JwtFlights
    <3> QED
      BY <1>2, <3>2, <3>3, Zenon
  <2> QED
    BY <1>1, <1>2, <2>1, Zenon DEF VerifierInv, JwtInv, JwtFlights
<1>7. JwtRequests'
  <2> SUFFICES ASSUME NEW r \in Requests
               PROVE  /\ pc[r] # "idle" => token[r] \in JWTs
                      /\ got'[r] # None => pc[r] \in {"discovered", "refreshed"}
                      /\ pc[r] = "refreshed" /\ got'[r] \notin {None, Failed} =>
                           got'[r] \in SUBSET Kids /\ SetHeld(Truth, ended, got'[r], now - MaxFetch)
    BY <1>1, Zenon DEF JwtRequests
  <2>1. CASE r \in flight[c].waiting
    <3>1. pc[r] = (IF c = "jwks" THEN "refreshed" ELSE "discovered") /\ got'[r] = x
      BY <1>2, <1>3, <2>1, Zenon DEF VerifierInv, JwtInv, JwtFlights
    <3>2. pc[r] # "idle" => token[r] \in JWTs
      BY Zenon DEF VerifierInv, JwtInv, JwtRequests
    <3> HIDE DEF x
    <3> QED
      BY <1>4, <3>1, <3>2, Zenon
  <2>2. CASE r \notin flight[c].waiting
    BY <1>2, <2>2, Zenon DEF VerifierInv, JwtInv, JwtRequests
  <2> QED
    BY <2>1, <2>2, Zenon
<1>8. JwtCache'
  <2>1. CASE c = "jwks" /\ x # Failed
    <3>1. keys' = x /\ fetchedAt' = now /\ now \in Nat
      BY <2>1, Zenon DEF VerifierInv, Base
    <3> HIDE DEF x
    <3> QED
      BY <1>1, <1>4, <2>1, <3>1 DEF VerifierInv, JwtInv, JwtCache, JwtFrame
  <2>2. CASE ~ (c = "jwks" /\ x # Failed)
    <3>1. keys' = keys /\ fetchedAt' = fetchedAt
      BY <2>2, Zenon
    <3> QED
      BY <1>1, <3>1, Zenon DEF VerifierInv, JwtInv, JwtCache, JwtFrame
  <2> QED
    BY <2>1, <2>2, Zenon
<1> QED
  BY <1>1, <1>5, <1>6, <1>7, <1>8, Zenon DEF VerifierInv, JwtInv, OpaqueInv

\* No request waits that has its result or has not asked for it.
LEMMA JwtNotWaiting ==
  ASSUME VerifierInv, tokens = "jwt", NEW r \in Requests,
         pc[r] \notin {"discovered", "refreshed"} \/ got[r] # None
  PROVE  \A c \in DOMAIN flight : r \notin flight[c].waiting
  BY Zenon DEF VerifierInv, JwtInv, JwtFlights

\* Every step of the verification of JWTs.
LEMMA JwtKeeps ==
  ASSUME VerifierInv, JwtStep
  PROVE  VerifierInv'
<1>1. tokens = "jwt" /\ JwtFrame
  BY Zenon DEF JwtStep, JwtFrame, introVars
<1>2. ASSUME NEW r \in Requests, NEW t \in JWTs, Verify(r, t) PROVE VerifierInv'
  <2> DEFINE q == IF meta THEN "lookup" ELSE "discover"
  <2>1. \A c \in DOMAIN flight : r \notin flight[c].waiting
    BY <1>1, <1>2, JwtNotWaiting, Zenon DEF Verify
  <2>2. got[r] = None /\ got' = [got EXCEPT ![r] = None]
    BY <1>1, <1>2, Zenon DEF Verify, VerifierInv, Base, JwtInv, JwtRequests
  <2>3. /\ pc' = [pc EXCEPT ![r] = q] /\ token' = [token EXCEPT ![r] = t]
        /\ UNCHANGED <<flight, keys, fetchedAt>>
    BY <1>2, Zenon DEF Verify, GoTo, cache
  <2> HIDE DEF q
  <2> QED
    BY <1>1, <2>1, <2>2, <2>3, JwtMove, Zenon
<1>3. ASSUME NEW r \in Requests, discover(r) \/ refreshJWKS(r) PROVE VerifierInv'
  <2>1. CASE discover(r)
    BY <1>1, <2>1, JwtDo, Zenon DEF discover, GoTo, cache
  <2>2. CASE refreshJWKS(r)
    BY <1>1, <2>2, JwtDo, Zenon DEF refreshJWKS, GoTo, cache
  <2> QED
    BY <1>3, <2>1, <2>2, Zenon
<1>4. ASSUME NEW r \in Requests, Discovered(r) \/ NeedRefresh(r) PROVE VerifierInv'
  <2>1. token[r] \in JWTs /\ token' = [token EXCEPT ![r] = token[r]]
    BY <1>1, <1>4, Zenon DEF Discovered, NeedRefresh, VerifierInv, Base, JwtInv, JwtRequests
  <2>2. got' = [got EXCEPT ![r] = None]
    BY <1>1, <1>4, Zenon DEF Discovered, NeedRefresh, VerifierInv, Base, JwtInv, JwtRequests
  <2>3. \A c \in DOMAIN flight : r \notin flight[c].waiting
    BY <1>1, <1>4, JwtNotWaiting, Zenon DEF Discovered, NeedRefresh
  <2>4. \E q \in {"lookup", "refresh"} : pc' = [pc EXCEPT ![r] = q]
    BY <1>4, Zenon DEF Discovered, NeedRefresh, GoTo
  <2>5. UNCHANGED <<flight, keys, fetchedAt>>
    BY <1>4, Zenon DEF Discovered, NeedRefresh, cache
  <2> QED
    BY <1>1, <2>1, <2>2, <2>3, <2>4, <2>5, JwtMove, Zenon
<1>5. ASSUME NEW r \in Requests,
             \/ DiscoveryFailed(r) \/ KnownKey(r) \/ UnknownKey(r) \/ Refreshed(r) \/ RefreshFailed(r)
      PROVE  VerifierInv'
  <2>1. Return(r) /\ UNCHANGED <<flight, cache>>
    BY <1>5, Zenon DEF DiscoveryFailed, KnownKey, UnknownKey, Refreshed, RefreshFailed, Answer
  <2>2. \A c \in DOMAIN flight : r \notin flight[c].waiting
    BY <1>1, <1>5, JwtNotWaiting, ProviderAssumption, Zenon
       DEF DiscoveryFailed, KnownKey, UnknownKey, Refreshed, RefreshFailed
  <2> QED
    BY <1>1, <2>1, <2>2, JwtMove, Zenon DEF Return, cache
<1>6. CASE JwksCall
  <2>1. CASE Reads("discovery", "document") /\ Silent /\ UNCHANGED <<locals, cache>>
    BY <1>1, <2>1, JwtRead
  <2>2. CASE Reads("jwks", published) /\ Silent /\ UNCHANGED <<locals, cache>>
    BY <1>1, <2>2, JwtRead
  <2>3. CASE DiscoveryLands
    BY <1>1, <2>3, JwtLand, Zenon DEF DiscoveryLands
  <2>4. CASE JwksLands
    BY <1>1, <2>4, JwtLand, Zenon DEF JwksLands
  <2> QED
    BY <1>6, <2>1, <2>2, <2>3, <2>4, Zenon DEF JwksCall
<1> QED
  BY <1>2, <1>3, <1>4, <1>5, <1>6, Zenon DEF JwtStep, JwksRequest

-----------------------------------------------------------------------------
(* Opaque tokens.                                                          *)

\* What every step of the verification of opaque tokens leaves as it is.
OpaqueFrame == UNCHANGED <<now, published, active, ended, answer, tokens>>

\* The cache loses entries.
LEMMA CacheShrinks ==
  ASSUME VerifierInv, tokens = "opaque", OpaqueFrame, NEW S \in SUBSET DOMAIN entries,
         entries' = [u \in S |-> entries[u]]
  PROVE  OpaqueCache'
<1>1. Truth' = Truth /\ ended' = ended /\ now' = now
  BY StillKeeps, Zenon DEF OpaqueFrame
<1>2. DOMAIN entries' = S /\ \A u \in S : entries'[u] = entries[u]
  OBVIOUS
<1>3. IsFiniteSet(DOMAIN entries) /\ Cardinality(DOMAIN entries) <= MaxEntries
  BY Zenon DEF VerifierInv, OpaqueInv, OpaqueCache
<1>4. IsFiniteSet(S) /\ Cardinality(S) <= MaxEntries
  <2>1. IsFiniteSet(S) /\ Cardinality(S) <= Cardinality(DOMAIN entries)
    BY <1>3, FS_Subset, Zenon
  <2>2. Cardinality(S) \in Nat /\ Cardinality(DOMAIN entries) \in Nat
    BY <1>3, <2>1, FS_CardinalityType, Zenon
  <2> QED
    BY <1>3, <2>1, <2>2, IntrospectionAssumption
<1> QED
  BY <1>1, <1>2, <1>4, Zenon DEF VerifierInv, OpaqueInv, OpaqueCache, OpaqueFrame

\* A request that waits for no call goes on, or ends.
LEMMA OpaqueMove ==
  ASSUME VerifierInv, tokens = "opaque", OpaqueFrame, NEW r \in Requests, NEW q, NEW t,
         \A c \in DOMAIN flight : r \notin flight[c].waiting,
         pc' = [pc EXCEPT ![r] = q], token' = [token EXCEPT ![r] = t],
         got' = [got EXCEPT ![r] = None], q # "idle" => t \in Opaque,
         flight' = flight, OpaqueCache'
  PROVE  VerifierInv'
<1>1. Truth' = Truth /\ ended' = ended /\ now' = now /\ tokens' = "opaque"
  BY StillKeeps, Zenon DEF OpaqueFrame
<1>2. /\ pc'[r] = q /\ token'[r] = t /\ got'[r] = None
      /\ \A s \in Requests \ {r} : pc'[s] = pc[s] /\ token'[s] = token[s] /\ got'[s] = got[s]
      /\ pc' = [s \in Requests |-> pc'[s]] /\ token' = [s \in Requests |-> token'[s]]
      /\ got' = [s \in Requests |-> got'[s]]
  BY Zenon DEF VerifierInv, Base
<1>3. Base'
  BY <1>1, <1>2, Zenon DEF VerifierInv, Base, OpaqueFrame
<1>4. OpaqueFlights'
  <2>1. \A c \in DOMAIN flight : \A s \in flight[c].waiting : s \in Requests \ {r}
    BY Zenon DEF VerifierInv, Base, CallsOK, CallSet
  <2> QED
    BY <1>1, <1>2, <2>1 DEF VerifierInv, OpaqueInv, OpaqueFlights
<1>5. OpaqueRequests'
  BY <1>1, <1>2, Zenon DEF VerifierInv, OpaqueInv, OpaqueRequests
<1> QED
  BY <1>1, <1>3, <1>4, <1>5, Zenon DEF VerifierInv, JwtInv, OpaqueInv

\* A request joins the call for its token and waits for it.
LEMMA CallKeeps ==
  ASSUME VerifierInv, tokens = "opaque", OpaqueFrame, NEW r \in Requests, Call(r)
  PROVE  VerifierInv'
<1> DEFINE c == token[r]
<1>1. Truth' = Truth /\ ended' = ended /\ now' = now /\ tokens' = "opaque"
  BY StillKeeps, Zenon DEF OpaqueFrame
<1>2. /\ pc[r] = "introspect" /\ pc'[r] = "introspected" /\ got[r] = None /\ c \in Opaque
      /\ \A s \in Requests \ {r} : pc'[s] = pc[s]
      /\ pc' = [s \in Requests |-> pc'[s]] /\ UNCHANGED <<token, got>>
  BY Zenon DEF VerifierInv, Base, OpaqueInv, OpaqueRequests, Call, GoTo
<1>3. /\ CallsOK(flight', now) /\ DOMAIN flight' = DOMAIN flight \cup {c}
      /\ \A d \in DOMAIN flight' :
           /\ \A s \in flight'[d].waiting :
                (s = r /\ d = c) \/ (d \in DOMAIN flight /\ s \in flight[d].waiting)
           /\ flight'[d].read # None =>
                d \in DOMAIN flight /\ flight'[d].read = flight[d].read /\ flight'[d].began = flight[d].began
  BY DoCalls, Zenon DEF VerifierInv, Base, Call
<1>4. Base'
  BY <1>1, <1>2, <1>3, Zenon DEF VerifierInv, Base, OpaqueFrame
<1>5. OpaqueFlights'
  <2>1. ASSUME NEW d \in DOMAIN flight', NEW s \in flight'[d].waiting
        PROVE  pc'[s] = "introspected" /\ token'[s] = d /\ got'[s] = None
    <3>1. CASE s = r /\ d = c
      BY <1>2, <3>1, Zenon
    <3>2. CASE d \in DOMAIN flight /\ s \in flight[d].waiting
      <4>1. s \in Requests /\ pc[s] = "introspected"
        BY <3>2, Zenon DEF VerifierInv, Base, CallsOK, CallSet, OpaqueInv, OpaqueFlights
      <4>2. s # r /\ pc'[s] = pc[s]
        BY <1>2, <4>1, Zenon
      <4> QED
        BY <1>2, <3>2, <4>2 DEF VerifierInv, OpaqueInv, OpaqueFlights
    <3> QED
      BY <1>3, <3>1, <3>2, Zenon
  <2>2. DOMAIN flight' \subseteq Opaque
    BY <1>2, <1>3, Zenon DEF VerifierInv, OpaqueInv, OpaqueFlights
  <2>3. ASSUME NEW d \in DOMAIN flight'
        PROVE  /\ flight'[d].read \in {"active", "inactive", None, Failed}
               /\ flight'[d].read \in {"active", "inactive"} =>
                    Held(Truth, ended, d, flight'[d].read = "active", flight'[d].began)
    <3>1. CASE flight'[d].read = None
      BY <3>1, VerifierAssumption, Zenon
    <3>2. CASE flight'[d].read # None
      BY <1>3, <3>2, Zenon DEF VerifierInv, OpaqueInv, OpaqueFlights
    <3> QED
      BY <3>1, <3>2, Zenon
  <2> QED
    BY <1>1, <2>1, <2>2, <2>3, Zenon DEF OpaqueFlights
<1>6. OpaqueRequests'
  <2> SUFFICES ASSUME NEW s \in Requests
               PROVE  /\ pc'[s] # "idle" => token[s] \in Opaque
                      /\ got[s] # None =>
                           pc'[s] = "introspected" /\ VerdictOK(Truth, ended, now, token[s], got[s])
    BY <1>1, <1>2, Zenon DEF OpaqueRequests
  <2> QED
    BY <1>2, Zenon DEF VerifierInv, OpaqueInv, OpaqueRequests
<1>7. OpaqueCache'
  <2>1. \E S \in SUBSET DOMAIN entries : entries' = [u \in S |-> entries[u]]
    <3>1. CASE c \in DOMAIN flight
      <4>1. entries' = entries
        BY <3>1, Zenon DEF Call
      <4>2. entries = [u \in DOMAIN entries |-> entries[u]]
        BY Zenon DEF VerifierInv, OpaqueInv, OpaqueCache
      <4> QED
        BY <4>1, <4>2, Zenon
    <3>2. CASE c \notin DOMAIN flight
      <4>1. entries' = Swept(c)
        BY <3>2, Zenon DEF Call
      <4> QED
        BY <4>1, Zenon DEF Swept
    <3> QED
      BY <3>1, <3>2, Zenon
  <2> QED
    BY <2>1, CacheShrinks, Zenon
<1> QED
  BY <1>1, <1>4, <1>5, <1>6, <1>7, Zenon DEF VerifierInv, JwtInv, OpaqueInv

\* The provider answers a call for a token.
LEMMA OpaqueRead ==
  ASSUME VerifierInv, tokens = "opaque", OpaqueFrame, NEW t \in Opaque,
         Reads(t, IF t \in active THEN "active" ELSE "inactive"), UNCHANGED <<locals, entries>>
  PROVE  VerifierInv'
<1> DEFINE says == IF t \in active THEN "active" ELSE "inactive"
<1>1. /\ Truth' = Truth /\ ended' = ended /\ now' = now /\ tokens' = "opaque"
      /\ UNCHANGED <<pc, token, got, entries, answer>>
  BY StillKeeps, Zenon DEF OpaqueFrame, locals
<1>2. says \in Documents /\ says \in {"active", "inactive"} /\ (says = "active") = (t \in active)
  BY DEF Documents
<1>3. Truth[t] = (says = "active")
  <2>1. t \notin published
    BY VerifierAssumption, Zenon DEF VerifierInv, Base
  <2>2. Truth[t] = (t \in active)
    BY <2>1 DEF Truth
  <2> HIDE DEF says
  <2> QED
    BY <1>2, <2>2, Zenon
<1>4. Reads(t, says)
  OBVIOUS
<1> HIDE DEF says
<1>5. /\ CallsOK(flight', now) /\ DOMAIN flight' = DOMAIN flight /\ t \in DOMAIN flight
      /\ \A d \in DOMAIN flight : flight'[d].waiting = flight[d].waiting /\ flight'[d].began = flight[d].began
      /\ \A d \in DOMAIN flight \ {t} : flight'[d].read = flight[d].read
      /\ flight'[t].read \in {says, Failed}
  BY <1>2, <1>4, ReadCalls, Zenon DEF VerifierInv, Base
<1>6. Base'
  BY <1>1, <1>5, Zenon DEF VerifierInv, Base, OpaqueFrame
<1>7. OpaqueFlights'
  <2>1. ASSUME NEW c \in DOMAIN flight'
        PROVE  /\ flight'[c].read \in {"active", "inactive", None, Failed}
               /\ flight'[c].read \in {"active", "inactive"} =>
                    Held(Truth, ended, c, flight'[c].read = "active", flight'[c].began)
    <3>1. CASE c = t
      <4>1. CASE flight'[c].read = says
        BY <1>2, <1>3, <3>1, <4>1, Zenon DEF Held
      <4>2. CASE flight'[c].read = Failed
        BY <4>2, VerifierAssumption, Zenon
      <4> QED
        BY <1>5, <3>1, <4>1, <4>2, Zenon
    <3>2. CASE c # t
      BY <1>5, <3>2, Zenon DEF VerifierInv, OpaqueInv, OpaqueFlights
    <3> QED
      BY <3>1, <3>2, Zenon
  <2>2. \A c \in DOMAIN flight' : \A r \in flight'[c].waiting :
          pc[r] = "introspected" /\ token[r] = c /\ got[r] = None
    BY <1>5 DEF VerifierInv, OpaqueInv, OpaqueFlights
  <2>3. DOMAIN flight' \subseteq Opaque
    BY <1>5, Zenon DEF VerifierInv, OpaqueInv, OpaqueFlights
  <2> QED
    BY <1>1, <2>1, <2>2, <2>3, Zenon DEF OpaqueFlights
<1>8. OpaqueRequests'
  BY <1>1, Zenon DEF VerifierInv, OpaqueInv, OpaqueRequests
<1>9. OpaqueCache'
  BY <1>1, Zenon DEF VerifierInv, OpaqueInv, OpaqueCache
<1> QED
  BY <1>1, <1>6, <1>7, <1>8, <1>9, Zenon DEF VerifierInv, JwtInv, OpaqueInv

\* put never lets the cache outgrow maxIntrospectionCacheEntries.
LEMMA PutBounded ==
  ASSUME IsFiniteSet(DOMAIN entries), Cardinality(DOMAIN entries) <= MaxEntries, NEW t, NEW e
  PROVE  /\ IsFiniteSet(DOMAIN put(t, e)) /\ Cardinality(DOMAIN put(t, e)) <= MaxEntries
         /\ DOMAIN put(t, e) \subseteq DOMAIN entries \cup {t}
         /\ put(t, e) = [u \in DOMAIN put(t, e) |-> put(t, e)[u]]
         /\ \A u \in DOMAIN put(t, e) : put(t, e)[u] = IF u = t THEN e ELSE entries[u]
<1> DEFINE full == t \notin DOMAIN entries /\ Cardinality(DOMAIN entries) >= MaxEntries
           kept == IF full THEN {u \in DOMAIN entries : Live(u)} ELSE DOMAIN entries
           room == ~ full \/ Cardinality(kept) < MaxEntries
           D == kept \cup (IF room THEN {t} ELSE {})
<1>1. put(t, e) = [u \in D |-> IF u = t THEN e ELSE entries[u]]
  BY Zenon DEF put
<1>2. kept \in SUBSET DOMAIN entries
  OBVIOUS
<1>3. IsFiniteSet(kept) /\ Cardinality(kept) <= Cardinality(DOMAIN entries)
  BY <1>2, FS_Subset, Zenon
<1>4. Cardinality(kept) \in Nat /\ Cardinality(DOMAIN entries) \in Nat /\ MaxEntries \in Nat
  BY <1>3, FS_CardinalityType, IntrospectionAssumption, Zenon
<1>5. /\ IsFiniteSet(kept \cup {t})
      /\ Cardinality(kept \cup {t}) = IF t \in kept THEN Cardinality(kept) ELSE Cardinality(kept) + 1
  BY <1>3, FS_AddElement, Zenon
<1>6. ~ full => kept = DOMAIN entries /\ (t \in DOMAIN entries \/ Cardinality(DOMAIN entries) < MaxEntries)
  BY <1>4
<1>7. IsFiniteSet(D) /\ Cardinality(D) <= MaxEntries
  <2>1. CASE room
    <3>1. D = kept \cup {t}
      BY <2>1, Zenon
    <3>2. Cardinality(kept \cup {t}) <= MaxEntries
      <4>1. CASE full
        <5>1. Cardinality(kept) < MaxEntries
          BY <2>1, <4>1, Zenon
        <5> HIDE DEF kept, full
        <5> QED
          BY <1>4, <1>5, <5>1
      <4>2. CASE ~ full
        <5>1. kept = DOMAIN entries /\ (t \in DOMAIN entries \/ Cardinality(DOMAIN entries) < MaxEntries)
          BY <1>6, <4>2, Zenon
        <5> HIDE DEF kept, full
        <5> QED
          BY <1>4, <1>5, <5>1
      <4> QED
        BY <4>1, <4>2, Zenon
    <3> QED
      BY <1>5, <3>1, <3>2, Zenon
  <2>2. CASE ~ room
    <3>1. D = kept
      BY <2>2, Zenon
    <3> HIDE DEF kept, full
    <3> QED
      BY <1>3, <1>4, <3>1
  <2> QED
    BY <2>1, <2>2, Zenon
<1>8. D \subseteq DOMAIN entries \cup {t}
  BY <1>2, Zenon
<1> HIDE DEF D
<1> QED
  BY <1>1, <1>7, <1>8, Zenon

\* What ceased to hold at s or later did so at an earlier time or later.
LEMMA HeldEarlier ==
  ASSUME Base, NEW k \in AllKeys, NEW a, NEW s \in Int, NEW u \in Int, u <= s,
         Held(Truth, ended, k, a, s)
  PROVE  Held(Truth, ended, k, a, u)
<1>1. \A b \in DOMAIN ended[k] : ended[k][b] \in Nat
  BY Zenon DEF Base
<1>2. CASE Truth[k] = a
  BY <1>2, Zenon DEF Held
<1>3. CASE a \in DOMAIN ended[k] /\ s <= ended[k][a]
  <2>1. u <= ended[k][a]
    BY <1>1, <1>3
  <2> QED
    BY <1>3, <2>1, Zenon DEF Held
<1> QED
  BY <1>2, <1>3, Zenon DEF Held

\* The verdict on a token, when the call for it ends, and the entry it makes.
LEMMA VerdictLands ==
  ASSUME VerifierInv, tokens = "opaque", NEW t \in Opaque, Landed(t), NEW verdict, NEW e,
         verdict = (IF flight[t].read = Failed THEN Failed ELSE validateIntrospection(t, flight[t].read)),
         e = [verdict |-> verdict, expires |-> expiresAt(t, verdict)]
  PROVE  /\ VerdictOK(Truth, ended, now, t, verdict)
         /\ flight[t].read # Failed => EntryOK(Truth, ended, now, t, e)
<1> DEFINE x == flight[t].read
           s == now - MaxFetch
<1>1. /\ t \in DOMAIN flight /\ x \in {"active", "inactive", Failed}
      /\ x \in {"active", "inactive"} => Held(Truth, ended, t, x = "active", flight[t].began)
  BY Zenon DEF Landed, VerifierInv, OpaqueInv, OpaqueFlights
<1>2. /\ now \in Nat /\ flight[t].began \in Nat /\ now <= flight[t].began + MaxFetch /\ t \in AllKeys
      /\ Exp[t] \in Nat /\ Leeway \in Nat /\ MaxFetch \in Nat /\ IntroTTL \in Nat /\ NegativeTTL \in Nat
  BY <1>1, ProviderAssumption, IntrospectionAssumption, Zenon
     DEF VerifierInv, Base, CallsOK, CallSet, AllKeys
<1>3. s \in Int /\ s <= flight[t].began
  BY <1>2
<1>4. x \in {"active", "inactive"} => Held(Truth, ended, t, x = "active", s)
  <2>1. Base /\ flight[t].began \in Int
    BY <1>2 DEF VerifierInv
  <2> HIDE DEF s
  <2> QED
    BY <1>1, <1>2, <1>3, <2>1, HeldEarlier, Zenon
<1> HIDE DEF s
<1>5. CASE x = Failed
  BY <1>5, VerifierAssumption, Zenon DEF VerdictOK
<1>6. CASE x = "inactive"
  <2>1. verdict = "inactive"
    <3>1. verdict = validateIntrospection(t, x)
      BY <1>6, VerifierAssumption, Zenon
    <3>2. validateIntrospection(t, "inactive") = "inactive"
      BY Zenon DEF validateIntrospection
    <3> QED
      BY <1>6, <3>1, <3>2, Zenon
  <2>2. Held(Truth, ended, t, verdict = "active", s)
    BY <1>4, <1>6, <2>1, Zenon
  <2>3. VerdictOK(Truth, ended, now, t, verdict)
    BY <2>1, <2>2, Zenon DEF VerdictOK, s
  <2>4. e.verdict = "inactive" /\ e.expires = now + NegativeTTL /\ TTL(e.verdict) = NegativeTTL
    BY <2>1, Zenon DEF expiresAt, TTL
  <2>5. /\ e.expires \in Nat /\ e.expires <= now + TTL(e.verdict)
        /\ e.expires - TTL(e.verdict) - MaxFetch = s
    BY <1>2, <2>4 DEF s
  <2>6. EntryOK(Truth, ended, now, t, e)
    BY <2>1, <2>2, <2>4, <2>5, Zenon DEF EntryOK
  <2> QED
    BY <2>3, <2>6, Zenon
<1>7. CASE x = "active" /\ now > Exp[t] + Leeway
  <2>1. verdict = "expired"
    BY <1>7, VerifierAssumption, Zenon DEF validateIntrospection
  <2>2. VerdictOK(Truth, ended, now, t, verdict)
    BY <2>1, Zenon DEF VerdictOK
  <2>3. e.verdict = "expired" /\ e.expires = now + NegativeTTL /\ TTL(e.verdict) = NegativeTTL
    BY <2>1, Zenon DEF expiresAt, TTL
  <2>4. EntryOK(Truth, ended, now, t, e)
    <3>1. now + NegativeTTL \in Nat /\ now + NegativeTTL <= now + NegativeTTL
      BY <1>2, NatSums, Zenon
    <3> QED
      BY <2>3, <3>1, Zenon DEF EntryOK
  <2> QED
    BY <2>2, <2>4, Zenon
<1>8. CASE x = "active" /\ ~ (now > Exp[t] + Leeway)
  <2>1. verdict = "active" /\ now <= Exp[t] + Leeway
    <3>1. verdict = validateIntrospection(t, x) /\ x = "active"
      BY <1>8, VerifierAssumption, Zenon
    <3>2. verdict = "active"
      BY <1>8, <3>1, Zenon DEF validateIntrospection
    <3> QED
      BY <1>2, <1>8, <3>2, NatSums, Zenon
  <2>2. Held(Truth, ended, t, verdict = "active", s)
    BY <1>4, <1>8, <2>1, Zenon
  <2>3. VerdictOK(Truth, ended, now, t, verdict)
    BY <2>1, <2>2, Zenon DEF VerdictOK, s
  <2>4. /\ e.verdict = "active" /\ TTL(e.verdict) = IntroTTL
        /\ e.expires = IF Exp[t] - now < IntroTTL THEN Exp[t] ELSE now + IntroTTL
    BY <2>1, Zenon DEF expiresAt, TTL
  <2>5. /\ e.expires \in Nat /\ e.expires <= now + IntroTTL /\ e.expires <= Exp[t]
        /\ e.expires - IntroTTL - MaxFetch \in Int /\ e.expires - IntroTTL - MaxFetch <= s
    BY <1>2, <2>4 DEF s
  <2>6. Held(Truth, ended, t, e.verdict = "active", e.expires - IntroTTL - MaxFetch)
    <3>1. Base
      BY Zenon DEF VerifierInv
    <3>2. e.verdict = verdict
      BY <2>1, <2>4, Zenon
    <3>3. Held(Truth, ended, t, verdict = "active", e.expires - IntroTTL - MaxFetch)
      <4> DEFINE u == e.expires - IntroTTL - MaxFetch
                 v == verdict = "active"
      <4>1. u \in Int /\ u <= s /\ Held(Truth, ended, t, v, s)
        BY <2>2, <2>5, Zenon
      <4> HIDE DEF u, v
      <4>2. Held(Truth, ended, t, v, u)
        BY <1>2, <1>3, <3>1, <4>1, HeldEarlier, Zenon
      <4> QED
        BY <4>2, Zenon DEF u, v
    <3> QED
      BY <3>2, <3>3, Zenon
  <2>7. EntryOK(Truth, ended, now, t, e)
    BY <2>4, <2>5, <2>6, Zenon DEF EntryOK
  <2> QED
    BY <2>3, <2>7, Zenon
<1> QED
  BY <1>1, <1>5, <1>6, <1>7, <1>8, Zenon

\* A call ends: who waited has the verdict, and the cache perhaps its entry.
LEMMA CallLandsKeeps ==
  ASSUME VerifierInv, tokens = "opaque", OpaqueFrame, NEW t \in Opaque, CallLands(t)
  PROVE  VerifierInv'
<1> DEFINE verdict == IF flight[t].read = Failed THEN Failed ELSE validateIntrospection(t, flight[t].read)
           e == [verdict |-> verdict, expires |-> expiresAt(t, verdict)]
<1>1. /\ Truth' = Truth /\ ended' = ended /\ now' = now /\ tokens' = "opaque" /\ answer' = answer
      /\ UNCHANGED <<pc, token>>
  BY StillKeeps, Zenon DEF OpaqueFrame, CallLands
<1>2. /\ Landed(t) /\ Lands(t, verdict)
      /\ entries' = IF flight[t].read = Failed \/ e.expires <= now THEN entries ELSE put(t, e)
  BY Zenon DEF CallLands
<1>3. /\ VerdictOK(Truth, ended, now, t, verdict)
      /\ flight[t].read # Failed => EntryOK(Truth, ended, now, t, e)
  BY <1>2, VerdictLands, Zenon
<1> HIDE DEF verdict, e
<1>4. /\ CallsOK(flight', now) /\ DOMAIN flight' = DOMAIN flight \ {t}
      /\ \A d \in DOMAIN flight' : flight'[d] = flight[d]
      /\ got' = [r \in Requests |-> got'[r]]
      /\ \A r \in Requests : got'[r] = IF r \in flight[t].waiting THEN verdict ELSE got[r]
  BY <1>2, LandCalls, Zenon DEF VerifierInv, Base
<1>5. t \in DOMAIN flight
  BY <1>2, Zenon DEF Landed
<1>6. Base'
  BY <1>1, <1>4, Zenon DEF VerifierInv, Base, OpaqueFrame
<1>7. OpaqueFlights'
  <2>1. ASSUME NEW d \in DOMAIN flight', NEW r \in flight'[d].waiting
        PROVE  pc[r] = "introspected" /\ token[r] = d /\ got'[r] = None
    <3>1. d \in DOMAIN flight /\ d # t /\ r \in flight[d].waiting
      BY <1>4, Zenon
    <3>2. r \in Requests /\ pc[r] = "introspected" /\ token[r] = d /\ got[r] = None
      BY <3>1, ZenonT(30) DEF VerifierInv, Base, CallsOK, CallSet, OpaqueInv, OpaqueFlights
    <3>3. r \notin flight[t].waiting
      BY <1>5, <3>1, <3>2, Zenon DEF VerifierInv, OpaqueInv, OpaqueFlights
    <3> QED
      BY <1>4, <3>2, <3>3, Zenon
  <2>2. /\ DOMAIN flight' \subseteq Opaque
        /\ \A d \in DOMAIN flight' :
             /\ flight'[d].read \in {"active", "inactive", None, Failed}
             /\ flight'[d].read \in {"active", "inactive"} =>
                  Held(Truth, ended, d, flight'[d].read = "active", flight'[d].began)
    BY <1>4, Zenon DEF VerifierInv, OpaqueInv, OpaqueFlights
  <2> QED
    BY <1>1, <2>1, <2>2, Zenon DEF OpaqueFlights
<1>8. OpaqueRequests'
  <2> SUFFICES ASSUME NEW r \in Requests
               PROVE  /\ pc[r] # "idle" => token[r] \in Opaque
                      /\ got'[r] # None =>
                           pc[r] = "introspected" /\ VerdictOK(Truth, ended, now, token[r], got'[r])
    BY <1>1, Zenon DEF OpaqueRequests
  <2>1. CASE r \in flight[t].waiting
    <3>1. pc[r] = "introspected" /\ token[r] = t /\ got'[r] = verdict
      BY <1>4, <1>5, <2>1, Zenon DEF VerifierInv, OpaqueInv, OpaqueFlights
    <3> QED
      BY <1>3, <3>1, Zenon
  <2>2. CASE r \notin flight[t].waiting
    BY <1>4, <2>2, Zenon DEF VerifierInv, OpaqueInv, OpaqueRequests
  <2> QED
    BY <2>1, <2>2, Zenon
<1>9. OpaqueCache'
  <2>1. CASE entries' = entries
    BY <1>1, <2>1, Zenon DEF VerifierInv, OpaqueInv, OpaqueCache
  <2>2. CASE entries' # entries
    <3>1. flight[t].read # Failed /\ entries' = put(t, e)
      BY <1>2, <2>2, Zenon
    <3>2. IsFiniteSet(DOMAIN entries) /\ Cardinality(DOMAIN entries) <= MaxEntries
      BY Zenon DEF VerifierInv, OpaqueInv, OpaqueCache
    <3>3. /\ IsFiniteSet(DOMAIN entries') /\ Cardinality(DOMAIN entries') <= MaxEntries
          /\ DOMAIN entries' \subseteq DOMAIN entries \cup {t}
          /\ entries' = [u \in DOMAIN entries' |-> entries'[u]]
          /\ \A u \in DOMAIN entries' : entries'[u] = IF u = t THEN e ELSE entries[u]
      BY <3>1, <3>2, PutBounded
    <3>4. ASSUME NEW u \in DOMAIN entries'
          PROVE  EntryOK(Truth, ended, now, u, entries'[u])
      BY <1>3, <3>1, <3>3, Zenon DEF VerifierInv, OpaqueInv, OpaqueCache
    <3> QED
      BY <1>1, <3>3, <3>4, Zenon DEF VerifierInv, OpaqueInv, OpaqueCache
  <2> QED
    BY <2>1, <2>2, Zenon
<1> QED
  BY <1>1, <1>6, <1>7, <1>8, <1>9, Zenon DEF VerifierInv, JwtInv, OpaqueInv

\* No request waits that has its verdict or has not asked for it.
LEMMA OpaqueNotWaiting ==
  ASSUME VerifierInv, tokens = "opaque", NEW r \in Requests, pc[r] # "introspected" \/ got[r] # None
  PROVE  \A c \in DOMAIN flight : r \notin flight[c].waiting
  BY Zenon DEF VerifierInv, OpaqueInv, OpaqueFlights

\* Every step of the verification of opaque tokens.
LEMMA OpaqueKeeps ==
  ASSUME VerifierInv, OpaqueStep
  PROVE  VerifierInv'
<1>1. tokens = "opaque" /\ OpaqueFrame
  BY Zenon DEF OpaqueStep, OpaqueFrame, jwksVars
<1>2. ASSUME NEW r \in Requests, NEW t \in Opaque, Introspect(r, t) PROVE VerifierInv'
  <2>1. \A c \in DOMAIN flight : r \notin flight[c].waiting
    BY <1>1, <1>2, OpaqueNotWaiting, Zenon DEF Introspect
  <2>2. got' = [got EXCEPT ![r] = None]
    BY <1>1, <1>2, Zenon DEF Introspect, VerifierInv, Base, OpaqueInv, OpaqueRequests
  <2>3. OpaqueCache'
    BY <1>1, <1>2, CacheShrinks, Zenon DEF Introspect, Swept
  <2>4. /\ pc' = [pc EXCEPT ![r] = "introspect"] /\ token' = [token EXCEPT ![r] = t] /\ flight' = flight
    BY <1>2, Zenon DEF Introspect, GoTo
  <2> QED
    BY <1>1, <2>1, <2>2, <2>3, <2>4, OpaqueMove, Zenon
<1>3. ASSUME NEW r \in Requests, Cached(r) \/ Introspected(r) PROVE VerifierInv'
  <2>1. Return(r) /\ UNCHANGED <<flight, entries>>
    BY <1>3, Zenon DEF Cached, Introspected, Reply
  <2>2. \A c \in DOMAIN flight : r \notin flight[c].waiting
    BY <1>1, <1>3, OpaqueNotWaiting, Zenon DEF Cached, Introspected
  <2>3. OpaqueCache'
    <3>1. Truth' = Truth /\ ended' = ended /\ now' = now
      BY <1>1, StillKeeps, Zenon DEF OpaqueFrame
    <3> QED
      BY <1>1, <2>1, <3>1, Zenon DEF VerifierInv, OpaqueInv, OpaqueCache, OpaqueFrame
  <2> QED
    BY <1>1, <2>1, <2>2, <2>3, OpaqueMove, Zenon DEF Return
<1>4. ASSUME NEW r \in Requests, Call(r) PROVE VerifierInv'
  BY <1>1, <1>4, CallKeeps, Zenon
<1>5. CASE IntrospectionCall
  <2>1. PICK t \in Opaque :
          \/ /\ Reads(t, IF t \in active THEN "active" ELSE "inactive")
             /\ Quiet /\ UNCHANGED <<locals, entries>>
          \/ CallLands(t)
    BY <1>5, Zenon DEF IntrospectionCall
  <2>2. CASE CallLands(t)
    BY <1>1, <2>2, CallLandsKeeps, Zenon
  <2>3. CASE ~ CallLands(t)
    BY <1>1, <2>1, <2>3, OpaqueRead, Zenon
  <2> QED
    BY <2>2, <2>3, Zenon
<1> QED
  BY <1>2, <1>3, <1>4, <1>5, Zenon DEF OpaqueStep, IntrospectionRequest

-----------------------------------------------------------------------------
(* The provider, the clock, and every step.                                *)

\* The invariant survives a step that changes only what holds, and the time
\* when no request has its result and no call is at its timeout.
LEMMA WorldStep ==
  ASSUME VerifierInv, Base', WorldKeeps, now' \in {now, now + 1}, tokens' = tokens,
         UNCHANGED <<flight, pc, token, got, keys, fetchedAt, entries>>,
         reply' = NoReply, answer' = NoAnswer,
         now' # now => \A r \in Requests : got[r] = None
  PROVE  VerifierInv'
<1>1. /\ now \in Nat /\ now' \in Nat /\ now <= now' /\ MaxFetch \in Nat
      /\ \A c \in DOMAIN flight : flight[c].began \in Nat /\ flight[c].began <= now
  BY ProviderAssumption DEF VerifierInv, Base, CallsOK, CallSet
<1>2. CASE tokens = "jwt"
  <2>1. JwtFlights'
    <3>1. "jwks" \in DOMAIN flight /\ flight["jwks"].read \notin {None, Failed} =>
            SetHeld(Truth', ended', flight["jwks"].read, flight["jwks"].began)
      BY <1>1, <1>2, SetKeeps DEF VerifierInv, JwtInv, JwtFlights
    <3> QED
      BY <1>2, <3>1, Zenon DEF VerifierInv, JwtInv, JwtFlights
  <2>2. JwtRequests'
    <3>1. ASSUME NEW r \in Requests, pc[r] = "refreshed", got[r] \notin {None, Failed}
          PROVE  got[r] \in SUBSET Kids /\ SetHeld(Truth', ended', got[r], now' - MaxFetch)
      <4>1. now' = now
        BY <3>1, Zenon
      <4>2. got[r] \in SUBSET Kids /\ SetHeld(Truth, ended, got[r], now - MaxFetch)
        BY <1>2, <3>1, Zenon DEF VerifierInv, JwtInv, JwtRequests
      <4>3. now - MaxFetch \in Int /\ now - MaxFetch <= now
        BY <1>1
      <4> QED
        BY <4>1, <4>2, <4>3, SetKeeps, Zenon
    <3> QED
      BY <1>2, <3>1, Zenon DEF VerifierInv, JwtInv, JwtRequests
  <2>3. JwtCache'
    <3>1. ASSUME fetchedAt # None
          PROVE  /\ fetchedAt \in Nat /\ fetchedAt <= now'
                 /\ SetHeld(Truth', ended', keys, fetchedAt - MaxFetch)
      <4>1. fetchedAt \in Nat /\ fetchedAt <= now /\ SetHeld(Truth, ended, keys, fetchedAt - MaxFetch)
        BY <1>2, <3>1, Zenon DEF VerifierInv, JwtInv, JwtCache
      <4>2. fetchedAt <= now' /\ fetchedAt - MaxFetch \in Int /\ fetchedAt - MaxFetch <= now
        BY <1>1, <4>1
      <4> QED
        BY <4>1, <4>2, SetKeeps, Zenon
    <3> QED
      BY <1>2, <3>1, Zenon DEF VerifierInv, JwtInv, JwtCache
  <2> QED
    BY <1>2, <2>1, <2>2, <2>3, Zenon DEF VerifierInv, JwtInv, OpaqueInv
<1>3. CASE tokens = "opaque"
  <2>1. OpaqueFlights'
    <3>1. ASSUME NEW c \in DOMAIN flight, flight[c].read \in {"active", "inactive"}
          PROVE  Held(Truth', ended', c, flight[c].read = "active", flight[c].began)
      <4>1. c \in AllKeys /\ Held(Truth, ended, c, flight[c].read = "active", flight[c].began)
        BY <1>3, <3>1, Zenon DEF VerifierInv, OpaqueInv, OpaqueFlights, AllKeys
      <4> QED
        BY <1>1, <4>1 DEF WorldKeeps
    <3> QED
      BY <1>3, <3>1, ZenonT(30) DEF VerifierInv, OpaqueInv, OpaqueFlights
  <2>2. OpaqueRequests'
    <3>1. ASSUME NEW r \in Requests, got[r] # None
          PROVE  pc[r] = "introspected" /\ VerdictOK(Truth', ended', now', token[r], got[r])
      <4>1. now' = now
        BY <3>1, Zenon
      <4>2. pc[r] = "introspected" /\ VerdictOK(Truth, ended, now, token[r], got[r]) /\ token[r] \in Opaque
        BY <1>3, <3>1, Zenon DEF VerifierInv, OpaqueInv, OpaqueRequests
      <4> QED
        BY <1>1, <4>1, <4>2, VerdictKeeps, Zenon
    <3> QED
      BY <1>3, <3>1, Zenon DEF VerifierInv, OpaqueInv, OpaqueRequests
  <2>3. OpaqueCache'
    <3>1. ASSUME NEW t \in DOMAIN entries PROVE EntryOK(Truth', ended', now', t, entries[t])
      <4>1. t \in Opaque /\ EntryOK(Truth, ended, now, t, entries[t])
        BY <1>3, Zenon DEF VerifierInv, OpaqueInv, OpaqueCache
      <4> QED
        BY <1>1, <4>1, EntryKeeps, Zenon
    <3> QED
      BY <1>3, <3>1, Zenon DEF VerifierInv, OpaqueInv, OpaqueCache
  <2> QED
    BY <1>3, <2>1, <2>2, <2>3, Zenon DEF VerifierInv, JwtInv, OpaqueInv
<1> QED
  BY <1>2, <1>3, Zenon DEF VerifierInv, Base

\* What the provider does.
LEMMA ProviderStepKeeps ==
  ASSUME VerifierInv, ProviderStep
  PROVE  VerifierInv'
<1>1. /\ UNCHANGED <<now, flight, pc, token, got, keys, fetchedAt, entries, tokens>>
      /\ reply' = NoReply /\ answer' = NoAnswer
  BY Zenon DEF ProviderStep, Silent, Quiet, locals, cache
<1>2. published' \in SUBSET Kids /\ active' \in SUBSET Opaque
  BY Zenon DEF VerifierInv, Base, ProviderStep, Publish, Retire, Toggle
<1>3. /\ ended' = [k \in AllKeys |-> ended'[k]]
      /\ \A k \in AllKeys : \A a \in DOMAIN ended'[k] : ended'[k][a] \in Nat
  <2>1. ended' = [k \in AllKeys |->
          IF Truth'[k] = Truth[k] THEN ended[k]
          ELSE [a \in DOMAIN ended[k] \cup {Truth[k]} |-> IF a = Truth[k] THEN now ELSE ended[k][a]]]
    BY Zenon DEF VerifierInv, Base, ProviderStep
  <2> QED
    BY <2>1, Zenon DEF VerifierInv, Base
<1>4. Base'
  BY <1>1, <1>2, <1>3, Zenon DEF VerifierInv, Base
<1> QED
  BY <1>1, <1>4, ProviderKeeps, WorldStep, Zenon DEF VerifierInv

\* The clock advances only while every request under way waits for a call.
LEMMA TickKeeps ==
  ASSUME VerifierInv, Tick
  PROVE  VerifierInv'
<1>1. /\ UNCHANGED <<published, active, ended, flight, pc, token, got, keys, fetchedAt, entries, tokens>>
      /\ reply' = NoReply /\ answer' = NoAnswer /\ now' = now + 1
  BY Zenon DEF Tick, Passes, Silent, Quiet, locals, cache
<1>2. ASSUME NEW r \in Requests PROVE got[r] = None
  <2>1. CASE pc[r] = "idle"
    BY <2>1, ZenonT(30) DEF VerifierInv, Base, JwtInv, JwtRequests, OpaqueInv, OpaqueRequests
  <2>2. CASE pc[r] # "idle"
    <3>1. PICK c \in DOMAIN flight : r \in flight[c].waiting
      BY <2>2, Zenon DEF Tick, Passes, Waits
    <3> QED
      BY <3>1, Zenon DEF VerifierInv, Base, JwtInv, JwtFlights, OpaqueInv, OpaqueFlights
  <2> QED
    BY <2>1, <2>2, Zenon
<1>3. CallsOK(flight, now + 1)
  <2>1. CallsOK(flight, now) /\ now \in Nat
    BY Zenon DEF VerifierInv, Base
  <2>2. ASSUME NEW c \in DOMAIN flight
        PROVE  flight[c].began <= now + 1 /\ now + 1 <= flight[c].began + MaxFetch
    <3>1. flight[c].began \in Nat /\ flight[c].began <= now /\ now - flight[c].began < MaxFetch
      BY <2>1, Zenon DEF CallsOK, CallSet, Tick, Passes
    <3> QED
      BY <2>1, <3>1, ProviderAssumption
  <2> QED
    BY <2>1, <2>2, Zenon DEF CallsOK
<1>4. Base'
  BY <1>1, <1>3 DEF VerifierInv, Base
<1> QED
  BY <1>1, <1>2, <1>4, StillKeeps, WorldStep, Zenon

\* The invariant is inductive.
LEMMA VerifierStep == VerifierInv /\ [Next]_vars => VerifierInv'
<1> SUFFICES ASSUME VerifierInv, [Next]_vars PROVE VerifierInv'
  OBVIOUS
<1>1. CASE UNCHANGED vars
  <2>1. UNCHANGED <<now, published, active, ended, flight, pc, token, got, keys, fetchedAt, entries,
                    tokens, reply, answer>>
    BY <1>1, Zenon DEF vars, jwksVars, introVars, locals, cache
  <2>2. Truth' = Truth
    BY <2>1, StillKeeps, Zenon
  <2>3. Base'
    BY <2>1, Zenon DEF VerifierInv, Base
  <2>4. JwtInv'
    BY <2>1, <2>2, Zenon DEF VerifierInv, JwtInv, JwtFlights, JwtRequests, JwtCache
  <2>5. OpaqueInv'
    BY <2>1, <2>2, ZenonT(30) DEF VerifierInv, OpaqueInv, OpaqueFlights, OpaqueRequests, OpaqueCache
  <2> QED
    BY <2>3, <2>4, <2>5, Zenon DEF VerifierInv
<1> QED
  BY <1>1, JwtKeeps, OpaqueKeeps, ProviderStepKeeps, TickKeeps, Zenon DEF Next

\* The verifier starts with empty caches and no calls.
LEMMA VerifierInitial == Init => VerifierInv
<1> SUFFICES ASSUME Init PROVE VerifierInv
  OBVIOUS
<1>1. /\ tokens \in {"jwt", "opaque"} /\ now = 0 /\ active = Opaque /\ published \in SUBSET Kids
      /\ pc = [r \in Requests |-> "idle"] /\ token = [r \in Requests |-> None]
      /\ got = [r \in Requests |-> None] /\ flight = [c \in {} |-> None]
      /\ entries = [t \in {} |-> None] /\ reply = NoReply /\ answer = NoAnswer
      /\ keys = {} /\ fetchedAt = None
      /\ ended = [k \in AllKeys |-> [a \in {} |-> 0]]
  BY Zenon DEF Init, ProviderInit, JwksInit, IntrospectionInit, AllKeys
<1>2. DOMAIN flight = {} /\ DOMAIN entries = {} /\ CallsOK(flight, now)
  BY <1>1, Zenon DEF CallsOK
<1>3. Base
  BY <1>1, <1>2, Zenon DEF Base
<1>4. IsFiniteSet(DOMAIN entries) /\ Cardinality(DOMAIN entries) <= MaxEntries
  BY <1>2, FS_EmptySet, IntrospectionAssumption
<1>5. JwtInv
  BY <1>1, <1>2, Zenon DEF JwtInv, JwtFlights, JwtRequests, JwtCache
<1>6. OpaqueInv
  <2>1. entries = [t \in DOMAIN entries |-> entries[t]]
    BY <1>1, <1>2, Zenon
  <2> QED
    BY <1>1, <1>2, <1>4, <2>1, Zenon DEF OpaqueInv, OpaqueFlights, OpaqueRequests, OpaqueCache
<1> QED
  BY <1>3, <1>5, <1>6, Zenon DEF VerifierInv

-----------------------------------------------------------------------------
(* The theorems.                                                           *)

\* Unless it answers a request, a step of the verification of JWTs is silent.
LEMMA JwtAnswers ==
  ASSUME JwtStep
  PROVE  \/ answer' = NoAnswer
         \/ \E r \in Requests : \/ DiscoveryFailed(r) \/ KnownKey(r) \/ UnknownKey(r)
                                \/ Refreshed(r) \/ RefreshFailed(r)
<1>1. ASSUME NEW r \in Requests,
             discover(r) \/ Discovered(r) \/ NeedRefresh(r) \/ refreshJWKS(r) \/ \E t \in JWTs : Verify(r, t)
      PROVE  Silent
  BY <1>1, Zenon DEF discover, Discovered, NeedRefresh, refreshJWKS, Verify
<1>2. JwksCall => Silent
  BY Zenon DEF JwksCall, DiscoveryLands, JwksLands
<1> QED
  BY <1>1, <1>2, Zenon DEF JwtStep, JwksRequest, Silent

\* A token with the key gets what its claims come to, or is invalid.
LEMMA VerdictValues ==
  ASSUME NEW set, NEW t \in JWTs
  PROVE  Verdict(set, t) \in {"ok", "scope", "invalid"}
<1>1. t.claims \in {"ok", "scope", "invalid"}
  BY JwksAssumption, Zenon
<1> QED
  BY <1>1, Zenon DEF Verdict

\* Whatever requests share a refresh and however the provider fails: a request
\* that got to the key set is answered "unavailable" only if no key of the
\* cached set, whatever its age, suits its token (lookupKey).
THEOREM OutageAlwaysServesCached == Spec => []OutageServesCached
<1>1. Init => OutageServesCached
  BY DEF Init, JwksInit, OutageServesCached, NoAnswer
<1>2. VerifierInv /\ OutageServesCached /\ [Next]_vars => OutageServesCached'
  <2> SUFFICES ASSUME VerifierInv, OutageServesCached, [Next]_vars PROVE OutageServesCached'
    OBVIOUS
  <2>1. CASE answer' = NoAnswer
    BY <2>1, Zenon DEF OutageServesCached, NoAnswer
  <2>2. CASE UNCHANGED <<answer, keys>>
    BY <2>2, Zenon DEF OutageServesCached, matchKey
  <2>3. ASSUME NEW r \in Requests, tokens = "jwt",
               \/ DiscoveryFailed(r) \/ KnownKey(r) \/ UnknownKey(r) \/ Refreshed(r) \/ RefreshFailed(r)
        PROVE  OutageServesCached'
    <3>1. keys' = keys /\ token[r] \in JWTs
      BY <2>3, Zenon DEF DiscoveryFailed, KnownKey, UnknownKey, Refreshed, RefreshFailed, cache,
         VerifierInv, JwtInv, JwtRequests
    <3>2. \A set : Verdict(set, token[r]) # "unavailable"
      BY <3>1, VerdictValues, Zenon
    <3>3. CASE DiscoveryFailed(r)
      BY <3>3, Zenon DEF DiscoveryFailed, Answer, OutageServesCached
    <3>4. CASE KnownKey(r) \/ UnknownKey(r) \/ Refreshed(r)
      <4>1. answer'.outcome # "unavailable"
        <5>1. CASE KnownKey(r)
          BY <3>2, <5>1, Zenon DEF KnownKey, Answer
        <5>2. CASE UnknownKey(r)
          BY <5>2, Zenon DEF UnknownKey, Answer
        <5>3. CASE Refreshed(r)
          BY <3>2, <5>3, Zenon DEF Refreshed, Answer
        <5> QED
          BY <3>4, <5>1, <5>2, <5>3, Zenon
      <4> QED
        BY <4>1, Zenon DEF OutageServesCached
    <3>5. CASE RefreshFailed(r)
      <4>1. CASE matchKey(keys, token[r])
        <5>1. answer'.outcome # "unavailable"
          BY <3>2, <3>5, <4>1, Zenon DEF RefreshFailed, Answer
        <5> QED
          BY <5>1, Zenon DEF OutageServesCached
      <4>2. CASE ~ matchKey(keys, token[r])
        <5>1. answer'.token = token[r]
          BY <3>5, Zenon DEF RefreshFailed, Answer
        <5> QED
          BY <3>1, <4>2, <5>1, Zenon DEF OutageServesCached, matchKey
      <4> QED
        BY <4>1, <4>2, Zenon
    <3> QED
      BY <2>3, <3>3, <3>4, <3>5, Zenon
  <2>4. CASE JwtStep
    BY <2>1, <2>3, <2>4, JwtAnswers, Zenon DEF JwtStep
  <2>5. CASE OpaqueStep
    BY <2>2, <2>5, Zenon DEF OpaqueStep, jwksVars, cache
  <2>6. CASE ProviderStep \/ Tick
    BY <2>1, <2>6, Zenon DEF ProviderStep, Tick, Silent
  <2>7. CASE UNCHANGED vars
    BY <2>2, <2>7, Zenon DEF vars, jwksVars, cache
  <2> QED
    BY <2>4, <2>5, <2>6, <2>7, Zenon DEF Next
<1> QED
  BY <1>1, <1>2, VerifierInitial, VerifierStep, PTL DEF Spec

\* Whatever calls are shared and however late their answers are: no opaque
\* token is accepted later than the leeway after its exp, and the cache never
\* has more than maxIntrospectionCacheEntries entries (Introspect, put).
THEOREM CacheAlwaysKeepsItsLimits == Spec => []CacheKeepsItsLimits
<1> DEFINE InTime == reply.verdict = "active" => reply.at <= Exp[reply.token] + Leeway
<1>1. Init => InTime
  BY DEF Init, IntrospectionInit, NoReply
<1>2. VerifierInv /\ InTime /\ [Next]_vars => InTime'
  <2> SUFFICES ASSUME VerifierInv, InTime, [Next]_vars PROVE InTime'
    OBVIOUS
  <2>1. CASE reply' = NoReply \/ reply' = reply
    BY <2>1 DEF NoReply
  <2>2. ASSUME NEW r \in Requests, tokens = "opaque", Cached(r) \/ Introspected(r)
        PROVE  InTime'
    <3>1. now \in Nat /\ token[r] \in Opaque /\ Exp[token[r]] \in Nat /\ Leeway \in Nat
      BY <2>2, IntrospectionAssumption, Zenon DEF Cached, Introspected, VerifierInv, Base, OpaqueInv, OpaqueRequests
    <3>2. CASE Cached(r)
      <4>1. /\ reply' = [token |-> token[r], verdict |-> entries[token[r]].verdict, at |-> now]
            /\ token[r] \in DOMAIN entries /\ now < entries[token[r]].expires
        BY <3>2, Zenon DEF Cached, Reply, Live
      <4>2. /\ entries[token[r]].expires \in Nat
            /\ entries[token[r]].verdict = "active" => entries[token[r]].expires <= Exp[token[r]]
        BY <2>2, <4>1, Zenon DEF VerifierInv, OpaqueInv, OpaqueCache, EntryOK
      <4>3. entries[token[r]].verdict = "active" => now <= Exp[token[r]] + Leeway
        BY <3>1, <4>1, <4>2, NatSums, Zenon
      <4> QED
        BY <4>1, <4>3, Zenon
    <3>3. CASE Introspected(r)
      <4>1. /\ reply' = [token |-> token[r], verdict |-> IF got[r] = Failed THEN "unavailable" ELSE got[r],
                         at |-> now]
            /\ got[r] # None
        BY <3>3, Zenon DEF Introspected, Reply
      <4>2. got[r] = "active" => now <= Exp[token[r]] + Leeway
        BY <2>2, <4>1, Zenon DEF VerifierInv, OpaqueInv, OpaqueRequests, VerdictOK
      <4> QED
        BY <4>1, <4>2, Zenon
    <3> QED
      BY <2>2, <3>2, <3>3, Zenon
  <2>3. CASE OpaqueStep
    <3>1. ASSUME NEW r \in Requests, Call(r) \/ \E t \in Opaque : Introspect(r, t) PROVE Quiet
      BY <3>1, Zenon DEF Call, Introspect
    <3>2. IntrospectionCall => Quiet
      BY Zenon DEF IntrospectionCall, CallLands
    <3> QED
      BY <2>1, <2>2, <2>3, <3>1, <3>2, Zenon DEF OpaqueStep, IntrospectionRequest, Quiet
  <2>4. CASE JwtStep
    BY <2>1, <2>4, Zenon DEF JwtStep, introVars
  <2>5. CASE ProviderStep \/ Tick
    BY <2>1, <2>5, Zenon DEF ProviderStep, Tick, Quiet
  <2>6. CASE UNCHANGED vars
    BY <2>1, <2>6, Zenon DEF vars, introVars
  <2> QED
    BY <2>3, <2>4, <2>5, <2>6, Zenon DEF Next
<1>3. VerifierInv => Cardinality(DOMAIN entries) <= MaxEntries
  <2>1. CASE tokens = "jwt"
    BY <2>1, FS_EmptySet, IntrospectionAssumption DEF VerifierInv, JwtInv, JwtCache
  <2>2. CASE tokens = "opaque"
    BY <2>2, Zenon DEF VerifierInv, OpaqueInv, OpaqueCache
  <2> QED
    BY <2>1, <2>2, Zenon DEF VerifierInv, Base
<1>4. VerifierInv /\ InTime => CacheKeepsItsLimits
  BY <1>3, Zenon DEF CacheKeepsItsLimits
<1> HIDE DEF InTime
<1> QED
  BY <1>1, <1>2, <1>4, VerifierInitial, VerifierStep, PTL DEF Spec

-----------------------------------------------------------------------------
(* Bounded staleness.                                                      *)

\* The truth is a truth of BoundedStaleness.
LEMMA TruthType == Truth \in [AllKeys -> BOOLEAN] /\ Truth' \in [AllKeys -> BOOLEAN]
  BY DEF Truth, AllKeys

\* The bound of the abstract cache.
LEMMA StalenessIs ==
  /\ \A k \in Kids : \A a \in BOOLEAN : Staleness[k][a] = MaxFetch + CacheTTL
  /\ \A t \in Opaque : \A v \in {"active", "inactive"} : Staleness[t][v = "active"] = MaxFetch + TTL(v)
<1>1. ASSUME NEW k \in Kids, NEW a \in BOOLEAN PROVE Staleness[k][a] = MaxFetch + CacheTTL
  BY Zenon DEF Staleness
<1>2. ASSUME NEW t \in Opaque, NEW v \in {"active", "inactive"}
      PROVE  Staleness[t][v = "active"] = MaxFetch + TTL(v)
  <2>1. t \notin Kids
    BY VerifierAssumption, Zenon
  <2>2. Staleness[t][TRUE] = MaxFetch + IntroTTL /\ Staleness[t][FALSE] = MaxFetch + NegativeTTL
    BY <2>1, Zenon DEF Staleness
  <2>3. CASE v = "active"
    BY <2>2, <2>3, Zenon DEF TTL
  <2>4. CASE v = "inactive"
    <3>1. (v = "active") = FALSE /\ TTL(v) = NegativeTTL
      BY <2>4, Zenon DEF TTL
    <3> QED
      BY <2>2, <3>1, Zenon
  <2> QED
    BY <2>3, <2>4, Zenon
<1> QED
  BY <1>1, <1>2, Zenon

\* An answer that held recently enough is a Serve.
LEMMA RefineServe ==
  ASSUME VerifierInv, NEW k \in AllKeys, NEW a \in BOOLEAN, NEW s \in Int, Held(Truth, ended, k, a, s),
         now < s + Staleness[k][a], Staleness[k][a] \in Int, Serve(k, a),
         UNCHANGED <<published, active, ended, now>>
  PROVE  Freshness!Next
<1>1. now \in Nat /\ \A b \in DOMAIN ended[k] : ended[k][b] \in Nat
  BY Zenon DEF VerifierInv, Base
<1>2. Truth[k] = a \/ (a \in DOMAIN ended[k] /\ now - ended[k][a] < Staleness[k][a])
  <2>1. CASE Truth[k] = a
    BY <2>1, Zenon
  <2>2. CASE a \in DOMAIN ended[k] /\ s <= ended[k][a]
    <3>1. now - ended[k][a] < Staleness[k][a]
      BY <1>1, <2>2
    <3> QED
      BY <2>2, <3>1, Zenon
  <2> QED
    BY <2>1, <2>2, Zenon DEF Held
<1>3. Freshness!HeldWithin(k, a, Staleness[k][a])
  BY <1>2, Zenon DEF Freshness!HeldWithin
<1>4. Truth' = Truth
  BY StillKeeps, Zenon
<1>5. Freshness!Serve(k, a)
  BY <1>3, <1>4, Zenon DEF Freshness!Serve, Serve
<1> QED
  BY <1>5, Zenon DEF Freshness!Next, AllKeys

\* A step that answers nothing and leaves the provider alone is Silent.
LEMMA RefineSilent ==
  ASSUME Unserved, UNCHANGED <<published, active, ended, now>>
  PROVE  Freshness!Next
<1>1. Truth' = Truth
  BY StillKeeps, Zenon
<1>2. Freshness!Silent
  BY <1>1, Zenon DEF Freshness!Silent, Freshness!NoAnswer, Unserved
<1> QED
  BY <1>2, Zenon DEF Freshness!Next

\* One key of a set suits a token with a kid if and only if it is the kid.
LEMMA MatchKid ==
  ASSUME NEW set \in SUBSET Kids, NEW t \in JWTs, t.kid # NoKid
  PROVE  t.kid \in Kids /\ matchKey(set, t) = (t.kid \in set)
<1>1. t.kid \in Kids
  BY JwksAssumption, Zenon
<1>2. matchKey(set, t) = (Cardinality(set \cap {t.kid}) = 1)
  BY Zenon DEF matchKey, Matching
<1>3. CASE t.kid \in set
  <2>1. set \cap {t.kid} = {t.kid}
    BY <1>3, Zenon
  <2> QED
    BY <1>1, <1>2, <1>3, <2>1, FS_Singleton, Zenon
<1>4. CASE t.kid \notin set
  <2>1. set \cap {t.kid} = {}
    BY <1>4, Zenon
  <2>2. Cardinality({}) # 1
    BY FS_EmptySet
  <2> QED
    BY <1>1, <1>2, <1>4, <2>1, <2>2
<1> QED
  BY <1>3, <1>4, Zenon

\* An answer on the word of a set that held less than CacheTTL and a fetch ago.
LEMMA RefineKid ==
  ASSUME VerifierInv, JwtFrame, NEW set \in SUBSET Kids, NEW s \in Int, SetHeld(Truth, ended, set, s),
         now < s + MaxFetch + CacheTTL, NEW t \in JWTs, t.kid # NoKid, NEW a \in BOOLEAN,
         a = matchKey(set, t), Serve(t.kid, a)
  PROVE  Freshness!Next
<1>1. t.kid \in Kids /\ a = (t.kid \in set) /\ t.kid \in AllKeys
  BY MatchKid, Zenon DEF AllKeys
<1>2. Held(Truth, ended, t.kid, a, s)
  BY <1>1, Zenon DEF SetHeld
<1>3. Staleness[t.kid][a] = MaxFetch + CacheTTL
  BY <1>1, StalenessIs, ZenonT(30)
<1>4. now < s + Staleness[t.kid][a] /\ Staleness[t.kid][a] \in Int
  <2>1. now \in Nat /\ MaxFetch \in Nat /\ CacheTTL \in Nat
    BY ProviderAssumption, JwksAssumption, Zenon DEF VerifierInv, Base
  <2> QED
    BY <1>3, <2>1
<1> QED
  BY <1>1, <1>2, <1>4, RefineServe, Zenon DEF JwtFrame

\* The answers to JWTs.
LEMMA RefineJwt ==
  ASSUME VerifierInv, JwtStep
  PROVE  Freshness!Next
<1>1. JwtFrame /\ tokens = "jwt" /\ ServeJWT
  BY Zenon DEF JwtStep, JwtFrame, introVars
<1>2. CASE Unserved
  BY <1>1, <1>2, RefineSilent, Zenon DEF JwtFrame
<1>3. CASE ~ Unserved
  <2>1. /\ answer' # NoAnswer /\ answer'.token.kid # NoKid /\ answer'.outcome # "unavailable"
        /\ ~ (answer'.refresh = "failed" /\ answer'.outcome # "unknown")
        /\ Serve(answer'.token.kid, answer'.outcome # "unknown")
    BY <1>1, <1>3, Zenon DEF ServeJWT
  <2>2. PICK r \in Requests : \/ DiscoveryFailed(r) \/ KnownKey(r) \/ UnknownKey(r)
                              \/ Refreshed(r) \/ RefreshFailed(r)
    BY <2>1, JwtAnswers, Zenon
  <2>3. token[r] \in JWTs /\ answer'.token = token[r]
    <3>1. answer'.token = token[r] /\ pc[r] # "idle"
      <4>1. CASE DiscoveryFailed(r)
        BY <4>1, Zenon DEF DiscoveryFailed, Answer
      <4>2. CASE KnownKey(r)
        BY <4>2, Zenon DEF KnownKey, Answer
      <4>3. CASE UnknownKey(r)
        BY <4>3, Zenon DEF UnknownKey, Answer
      <4>4. CASE Refreshed(r)
        BY <4>4, Zenon DEF Refreshed, Answer
      <4>5. CASE RefreshFailed(r)
        BY <4>5, Zenon DEF RefreshFailed, Answer
      <4> QED
        BY <2>2, <4>1, <4>2, <4>3, <4>4, <4>5, Zenon
    <3> QED
      BY <1>1, <3>1, Zenon DEF VerifierInv, JwtInv, JwtRequests
  <2>4. \A set : Verdict(set, token[r]) # "unknown"
    BY <2>3, VerdictValues, Zenon
  <2>5. now \in Nat /\ MaxFetch \in Nat /\ CacheTTL \in Nat \ {0}
    BY ProviderAssumption, JwksAssumption, Zenon DEF VerifierInv, Base
  <2>6. CASE KnownKey(r) \/ UnknownKey(r)
    <3>1. /\ fetchedAt # None /\ now - fetchedAt < CacheTTL
          /\ (answer'.outcome # "unknown") = matchKey(keys, token[r])
      <4>1. CASE KnownKey(r)
        <5>1. Fresh /\ matchKey(keys, token[r]) = TRUE /\ (answer'.outcome # "unknown") = TRUE
          BY <2>4, <4>1, Zenon DEF KnownKey, Answer, matchKey
        <5> QED
          BY <5>1, Zenon DEF Fresh
      <4>2. CASE UnknownKey(r)
        <5>1. Fresh /\ matchKey(keys, token[r]) = FALSE /\ (answer'.outcome # "unknown") = FALSE
          BY <4>2, Zenon DEF UnknownKey, Answer, matchKey
        <5> QED
          BY <5>1, Zenon DEF Fresh
      <4> QED
        BY <2>6, <4>1, <4>2, Zenon
    <3>2. /\ keys \in SUBSET Kids /\ fetchedAt \in Nat
          /\ SetHeld(Truth, ended, keys, fetchedAt - MaxFetch)
      BY <1>1, <3>1, Zenon DEF VerifierInv, JwtInv, JwtCache
    <3>3. fetchedAt - MaxFetch \in Int /\ now < fetchedAt - MaxFetch + MaxFetch + CacheTTL
      BY <2>5, <3>1, <3>2
    <3> DEFINE a == answer'.outcome # "unknown"
    <3>4. a \in BOOLEAN /\ a = matchKey(keys, token[r]) /\ Serve(token[r].kid, a) /\ token[r].kid # NoKid
      BY <2>1, <2>3, <3>1, Zenon
    <3> HIDE DEF a
    <3> QED
      BY <1>1, <2>3, <3>2, <3>3, <3>4, RefineKid, Zenon
  <2>7. CASE Refreshed(r)
    <3>1. /\ pc[r] = "refreshed" /\ got[r] \notin {None, Failed}
          /\ (answer'.outcome # "unknown") = matchKey(got[r], token[r])
      <4>1. /\ pc[r] = "refreshed" /\ got[r] \notin {None, Failed}
            /\ answer'.outcome = IF matchKey(got[r], token[r]) THEN Verdict(got[r], token[r]) ELSE "unknown"
        BY <2>7, Zenon DEF Refreshed, Answer
      <4>2. CASE matchKey(got[r], token[r])
        <5>1. matchKey(got[r], token[r]) = TRUE /\ (answer'.outcome # "unknown") = TRUE
          BY <2>4, <4>1, <4>2, Zenon DEF matchKey
        <5> QED
          BY <4>1, <5>1, Zenon
      <4>3. CASE ~ matchKey(got[r], token[r])
        <5>1. matchKey(got[r], token[r]) = FALSE /\ (answer'.outcome # "unknown") = FALSE
          BY <4>1, <4>3, Zenon DEF matchKey
        <5> QED
          BY <4>1, <5>1, ZenonT(30)
      <4> QED
        BY <4>2, <4>3, Zenon
    <3>2. got[r] \in SUBSET Kids /\ SetHeld(Truth, ended, got[r], now - MaxFetch)
      BY <1>1, <3>1, Zenon DEF VerifierInv, JwtInv, JwtRequests
    <3>3. now - MaxFetch \in Int /\ now < now - MaxFetch + MaxFetch + CacheTTL
      BY <2>5
    <3> DEFINE a == answer'.outcome # "unknown"
    <3>4. a \in BOOLEAN /\ a = matchKey(got[r], token[r]) /\ Serve(token[r].kid, a) /\ token[r].kid # NoKid
      BY <2>1, <2>3, <3>1, Zenon
    <3> HIDE DEF a
    <3> QED
      BY <1>1, <2>3, <3>2, <3>3, <3>4, RefineKid, Zenon
  <2>8. CASE DiscoveryFailed(r) \/ RefreshFailed(r)
    <3>1. ~ DiscoveryFailed(r)
      BY <2>1 DEF DiscoveryFailed, Answer
    <3>2. /\ answer'.refresh = "failed"
          /\ answer'.outcome = IF matchKey(keys, token[r]) THEN Verdict(keys, token[r]) ELSE "unavailable"
      BY <2>8, <3>1 DEF RefreshFailed, Answer
    <3> QED
      BY <2>1, <2>4, <3>2, Zenon
  <2> QED
    BY <2>2, <2>6, <2>7, <2>8, Zenon
<1> QED
  BY <1>2, <1>3, Zenon

\* The answers to opaque tokens.
LEMMA RefineOpaque ==
  ASSUME VerifierInv, OpaqueStep
  PROVE  Freshness!Next
<1>1. OpaqueFrame /\ tokens = "opaque" /\ ServeOpaque
  BY Zenon DEF OpaqueStep, OpaqueFrame, jwksVars
<1>2. CASE Unserved
  BY <1>1, <1>2, RefineSilent, Zenon DEF OpaqueFrame
<1>3. CASE ~ Unserved
  <2>1. /\ reply' # NoReply /\ reply'.verdict \notin {"unavailable", "expired"}
        /\ Serve(reply'.token, reply'.verdict = "active")
    BY <1>1, <1>3, Zenon DEF ServeOpaque
  <2>2. PICK r \in Requests : Cached(r) \/ Introspected(r)
    <3>1. ASSUME NEW r \in Requests, Call(r) \/ \E t \in Opaque : Introspect(r, t) PROVE Quiet
      BY <3>1, Zenon DEF Call, Introspect
    <3>2. IntrospectionCall => Quiet
      BY Zenon DEF IntrospectionCall, CallLands
    <3> QED
      BY <2>1, <3>1, <3>2, Zenon DEF OpaqueStep, IntrospectionRequest, Quiet
  <2>3. /\ now \in Nat /\ MaxFetch \in Nat /\ IntroTTL \in Nat \ {0} /\ NegativeTTL \in Nat \ {0}
        /\ token[r] \in Opaque /\ token[r] \in AllKeys
    BY <1>1, <2>2, ProviderAssumption, IntrospectionAssumption, Zenon
       DEF Cached, Introspected, VerifierInv, Base, OpaqueInv, OpaqueRequests, AllKeys
  <2> DEFINE t == token[r]
             v == reply'.verdict
             a == v = "active"
  <2>4. /\ t = reply'.token /\ v \in {"active", "inactive"}
        /\ \E s \in Int : Held(Truth, ended, t, v = "active", s) /\ now < s + MaxFetch + TTL(v)
    <3>1. CASE Cached(r)
      <4>1. /\ t = reply'.token /\ v = entries[t].verdict /\ t \in DOMAIN entries
            /\ now < entries[t].expires
        BY <3>1, Zenon DEF Cached, Reply, Live
      <4>2. EntryOK(Truth, ended, now, t, entries[t])
        BY <1>1, <4>1, Zenon DEF VerifierInv, OpaqueInv, OpaqueCache
      <4>3. /\ v \in {"active", "inactive"} /\ entries[t].expires \in Nat
            /\ Held(Truth, ended, t, v = "active", entries[t].expires - TTL(v) - MaxFetch)
        BY <2>1, <4>1, <4>2, Zenon DEF EntryOK
      <4>4. TTL(v) \in Nat
        BY <2>3, Zenon DEF TTL
      <4> DEFINE x == entries[t].expires
                 l == TTL(v)
      <4> HIDE DEF x, l
      <4>5. x - l - MaxFetch \in Int /\ now < x - l - MaxFetch + MaxFetch + l
        <5>1. x \in Nat /\ l \in Nat /\ now < x
          BY <4>1, <4>3, <4>4, Zenon DEF x, l
        <5> QED
          BY <2>3, <5>1
      <4> QED
        BY <4>1, <4>3, <4>5, Zenon DEF x, l
    <3>2. CASE Introspected(r)
      <4>1. /\ t = reply'.token /\ v = (IF got[r] = Failed THEN "unavailable" ELSE got[r]) /\ got[r] # None
        BY <3>2, Zenon DEF Introspected, Reply
      <4>2. VerdictOK(Truth, ended, now, t, got[r]) /\ v = got[r]
        BY <1>1, <2>1, <4>1, Zenon DEF VerifierInv, OpaqueInv, OpaqueRequests
      <4>3. v \in {"active", "inactive"}
        BY <2>1, <4>1, <4>2, Zenon DEF VerdictOK
      <4>4. Held(Truth, ended, t, v = "active", now - MaxFetch)
        BY <4>2, <4>3, Zenon DEF VerdictOK
      <4>5. now - MaxFetch \in Int /\ now < now - MaxFetch + MaxFetch + TTL(v)
        <5>1. TTL(v) \in Nat \ {0}
          BY <2>3, Zenon DEF TTL
        <5> QED
          BY <2>3, <5>1
      <4> QED
        BY <4>1, <4>3, <4>4, <4>5, Zenon
    <3> QED
      BY <2>2, <3>1, <3>2, Zenon
  <2>5. PICK s \in Int : Held(Truth, ended, t, v = "active", s) /\ now < s + MaxFetch + TTL(v)
    BY <2>4, Zenon
  <2>6. Staleness[t][a] = MaxFetch + TTL(v) /\ TTL(v) \in Nat
    BY <2>3, <2>4, StalenessIs, Zenon DEF TTL
  <2>7. now < s + Staleness[t][a] /\ Staleness[t][a] \in Int
    <3> HIDE DEF t, a, v
    <3> QED
      BY <2>3, <2>5, <2>6, SumMoved, Zenon
  <2>8. /\ a \in BOOLEAN /\ Held(Truth, ended, t, a, s) /\ Serve(t, a)
        /\ UNCHANGED <<published, active, ended, now>>
    BY <1>1, <2>1, <2>4, <2>5, Zenon DEF OpaqueFrame
  <2>9. t \in AllKeys
    BY <2>3, Zenon
  <2> HIDE DEF t, a, v
  <2> QED
    BY <2>7, <2>8, <2>9, RefineServe, Zenon
<1> QED
  BY <1>2, <1>3, Zenon

\* What the provider does is a Change.
LEMMA RefineProvider ==
  ASSUME VerifierInv, ProviderStep
  PROVE  Freshness!Next
<1>1. ended' = [k \in AllKeys |->
         IF Truth'[k] = Truth[k] THEN ended[k] ELSE Freshness!Noted(ended[k], Truth[k], now)]
  BY Zenon DEF VerifierInv, Base, ProviderStep, Freshness!Noted
<1>2. Freshness!Change
  BY <1>1, TruthType, Zenon DEF ProviderStep, Unserved, AllKeys, Freshness!Change, Freshness!NoAnswer
<1> QED
  BY <1>2, Zenon DEF Freshness!Next

\* Every step is a step of BoundedStaleness, or a stutter.
LEMMA RefineNext ==
  ASSUME VerifierInv, [Next]_vars
  PROVE  [Freshness!Next]_(Freshness!vars)
<1>1. CASE Tick
  <2>1. now' = now + 1 /\ Unserved /\ UNCHANGED <<published, active, ended>>
    BY <1>1, Zenon DEF Tick, Passes
  <2>2. Truth' = Truth
    BY <2>1, StillKeeps, Zenon
  <2>3. Freshness!Tick
    BY <2>1, <2>2, Zenon DEF Freshness!Tick, Freshness!NoAnswer, Unserved
  <2> QED
    BY <2>3, Zenon DEF Freshness!Next
<1>2. CASE UNCHANGED vars
  <2>1. UNCHANGED <<published, active, ended, now, served>>
    BY <1>2, Zenon DEF vars, jwksVars, introVars
  <2>2. Truth' = Truth
    BY <2>1, StillKeeps, Zenon
  <2> QED
    BY <2>1, <2>2, Zenon DEF Freshness!vars
<1> QED
  BY <1>1, <1>2, RefineJwt, RefineOpaque, RefineProvider, Zenon DEF Next

\* The initial states are initial states of BoundedStaleness.
LEMMA RefineInit == Init => Freshness!Init
  BY TruthType, Zenon DEF Init, ProviderInit, AllKeys, Freshness!Init, Freshness!NoAnswer

\* Whatever calls are shared, whenever they land and however the provider
\* changes its mind or fails: a kid is taken or refused as the provider had it
\* less than jwks_cache_ttl and a fetch ago, and an opaque token as the provider
\* had it less than the TTL of the verdict and a call ago (lookupKey, Introspect).
THEOREM VerifierBoundedStaleness == Spec => RefinesBoundedStaleness
  BY RefineInit, RefineNext, VerifierInitial, VerifierStep, PTL
     DEF Spec, RefinesBoundedStaleness, Freshness!Spec
=============================================================================
