------------------------------ MODULE Provider ------------------------------
(***************************************************************************)
(* Calls to the OIDC provider, as every cache of internal/oidc makes them: *)
(* through a singleflight.Group, so that requests that want the same       *)
(* document share one call, detached from the request that began it and    *)
(* ended by fetchTimeout at the latest.  The provider goes down and up.    *)
(***************************************************************************)
EXTENDS Integers

CONSTANTS
  Requests,    \* goroutines that verify a token
  MaxFetch,    \* fetchTimeout, in clock ticks
  MaxTime,     \* bound: the clock stops here
  MaxChanges,  \* bound: what the provider does
  None, Failed

ASSUME ProviderAssumption ==
  MaxFetch \in Nat /\ MaxTime \in Nat /\ MaxChanges \in Nat /\ None # Failed

VARIABLES
  now,
  up,       \* whether the provider answers
  changes,  \* what it did so far
  flight,   \* the calls in progress: when begun, the answer read, who waits
  pc, token,  \* where each request is, and the token it verifies
  got       \* the result of the call a request has waited for

provider == <<up, changes>>
locals == <<pc, token, got>>

ProviderInit ==
  /\ now = 0 /\ up = TRUE /\ changes = 0
  /\ flight = [c \in {} |-> None]
  /\ pc = [r \in Requests |-> "idle"]
  /\ token = [r \in Requests |-> None]
  /\ got = [r \in Requests |-> None]

\* Group.Do: join the call in progress, or begin it.
Do(r, c) ==
  flight' = IF c \in DOMAIN flight
              THEN [flight EXCEPT ![c].waiting = @ \cup {r}]
              ELSE [d \in DOMAIN flight \cup {c} |-> IF d \in DOMAIN flight THEN flight[d]
                      ELSE [began |-> now, read |-> None, waiting |-> {r}]]

\* The provider answers with document, or is down.
Reads(c, document) ==
  /\ c \in DOMAIN flight /\ flight[c].read = None
  /\ flight' = [flight EXCEPT ![c].read = IF up THEN document ELSE Failed]

\* The call ends and everyone who waits for it gets its result.
Lands(c, result) ==
  /\ flight' = [d \in DOMAIN flight \ {c} |-> flight[d]]
  /\ got' = [r \in Requests |-> IF r \in flight[c].waiting THEN result ELSE got[r]]

Landed(c) == c \in DOMAIN flight /\ flight[c].read # None

GoTo(r, where) == pc' = [pc EXCEPT ![r] = where]

Return(r) ==
  /\ pc' = [pc EXCEPT ![r] = "idle"]
  /\ token' = [token EXCEPT ![r] = None]
  /\ got' = [got EXCEPT ![r] = None]

Waits(r) == \E c \in DOMAIN flight : r \in flight[c].waiting

\* What a request does between calls takes less than a tick.
Passes ==
  /\ now < MaxTime
  /\ \A r \in Requests : pc[r] # "idle" => Waits(r)
  /\ \A c \in DOMAIN flight : now - flight[c].began < MaxFetch
  /\ now' = now + 1

\* The provider does something.
Acts == changes < MaxChanges /\ changes' = changes + 1
=============================================================================
