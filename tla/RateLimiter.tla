---------------------------- MODULE RateLimiter ----------------------------
(***************************************************************************)
(* The rate limiter of the public server (internal/ratelimit): one request *)
(* bucket and one byte bucket per tenant and authentication method, made   *)
(* by the first request that needs them and kept for the process's life.   *)
(*                                                                         *)
(* The token buckets themselves are golang.org/x/time/rate: they start     *)
(* full, gain their rate every second up to their size, and give tokens    *)
(* only when they hold enough.  Rates are whole tokens per clock tick.     *)
(***************************************************************************)
EXTENDS Integers

CONSTANTS
  Callers,      \* goroutines that call Allow
  Tenants, Methods,
  Defaults,     \* the server's limits: a record of rps, bps and burst
  PerMethod,    \* limits of some methods; all zero means none of their own
  Settings,     \* what a tenant_config row may override: Null or a number each
  Sizes,        \* bytes of a request
  MaxClock,     \* bound: the clock stops here
  Null

Fields == {"rps", "bps", "burst"}
Limits == [Fields -> Nat]

ASSUME LimiterAssumption ==
  /\ Defaults \in Limits
  /\ DOMAIN PerMethod \subseteq Methods
  /\ \A m \in DOMAIN PerMethod : PerMethod[m] \in Limits
  /\ Settings \subseteq [Fields -> Nat \cup {Null}]
  /\ Sizes \subseteq Nat /\ MaxClock \in Nat

VARIABLES
  clock,
  settings,     \* [Tenants -> Settings]: the tenants' overrides
  buckets,      \* bucketKey -> its limits and the tokens left
  call,         \* what each caller is doing
  since,        \* history: when the observed window began
  passed,       \* history: requests let through in it, per bucketKey
  volume        \* history: bytes let through in it, per bucketKey

limiterVars == <<clock, settings, buckets, call, since, passed, volume>>

BucketKeys == Tenants \X Methods
Idle == [at |-> "idle"]

LimiterInit ==
  /\ clock = 0
  /\ settings \in [Tenants -> Settings]
  /\ buckets = [k \in {} |-> Idle]
  /\ call = [c \in Callers |-> Idle]
  /\ since = 0
  /\ passed = [k \in BucketKeys |-> 0]
  /\ volume = [k \in BucketKeys |-> 0]

\* The method's limits replace the defaults as a whole unless all are zero.
BaseOf(m) ==
  IF m \in DOMAIN PerMethod /\ \E f \in Fields : PerMethod[m][f] # 0
  THEN PerMethod[m] ELSE Defaults

LimitsOf(t, m) ==
  [f \in Fields |-> IF settings[t][f] = Null THEN BaseOf(m)[f] ELSE settings[t][f]]

\* A full bucket.  The byte bucket holds one second of bytes, one at least.
NewBucket(l) ==
  LET byteBurst == IF l["bps"] = 0 THEN 1 ELSE l["bps"]
  IN  [rps |-> l["rps"], bps |-> l["bps"], burst |-> l["burst"], byteBurst |-> byteBurst,
       requests |-> l["burst"], bytes |-> byteBurst]

\* Mutant of Found: the map is read before the mutex is taken, so that of two
\* first requests the second replaces the first one's bucket.
FoundEarly(k) == k \in DOMAIN buckets /\ \A c \in Callers : call[c].at = "idle"

Found(k) == k \in DOMAIN buckets

\* bucketFor, under the mutex.
BucketFor(c, t, m, n) ==
  /\ call[c] = Idle
  /\ buckets' = IF Found(<<t, m>>) THEN buckets
                ELSE [k \in DOMAIN buckets \cup {<<t, m>>} |->
                       IF k = <<t, m>> THEN NewBucket(LimitsOf(t, m)) ELSE buckets[k]]
  /\ call' = [call EXCEPT ![c] = [at |-> "requests", key |-> <<t, m>>, size |-> n]]
  /\ UNCHANGED <<clock, settings, since, passed, volume>>

\* b.requests.Allow(): the token is gone even if the bytes are refused later.
AllowRequest(c) ==
  /\ call[c].at = "requests"
  /\ LET k == call[c].key IN
     IF buckets[k].requests >= 1
     THEN /\ buckets' = [buckets EXCEPT ![k].requests = @ - 1]
          /\ passed' = [passed EXCEPT ![k] = @ + 1]
          /\ call' = [call EXCEPT ![c].at = "bytes"]
     ELSE /\ call' = [call EXCEPT ![c] = Idle]
          /\ UNCHANGED <<buckets, passed>>
  /\ UNCHANGED <<clock, settings, since, volume>>

\* b.bytes.AllowN(now, nBytes): all of them or none.
AllowBytes(c) ==
  /\ call[c].at = "bytes"
  /\ LET k == call[c].key  n == call[c].size IN
     IF buckets[k].bytes >= n
     THEN /\ buckets' = [buckets EXCEPT ![k].bytes = @ - n]
          /\ volume' = [volume EXCEPT ![k] = @ + n]
     ELSE UNCHANGED <<buckets, volume>>
  /\ call' = [call EXCEPT ![c] = Idle]
  /\ UNCHANGED <<clock, settings, since, passed>>

AtMost(x, y) == IF x <= y THEN x ELSE y

\* A second passes: every bucket gains its rate, up to its size.
Refilled(b) ==
  [b EXCEPT !.requests = AtMost(@ + b.rps, b.burst), !.bytes = AtMost(@ + b.bps, b.byteBurst)]

SecondPasses ==
  /\ clock < MaxClock
  /\ clock' = clock + 1
  /\ buckets' = [k \in DOMAIN buckets |-> Refilled(buckets[k])]
  /\ UNCHANGED <<settings, call, since, passed, volume>>

\* The operator changes a tenant's overrides; buckets already made keep theirs.
Override(t, s) ==
  /\ settings' = [settings EXCEPT ![t] = s]
  /\ UNCHANGED <<clock, buckets, call, since, passed, volume>>

\* Not a step of the server: the window the property speaks of begins here.
Observe ==
  /\ since' = clock
  /\ passed' = [k \in BucketKeys |-> 0]
  /\ volume' = [k \in BucketKeys |-> 0]
  /\ UNCHANGED <<clock, settings, buckets, call>>

LimiterNext ==
  \/ \E c \in Callers, t \in Tenants, m \in Methods, n \in Sizes : BucketFor(c, t, m, n)
  \/ \E c \in Callers : AllowRequest(c) \/ AllowBytes(c)
  \/ SecondPasses
  \/ \E t \in Tenants, s \in Settings : Override(t, s)
  \/ Observe

LimiterSpec == LimiterInit /\ [][LimiterNext]_limiterVars
-----------------------------------------------------------------------------
(* Properties.                                                             *)

Bucket == [rps : Nat, bps : Nat, burst : Nat, byteBurst : Nat, requests : Nat, bytes : Nat]

LimiterTypeOK ==
  /\ clock \in Nat /\ since \in 0..clock
  /\ settings \in [Tenants -> Settings]
  /\ DOMAIN buckets \subseteq BucketKeys
  /\ \A k \in DOMAIN buckets : buckets[k] \in Bucket
  /\ call \in [Callers -> {Idle} \cup
       [at : {"requests", "bytes"}, key : DOMAIN buckets, size : Sizes]]
  /\ passed \in [BucketKeys -> Nat] /\ volume \in [BucketKeys -> Nat]

\* In any window of time a tenant gets no more requests, and no more bytes,
\* past Allow than its bucket holds and gains in that time, however many
\* callers race for the bucket's creation and its last token.
LimitsHold ==
  \A k \in DOMAIN buckets :
    LET elapsed == clock - since  b == buckets[k] IN
    /\ passed[k] <= b.burst + b.rps * elapsed
    /\ volume[k] <= b.byteBurst + b.bps * elapsed
=============================================================================
