------------------------------ MODULE RateLimiter ------------------------------
(***************************************************************************)
(* The token bucket limiter of the Gateway                                 *)
(* (src/internal/gateway/ratelimit/limiter.go) and the answer of its       *)
(* middleware (src/internal/gateway/delivery/http/ratelimit.go).           *)
(*                                                                         *)
(* Allow holds the mutex from its first line to its last and reads the     *)
(* clock under it, so a call is one action and the clock never runs        *)
(* backwards.  The code counts in floating point; here everything is       *)
(* exact: a level is counted in units of which a token has Minute, so that *)
(* a tick of the clock adds exactly PerMinute of them.                     *)
(***************************************************************************)
EXTENDS Integers, Sequences, FiniteSets

CONSTANTS
  Keys,       \* client addresses or user ids
  PerMinute,  \* requests per minute: the rate and the burst
  MaxKeys,    \* the most buckets that are remembered
  Second,     \* ticks of the clock per second
  Minute,     \* ticks per minute
  Horizon     \* bound: the last tick

ASSUME LimiterAssumption ==
  /\ PerMinute \in Nat \ {0} /\ MaxKeys \in Nat \ {0}
  /\ Second \in Nat \ {0} /\ Minute \in Nat \ {0} /\ Horizon \in Nat

VARIABLES
  now,       \* the clock
  buckets,   \* the map: key -> [tokens, updated]
  admitted,  \* history: when the requests of each key were let through
  promised   \* history: when the last refusal of each key told it to come back,
             \* 0 when a request has been let through since

limiterVars == <<now, buckets, admitted, promised>>

Capacity == PerMinute * Minute
Levels   == 0 .. Capacity

\* The map never outgrows MaxKeys and no bucket holds more than the burst or is
\* overdrawn, whatever keys come and however the clock advances between calls
\* (limiter.go 54-56).
LimiterTypeOK ==
  /\ now \in 0 .. Horizon
  /\ DOMAIN buckets \subseteq Keys
  /\ buckets \in [DOMAIN buckets -> [tokens : Levels, updated : 0 .. now]]
  /\ IsFiniteSet(DOMAIN buckets) /\ Cardinality(DOMAIN buckets) =< MaxKeys
  /\ admitted \in [Keys -> Seq(0 .. now)]
  /\ promised \in [Keys -> Nat]

LimiterInit ==
  /\ now = 0
  /\ buckets = [k \in {} |-> 0]
  /\ admitted = [k \in Keys |-> <<>>]
  /\ promised = [k \in Keys |-> 0]

-----------------------------------------------------------------------------

AtMost(bound, amount) == IF amount < bound THEN amount ELSE bound

\* What a bucket holds by now, before it is cut off at the capacity.
Replenished(entry) == entry.tokens + (now - entry.updated) * PerMinute

\* Variant: an idle bucket goes on filling.
LevelUncapped(entry) == Replenished(entry)

Level(entry) == AtMost(Capacity, Replenished(entry))

\* Variants: a bucket with a token left counts as idle; the oldest is thrown out.
IdleWithToken(entry) == Replenished(entry) >= Minute

\* purgeLocked: "effectively idle (fully replenished)"
IdleBucket(entry) == Replenished(entry) >= Capacity

Without(table, keys) == [k \in (DOMAIN table) \ keys |-> table[k]]

Purged ==
  Without(buckets, {k \in DOMAIN buckets : IdleBucket(buckets[k])})

\* The map a new key finds: the buckets are purged only when it is full.
Room(key) ==
  IF key \in DOMAIN buckets \/ Cardinality(DOMAIN buckets) < MaxKeys THEN buckets ELSE Purged

Fits(key, table) == key \in DOMAIN table \/ Cardinality(DOMAIN table) < MaxKeys

\* A new bucket is full.
Found(key, table) == IF key \in DOMAIN table THEN Level(table[key]) ELSE Capacity

Keep(key, table, tokens) ==
  buckets' = [k \in (DOMAIN table) \cup {key} |->
                IF k = key THEN [tokens |-> tokens, updated |-> now] ELSE table[k]]

Serve(key) ==
  LET table == Room(key)
      held  == Found(key, table)
  IN  /\ Fits(key, table)
      /\ held >= Minute
      /\ Keep(key, table, held - Minute)
      /\ admitted' = [admitted EXCEPT ![key] = Append(@, now)]
      /\ promised' = [promised EXCEPT ![key] = 0]
      /\ UNCHANGED now

\* Variant: the wait is cut to whole seconds.
RetryAfterCut(held) ==
  LET seconds == (Minute - held) \div (PerMinute * Second)
  IN  IF seconds < 1 THEN 1 ELSE seconds

\* Retry-After in seconds: what is missing of a token, at least a second, and
\* rounded up by the middleware.
RetryAfter(held) ==
  LET seconds == (Minute - held + PerMinute * Second - 1) \div (PerMinute * Second)
  IN  IF seconds < 1 THEN 1 ELSE seconds

\* The bucket is empty.
Refuse(key) ==
  LET table == Room(key)
      held  == Found(key, table)
  IN  /\ Fits(key, table)
      /\ held < Minute
      /\ Keep(key, table, held)
      /\ promised' = [promised EXCEPT ![key] = now + RetryAfter(held) * Second]
      /\ UNCHANGED <<now, admitted>>

\* The map is full: "brand-new keys are rejected", with a second to wait that
\* promises nothing.
RejectNew(key) ==
  /\ ~Fits(key, Room(key))
  /\ buckets' = Room(key)
  /\ UNCHANGED <<now, admitted, promised>>

Allow(key) == Serve(key) \/ Refuse(key) \/ RejectNew(key)

Pass ==
  /\ now < Horizon
  /\ now' = now + 1
  /\ UNCHANGED <<buckets, admitted, promised>>

LimiterNext == Pass \/ \E key \in Keys : Allow(key)

LimiterSpec == LimiterInit /\ [][LimiterNext]_limiterVars

-----------------------------------------------------------------------------
(* Properties *)

\* What the bucket of a key holds, remembered or not.
CurrentLevel == [k \in Keys |-> Found(k, buckets)]

\* Forgetting a bucket is invisible: the bounded map lets nothing through that a
\* limiter with a bucket for every key would not let through (limiter.go 54-56,
\* 89-97).
Unbounded == INSTANCE TokenBuckets
               WITH level <- CurrentLevel, Token <- Minute, Refill <- PerMinute
ImplementsTokenBuckets == Unbounded!Spec

\* "perMinute requests per key with a burst up to perMinute" (limiter.go 33):
\* from any of its requests to any later one, a key gets at most the burst and
\* what has been refilled in between, also when its bucket was forgotten.
WithinRate ==
  \A k \in Keys : \A j \in DOMAIN admitted[k] : \A i \in 1 .. j :
    (j - i + 1) * Minute =< Capacity + (admitted[k][j] - admitted[k][i]) * PerMinute

\* A refused client that comes back when Retry-After told it to finds a token,
\* if nobody used its key's tokens meanwhile.
RetryFindsToken ==
  \A k \in Keys : promised[k] > 0 /\ now >= promised[k] => CurrentLevel[k] >= Minute
===============================================================================
