----------------------------- MODULE GatewayProofs -----------------------------
(***************************************************************************)
(* What holds of the Gateway's limiter for all keys, rates, sizes of the   *)
(* map and clocks: it refines one bucket per key, and the bounds follow.   *)
(* What holds of the inbox of MAX updates for any updates, workers and     *)
(* bounds: the newest event wins and outcomes stay.                        *)
(* What holds of the requests that its handlers pass on to Core, for all   *)
(* users, groups, ids, inputs and workloads: clients are answered          *)
(* truthfully, whatever is lost, late, repeated or refused in between.     *)
(***************************************************************************)
EXTENDS RateLimiter, UpdateInbox, GatewayRequests, FiniteSetTheorems, SequenceTheorems, TLAPS

-----------------------------------------------------------------------------
(* The limiter *)

Entry == [tokens : Levels, updated : 0 .. now]

LEMMA UnitsAreNumbers ==
  Capacity \in Nat /\ PerMinute \in Nat \ {0} /\ Minute \in Nat \ {0} /\ Capacity >= Minute
  <1>1. PerMinute \in Nat \ {0} /\ Minute \in Nat \ {0}
    BY LimiterAssumption
  <1>2. Capacity \in Nat
    BY <1>1 DEF Capacity
  <1>3. PerMinute * Minute >= Minute
    <2>1. PICK n \in Nat : PerMinute = n + 1
      BY <1>1
    <2>2. (n + 1) * Minute = n * Minute + Minute /\ n * Minute >= 0
      BY <1>1
    <2> QED BY <1>1, <2>1, <2>2
  <1> QED BY <1>1, <1>2, <1>3 DEF Capacity

\* What a bucket holds by now is between nothing and the burst.
LEMMA LevelInRange ==
  ASSUME NEW entry \in Entry, now \in Nat
  PROVE  Replenished(entry) \in Nat /\ Level(entry) \in Levels
  <1>1. entry.tokens \in 0 .. Capacity /\ entry.updated \in 0 .. now
    BY DEF Entry, Levels
  <1>2. (now - entry.updated) \in Nat
    BY <1>1
  <1>3. (now - entry.updated) * PerMinute \in Nat
    BY <1>2, UnitsAreNumbers
  <1>4. Replenished(entry) \in Nat
    BY <1>1, <1>3, UnitsAreNumbers DEF Replenished
  <1> QED BY <1>4, UnitsAreNumbers DEF Level, AtMost, Levels

LEMMA FoundInRange ==
  ASSUME LimiterTypeOK, NEW k \in Keys
  PROVE  Found(k, buckets) \in Levels
  <1>1. CASE k \in DOMAIN buckets
    <2>1. buckets[k] \in Entry /\ now \in Nat
      BY <1>1 DEF LimiterTypeOK, Entry
    <2> QED BY <1>1, <2>1, LevelInRange DEF Found
  <1>2. CASE k \notin DOMAIN buckets
    BY <1>2, UnitsAreNumbers DEF Found, Levels
  <1> QED BY <1>1, <1>2

\* A purge drops entries but no key can tell: their buckets were full.
LEMMA RoomIsInvisible ==
  ASSUME LimiterTypeOK, NEW key \in Keys
  PROVE  /\ DOMAIN Room(key) \subseteq DOMAIN buckets
         /\ Room(key) \in [DOMAIN Room(key) -> Entry]
         /\ IsFiniteSet(DOMAIN Room(key))
         /\ Cardinality(DOMAIN Room(key)) =< MaxKeys
         /\ \A k \in Keys : Found(k, Room(key)) = Found(k, buckets)
  <1> DEFINE idle == {k \in DOMAIN buckets : IdleBucket(buckets[k])}
  <1>1. buckets \in [DOMAIN buckets -> Entry] /\ now \in Nat
    BY DEF LimiterTypeOK, Entry
  <1>2. IsFiniteSet(DOMAIN buckets) /\ Cardinality(DOMAIN buckets) =< MaxKeys
    BY DEF LimiterTypeOK
  <1>3. CASE Room(key) = buckets
    BY <1>1, <1>2, <1>3
  <1>4. CASE Room(key) = Purged
    <2>1. /\ DOMAIN Purged = (DOMAIN buckets) \ idle
          /\ \A k \in (DOMAIN buckets) \ idle : Purged[k] = buckets[k]
      BY DEF Purged, Without
    <2>2. Purged \in [DOMAIN Purged -> Entry]
      <3>1. Purged = [k \in (DOMAIN buckets) \ idle |-> buckets[k]]
        BY DEF Purged, Without
      <3> QED BY <1>1, <2>1, <3>1
    <2>3. IsFiniteSet((DOMAIN buckets) \ idle)
          /\ Cardinality((DOMAIN buckets) \ idle) =< Cardinality(DOMAIN buckets)
      BY <1>2, FS_Subset, (DOMAIN buckets) \ idle \subseteq DOMAIN buckets
    <2>4. Cardinality((DOMAIN buckets) \ idle) \in Nat /\ Cardinality(DOMAIN buckets) \in Nat
      BY <1>2, <2>3, FS_CardinalityType
    <2>5. Cardinality(DOMAIN Purged) =< MaxKeys
      BY <1>2, <2>1, <2>3, <2>4, LimiterAssumption
    <2>6. ASSUME NEW k \in Keys PROVE Found(k, Purged) = Found(k, buckets)
      <3>1. CASE k \in idle
        <4>1. Replenished(buckets[k]) \in Nat
          BY <1>1, <3>1, LevelInRange
        <4>2. Replenished(buckets[k]) >= Capacity
          BY <3>1 DEF IdleBucket
        <4>3. Level(buckets[k]) = Capacity
          BY <4>1, <4>2, UnitsAreNumbers DEF Level, AtMost
        <4> QED BY <2>1, <3>1, <4>3 DEF Found
      <3>2. CASE k \notin idle
        BY <2>1, <3>2 DEF Found
      <3> QED BY <3>1, <3>2
    <2> QED BY <1>4, <2>1, <2>2, <2>3, <2>5, <2>6
  <1> QED BY <1>3, <1>4 DEF Room

\* The map after a call that found room in it.
LEMMA KeptInRange ==
  ASSUME LimiterTypeOK, NEW key \in Keys, NEW saved \in Levels,
         Fits(key, Room(key)), Keep(key, Room(key), saved), UNCHANGED now
  PROVE  /\ DOMAIN buckets' \subseteq Keys
         /\ buckets' \in [DOMAIN buckets' -> [tokens : Levels, updated : 0 .. now]]
         /\ IsFiniteSet(DOMAIN buckets') /\ Cardinality(DOMAIN buckets') =< MaxKeys
         /\ \A k \in Keys : Found(k, buckets)' = IF k = key THEN saved ELSE Found(k, buckets)
  <1> DEFINE table == Room(key)
  <1>1. /\ DOMAIN table \subseteq DOMAIN buckets
        /\ table \in [DOMAIN table -> Entry]
        /\ IsFiniteSet(DOMAIN table) /\ Cardinality(DOMAIN table) =< MaxKeys
        /\ \A k \in Keys : Found(k, table) = Found(k, buckets)
    BY RoomIsInvisible
  <1>2. DOMAIN buckets \subseteq Keys /\ now \in Nat
    BY DEF LimiterTypeOK
  <1>3. buckets' = [k \in (DOMAIN table) \cup {key} |->
                      IF k = key THEN [tokens |-> saved, updated |-> now] ELSE table[k]]
    BY DEF Keep
  <1>4. DOMAIN buckets' = (DOMAIN table) \cup {key}
    BY <1>3
  <1>5. [tokens |-> saved, updated |-> now] \in Entry
    BY <1>2 DEF Entry
  <1>6. buckets' \in [DOMAIN buckets' -> Entry]
    BY <1>1, <1>3, <1>4, <1>5
  <1>7. Cardinality(DOMAIN table) \in Nat
    BY <1>1, FS_CardinalityType
  <1>8. IsFiniteSet(DOMAIN buckets') /\ Cardinality(DOMAIN buckets') =< MaxKeys
    <2>1. /\ IsFiniteSet((DOMAIN table) \cup {key})
          /\ Cardinality((DOMAIN table) \cup {key})
               = IF key \in DOMAIN table THEN Cardinality(DOMAIN table)
                                         ELSE Cardinality(DOMAIN table) + 1
      BY <1>1, FS_AddElement
    <2>2. key \in DOMAIN table \/ Cardinality(DOMAIN table) < MaxKeys
      BY DEF Fits
    <2> QED BY <1>1, <1>4, <1>7, <2>1, <2>2, LimiterAssumption
  <1>9. ASSUME NEW k \in Keys
        PROVE  Found(k, buckets)' = IF k = key THEN saved ELSE Found(k, buckets)
    <2>1. CASE k = key
      <3>1. buckets'[k] = [tokens |-> saved, updated |-> now]
        BY <1>3, <1>4, <2>1
      <3>2. Replenished(buckets[k])' = saved + (now - now) * PerMinute
        BY <3>1 DEF Replenished
      <3>3. saved \in Nat /\ saved =< Capacity /\ (now - now) * PerMinute = 0
        BY <1>2, UnitsAreNumbers DEF Levels
      <3>4. Level(buckets[k])' = saved
        BY <3>2, <3>3, UnitsAreNumbers DEF Level, AtMost, Capacity
      <3> QED BY <1>4, <2>1, <3>4 DEF Found
    <2>2. CASE k # key
      <3>1. k \in DOMAIN buckets' <=> k \in DOMAIN table
        BY <1>4, <2>2
      <3>2. k \in DOMAIN table => buckets'[k] = table[k]
        BY <1>3, <2>2
      <3>3. k \in DOMAIN table => Level(buckets[k])' = Level(table[k])
        BY <3>2 DEF Level, AtMost, Replenished, Capacity
      <3>4. Found(k, buckets)' = Found(k, table)
        BY <3>1, <3>3 DEF Found, Capacity
      <3> QED BY <1>1, <2>2, <3>4
    <2> QED BY <2>1, <2>2
  <1> QED BY <1>1, <1>2, <1>4, <1>6, <1>8, <1>9 DEF Entry

-----------------------------------------------------------------------------
(* What each step does to the levels *)

LEMMA ServeLevels ==
  ASSUME LimiterTypeOK, NEW key \in Keys, Serve(key)
  PROVE  /\ Found(key, buckets) - Minute \in Levels
         /\ \A k \in Keys : Found(k, buckets)' =
              IF k = key THEN Found(key, buckets) - Minute ELSE Found(k, buckets)
         /\ LimiterTypeOK'
  <1> DEFINE saved == Found(key, Room(key))
  <1>1. saved = Found(key, buckets) /\ saved \in Levels
    BY RoomIsInvisible, FoundInRange
  <1>2. saved >= Minute /\ Keep(key, Room(key), saved - Minute) /\ Fits(key, Room(key))
    BY DEF Serve
  <1>3. saved - Minute \in Levels
    BY <1>1, <1>2, UnitsAreNumbers DEF Levels
  <1>4. UNCHANGED now
    BY DEF Serve
  <1>5. /\ DOMAIN buckets' \subseteq Keys
        /\ buckets' \in [DOMAIN buckets' -> [tokens : Levels, updated : 0 .. now]]
        /\ IsFiniteSet(DOMAIN buckets') /\ Cardinality(DOMAIN buckets') =< MaxKeys
        /\ \A k \in Keys : Found(k, buckets)' = IF k = key THEN saved - Minute
                                                ELSE Found(k, buckets)
    BY <1>2, <1>3, <1>4, KeptInRange
  <1>6. admitted' \in [Keys -> Seq(0 .. now)] /\ promised' \in [Keys -> Nat]
    <2>1. now \in 0 .. now
      BY DEF LimiterTypeOK
    <2>2. admitted \in [Keys -> Seq(0 .. now)] /\ promised \in [Keys -> Nat]
      BY DEF LimiterTypeOK
    <2>3. Append(admitted[key], now) \in Seq(0 .. now)
      BY <2>1, <2>2
    <2> QED BY <2>2, <2>3 DEF Serve
  <1> QED BY <1>1, <1>3, <1>4, <1>5, <1>6 DEF LimiterTypeOK, Levels, Capacity

LEMMA WaitIsPositive ==
  ASSUME NEW saved \in Levels
  PROVE  RetryAfter(saved) * Second \in Nat \ {0}
  <1>1. PerMinute * Second \in Nat \ {0} /\ Second \in Nat \ {0}
    BY LimiterAssumption
  <1>2. saved \in Nat
    BY UnitsAreNumbers DEF Levels
  <1>3. (Minute - saved + PerMinute * Second - 1) \div (PerMinute * Second) \in Int
    BY <1>1, <1>2, UnitsAreNumbers
  <1>4. RetryAfter(saved) \in Nat \ {0}
    BY <1>3 DEF RetryAfter
  <1> QED BY <1>1, <1>4

LEMMA RefuseLevels ==
  ASSUME LimiterTypeOK, NEW key \in Keys, Refuse(key)
  PROVE  /\ \A k \in Keys : Found(k, buckets)' = Found(k, buckets)
         /\ LimiterTypeOK'
  <1> DEFINE saved == Found(key, Room(key))
  <1>1. saved = Found(key, buckets) /\ saved \in Levels
    BY RoomIsInvisible, FoundInRange
  <1>2. Keep(key, Room(key), saved) /\ Fits(key, Room(key)) /\ UNCHANGED <<now, admitted>>
    BY DEF Refuse
  <1>3. /\ DOMAIN buckets' \subseteq Keys
        /\ buckets' \in [DOMAIN buckets' -> [tokens : Levels, updated : 0 .. now]]
        /\ IsFiniteSet(DOMAIN buckets') /\ Cardinality(DOMAIN buckets') =< MaxKeys
        /\ \A k \in Keys : Found(k, buckets)' = IF k = key THEN saved ELSE Found(k, buckets)
    BY <1>1, <1>2, KeptInRange
  <1>4. promised' \in [Keys -> Nat]
    <2>1. now + RetryAfter(saved) * Second \in Nat
      BY <1>1, WaitIsPositive DEF LimiterTypeOK
    <2> QED BY <2>1 DEF Refuse, LimiterTypeOK
  <1> QED BY <1>1, <1>2, <1>3, <1>4 DEF LimiterTypeOK, Levels, Capacity

LEMMA RejectLevels ==
  ASSUME LimiterTypeOK, NEW key \in Keys, RejectNew(key)
  PROVE  /\ \A k \in Keys : Found(k, buckets)' = Found(k, buckets)
         /\ LimiterTypeOK'
  <1>1. buckets' = Room(key) /\ UNCHANGED <<now, admitted, promised>>
    BY DEF RejectNew
  <1>2. /\ DOMAIN Room(key) \subseteq DOMAIN buckets
        /\ Room(key) \in [DOMAIN Room(key) -> Entry]
        /\ IsFiniteSet(DOMAIN Room(key))
        /\ Cardinality(DOMAIN Room(key)) =< MaxKeys
        /\ \A k \in Keys : Found(k, Room(key)) = Found(k, buckets)
    BY RoomIsInvisible
  <1>3. ASSUME NEW k \in Keys PROVE Found(k, buckets)' = Found(k, Room(key))
    BY <1>1 DEF Found, Level, AtMost, Replenished, Capacity
  <1> QED BY <1>1, <1>2, <1>3 DEF LimiterTypeOK, Levels, Capacity, Entry

LEMMA OneMoreMoment ==
  ASSUME NEW ticks \in Int, NEW rate \in Int
  PROVE  (ticks + 1) * rate = ticks * rate + rate
  OBVIOUS

LEMMA PassLevels ==
  ASSUME LimiterTypeOK, Pass
  PROVE  /\ \A k \in Keys : Found(k, buckets)' = AtMost(Capacity, Found(k, buckets) + PerMinute)
         /\ LimiterTypeOK'
  <1>1. now \in Nat /\ now' = now + 1 /\ now' \in 0 .. Horizon
        /\ UNCHANGED <<buckets, admitted, promised>>
    BY LimiterAssumption DEF Pass, LimiterTypeOK
  <1>2. ASSUME NEW k \in Keys
        PROVE  Found(k, buckets)' = AtMost(Capacity, Found(k, buckets) + PerMinute)
    <2>1. CASE k \in DOMAIN buckets
      <3>1. buckets[k] \in Entry
        BY <2>1 DEF LimiterTypeOK, Entry
      <3>2. buckets[k].tokens \in Nat /\ buckets[k].updated \in Nat
        BY <3>1, <1>1, UnitsAreNumbers DEF Entry, Levels
      <3>3. Replenished(buckets[k])' = buckets[k].tokens + (now' - buckets[k].updated) * PerMinute
        BY <1>1 DEF Replenished
      <3>4. Replenished(buckets[k])' = Replenished(buckets[k]) + PerMinute
        <4>1. (now - buckets[k].updated) \in Int
          BY <1>1, <3>2
        <4>2. ((now - buckets[k].updated) + 1) * PerMinute
                = (now - buckets[k].updated) * PerMinute + PerMinute
          BY <4>1, OneMoreMoment, UnitsAreNumbers
        <4>3. now' - buckets[k].updated = (now - buckets[k].updated) + 1
          BY <1>1, <3>2
        <4>4. (now - buckets[k].updated) * PerMinute \in Int
          BY <4>1, UnitsAreNumbers
        <4> QED BY <3>2, <3>3, <4>2, <4>3, <4>4, UnitsAreNumbers DEF Replenished
      <3>5. Replenished(buckets[k]) \in Nat
        BY <3>1, <1>1, LevelInRange
      <3>6. Found(k, buckets)' = AtMost(Capacity, Replenished(buckets[k]) + PerMinute)
        BY <1>1, <2>1, <3>4 DEF Found, Level, AtMost, Capacity
      <3> QED BY <2>1, <3>5, <3>6, UnitsAreNumbers DEF Found, Level, AtMost
    <2>2. CASE k \notin DOMAIN buckets
      BY <1>1, <2>2, UnitsAreNumbers DEF Found, AtMost, Capacity
    <2> QED BY <2>1, <2>2
  <1>3. buckets \in [DOMAIN buckets -> [tokens : Levels, updated : 0 .. now + 1]]
    <2>1. 0 .. now \subseteq 0 .. now + 1
      BY <1>1
    <2> QED BY <2>1 DEF LimiterTypeOK
  <1>4. admitted \in [Keys -> Seq(0 .. now + 1)]
    <2>1. 0 .. now \subseteq 0 .. now + 1
      BY <1>1
    <2>2. ASSUME NEW k \in Keys PROVE admitted[k] \in Seq(0 .. now + 1)
      <3>1. admitted[k] \in Seq(0 .. now)
        BY DEF LimiterTypeOK
      <3>2. Len(admitted[k]) \in Nat /\ admitted[k] \in [1 .. Len(admitted[k]) -> 0 .. now]
        BY <3>1, LenProperties
      <3>3. admitted[k] \in [1 .. Len(admitted[k]) -> 0 .. now + 1]
        BY <2>1, <3>2
      <3> QED BY <3>2, <3>3, SeqDef
    <2> QED BY <2>2 DEF LimiterTypeOK
  <1> QED BY <1>1, <1>2, <1>3, <1>4 DEF LimiterTypeOK, Levels, Capacity

LEMMA TypeInit == LimiterInit => LimiterTypeOK
  <1> SUFFICES ASSUME LimiterInit PROVE LimiterTypeOK
    OBVIOUS
  <1>1. DOMAIN buckets = {}
    BY DEF LimiterInit
  <1>2. buckets \in [DOMAIN buckets -> [tokens : Levels, updated : 0 .. now]]
    BY DEF LimiterInit
  <1>3. IsFiniteSet({}) /\ Cardinality({}) = 0
    BY FS_EmptySet
  <1> QED BY <1>1, <1>2, <1>3, LimiterAssumption DEF LimiterInit, LimiterTypeOK

LEMMA TypePreserved == LimiterTypeOK /\ [LimiterNext]_limiterVars => LimiterTypeOK'
  <1> SUFFICES ASSUME LimiterTypeOK, [LimiterNext]_limiterVars PROVE LimiterTypeOK'
    OBVIOUS
  <1>1. CASE Pass
    BY <1>1, PassLevels
  <1>2. ASSUME NEW key \in Keys, Allow(key) PROVE LimiterTypeOK'
    BY <1>2, ServeLevels, RefuseLevels, RejectLevels DEF Allow
  <1>3. CASE UNCHANGED limiterVars
    BY <1>3 DEF limiterVars, LimiterTypeOK, Levels, Capacity
  <1> QED BY <1>1, <1>2, <1>3 DEF LimiterNext

\* For any keys, rate and size of the map: the map never outgrows MaxKeys and no
\* bucket is overdrawn or overfull (limiter.go 54-56).
THEOREM LimiterTypeCorrect == LimiterSpec => []LimiterTypeOK
  BY TypeInit, TypePreserved, PTL DEF LimiterSpec

-----------------------------------------------------------------------------
(* One bucket per key *)

LEMMA InitImplements == LimiterInit => CurrentLevel = [k \in Keys |-> Capacity]
  BY DEF LimiterInit, CurrentLevel, Found

LEMMA StepImplements ==
  LimiterTypeOK /\ [LimiterNext]_limiterVars
    => [Unbounded!Pass \/ \E k \in Keys : Unbounded!Let(k)]_CurrentLevel
  <1> SUFFICES ASSUME LimiterTypeOK, [LimiterNext]_limiterVars
               PROVE  [Unbounded!Pass \/ \E k \in Keys : Unbounded!Let(k)]_CurrentLevel
    OBVIOUS
  <1>1. CASE Pass
    <2>1. \A k \in Keys : Found(k, buckets)' = Unbounded!Filled(Found(k, buckets) + PerMinute)
      BY <1>1, PassLevels DEF AtMost, Unbounded!Filled
    <2>2. Unbounded!Pass
      BY <2>1 DEF Unbounded!Pass, CurrentLevel
    <2> QED BY <2>2
  <1>2. ASSUME NEW key \in Keys, Serve(key) PROVE Unbounded!Let(key)
    <2>1. Found(key, buckets) \in Nat /\ Found(key, buckets) - Minute \in Levels
      BY <1>2, FoundInRange, ServeLevels, UnitsAreNumbers DEF Levels
    <2>2. Found(key, buckets) >= Minute
      BY <2>1, UnitsAreNumbers DEF Levels
    <2>3. \A k \in Keys : Found(k, buckets)' =
            IF k = key THEN Found(key, buckets) - Minute ELSE Found(k, buckets)
      BY <1>2, ServeLevels
    <2> QED BY <2>2, <2>3 DEF Unbounded!Let, CurrentLevel
  <1>3. ASSUME NEW key \in Keys, Refuse(key) \/ RejectNew(key) PROVE UNCHANGED CurrentLevel
    BY <1>3, RefuseLevels, RejectLevels DEF CurrentLevel
  <1>4. CASE UNCHANGED limiterVars
    <2>1. ASSUME NEW k \in Keys PROVE Found(k, buckets)' = Found(k, buckets)
      BY <1>4 DEF limiterVars, Found, Level, AtMost, Replenished, Capacity
    <2> QED BY <2>1 DEF CurrentLevel
  <1> QED BY <1>1, <1>2, <1>3, <1>4 DEF LimiterNext, Allow

\* For any number of keys and any size of the map, forgetting buckets is
\* invisible: the limiter behaves as one with a bucket for every key would, or
\* refuses more (limiter.go 52-97).
THEOREM LimiterImplementsTokenBuckets == LimiterSpec => ImplementsTokenBuckets
  <1>1. LimiterSpec => []LimiterTypeOK
    BY LimiterTypeCorrect
  <1> QED BY <1>1, InitImplements, StepImplements, PTL
       DEF LimiterSpec, ImplementsTokenBuckets, Unbounded!Spec

-----------------------------------------------------------------------------
(* The rate *)

\* WithinRate, and what is in the bucket now counted as if it were spent.
RateInv ==
  /\ WithinRate
  /\ \A k \in Keys : \A i \in DOMAIN admitted[k] :
       (Len(admitted[k]) - i + 1) * Minute + Found(k, buckets)
         =< Capacity + (now - admitted[k][i]) * PerMinute

LEMMA RateServe ==
  ASSUME LimiterTypeOK, RateInv, NEW key \in Keys, Serve(key)
  PROVE  RateInv'
  <1> DEFINE log == admitted[key]
             saved == Found(key, buckets)
             n == Len(log)
  <1>1. /\ saved \in Nat /\ saved =< Capacity /\ saved >= Minute
        /\ saved - Minute \in Nat /\ now \in Nat
        /\ \A k \in Keys : Found(k, buckets)' = IF k = key THEN saved - Minute
                                                ELSE Found(k, buckets)
    <2>1. saved \in Levels /\ saved - Minute \in Levels
      BY FoundInRange, ServeLevels
    <2>2. now \in Nat
      BY DEF LimiterTypeOK
    <2> QED BY <2>1, <2>2, ServeLevels, UnitsAreNumbers DEF Levels
  <1>2. log \in Seq(0 .. now) /\ n \in Nat /\ DOMAIN log = 1 .. n
    <2>1. log \in Seq(0 .. now)
      BY DEF LimiterTypeOK
    <2> QED BY <2>1, LenProperties
  <1>3. /\ admitted'[key] = Append(log, now) /\ now' = now
        /\ \A k \in Keys \ {key} : admitted'[k] = admitted[k]
    BY DEF Serve, LimiterTypeOK
  <1>4. /\ Len(admitted'[key]) = n + 1
        /\ DOMAIN admitted'[key] = 1 .. n + 1
        /\ admitted'[key][n + 1] = now
        /\ \A i \in 1 .. n : admitted'[key][i] = log[i] /\ log[i] \in Nat /\ log[i] =< now
    BY <1>1, <1>2, <1>3, AppendProperties
  <1>5. ASSUME NEW i \in 1 .. n + 1
        PROVE  ((n + 1) - i + 1) * Minute + (saved - Minute)
                 =< Capacity + (now - admitted'[key][i]) * PerMinute
    <2>1. CASE i = n + 1
      <3>1. ((n + 1) - i + 1) * Minute = Minute
        <4>1. (n + 1) - i + 1 = 1
          BY <1>2, <2>1
        <4> QED BY <4>1, UnitsAreNumbers
      <3>2. (now - admitted'[key][i]) * PerMinute = 0
        <4>1. now - admitted'[key][i] = 0
          BY <1>1, <1>4, <2>1
        <4> QED BY <4>1, UnitsAreNumbers
      <3>3. saved \in Nat /\ saved =< Capacity
        BY <1>1
      <3>4. Minute + (saved - Minute) = saved /\ Capacity + 0 = Capacity
        BY <3>3, UnitsAreNumbers
      <3> HIDE DEF saved, n
      <3> QED BY <3>1, <3>2, <3>3, <3>4
    <2>2. CASE i \in 1 .. n
      <3>1. (n - i + 1) * Minute + saved =< Capacity + (now - log[i]) * PerMinute
        BY <1>2, <2>2 DEF RateInv
      <3>2. ((n - i + 1) + 1) * Minute = (n - i + 1) * Minute + Minute
        BY <1>2, <2>2, OneMoreMoment, UnitsAreNumbers
      <3>3. (n + 1) - i + 1 = (n - i + 1) + 1 /\ (n - i + 1) * Minute \in Int
        BY <1>2, <2>2, UnitsAreNumbers
      <3>4. (now - log[i]) * PerMinute \in Int /\ admitted'[key][i] = log[i]
        BY <1>1, <1>4, <2>2, UnitsAreNumbers
      <3> QED BY <1>1, <3>1, <3>2, <3>3, <3>4, UnitsAreNumbers
    <2> QED BY <1>2, <2>1, <2>2
  <1>6. ASSUME NEW j \in 1 .. n + 1, NEW i \in 1 .. j
        PROVE  (j - i + 1) * Minute
                 =< Capacity + (admitted'[key][j] - admitted'[key][i]) * PerMinute
    <2>1. CASE j = n + 1
      <3>1. i \in 1 .. n + 1
        BY <2>1
      <3>2. (j - i + 1) * Minute + (saved - Minute)
              =< Capacity + (admitted'[key][j] - admitted'[key][i]) * PerMinute
        BY <1>4, <1>5, <2>1, <3>1
      <3>3. (j - i + 1) * Minute \in Int
        BY <1>2, UnitsAreNumbers
      <3>4. (admitted'[key][j] - admitted'[key][i]) * PerMinute \in Int
        <4>1. admitted'[key][i] \in Nat
          <5>1. CASE i = n + 1
            BY <1>1, <1>4, <5>1
          <5>2. CASE i \in 1 .. n
            BY <1>4, <5>2
          <5> QED BY <1>2, <3>1, <5>1, <5>2
        <4>2. admitted'[key][j] - admitted'[key][i] \in Int
          BY <1>1, <1>4, <2>1, <4>1
        <4> QED BY <4>2, UnitsAreNumbers
      <3> QED BY <1>1, <3>2, <3>3, <3>4, UnitsAreNumbers
    <2>2. CASE j \in 1 .. n
      <3>1. i \in 1 .. n /\ j \in DOMAIN log
        BY <1>2, <2>2
      <3>2. (j - i + 1) * Minute =< Capacity + (log[j] - log[i]) * PerMinute
        BY <3>1 DEF RateInv, WithinRate
      <3> QED BY <1>4, <2>2, <3>1, <3>2
    <2> QED BY <1>2, <2>1, <2>2
  <1>7. WithinRate'
    <2> SUFFICES ASSUME NEW k \in Keys, NEW j \in DOMAIN admitted'[k], NEW i \in 1 .. j
                 PROVE  (j - i + 1) * Minute
                          =< Capacity + (admitted'[k][j] - admitted'[k][i]) * PerMinute
      BY DEF WithinRate, Capacity
    <2>1. CASE k = key
      BY <1>4, <1>6, <2>1
    <2>2. CASE k # key
      BY <1>3, <2>2 DEF RateInv, WithinRate
    <2> QED BY <2>1, <2>2
  <1>8. ASSUME NEW k \in Keys, NEW i \in DOMAIN admitted'[k]
        PROVE  (Len(admitted'[k]) - i + 1) * Minute + Found(k, buckets)'
                 =< Capacity + (now' - admitted'[k][i]) * PerMinute
    <2>1. CASE k = key
      BY <1>1, <1>3, <1>4, <1>5, <2>1
    <2>2. CASE k # key
      BY <1>1, <1>3, <2>2 DEF RateInv
    <2> QED BY <2>1, <2>2
  <1> QED BY <1>7, <1>8 DEF RateInv, Capacity

LEMMA RatePass ==
  ASSUME LimiterTypeOK, RateInv, Pass
  PROVE  RateInv'
  <1>1. now \in Nat /\ now' = now + 1 /\ admitted' = admitted
    BY DEF Pass, LimiterTypeOK
  <1>2. WithinRate'
    BY <1>1 DEF RateInv, WithinRate, Capacity
  <1>3. ASSUME NEW k \in Keys, NEW i \in DOMAIN admitted[k]
        PROVE  (Len(admitted[k]) - i + 1) * Minute + Found(k, buckets)'
                 =< Capacity + (now' - admitted[k][i]) * PerMinute
    <2>1. admitted[k] \in Seq(0 .. now)
      BY DEF LimiterTypeOK
    <2>2. admitted[k][i] \in Nat /\ i \in Nat /\ Len(admitted[k]) \in Nat
      BY <1>1, <2>1
    <2>3. (Len(admitted[k]) - i + 1) * Minute \in Int
      BY <2>2, UnitsAreNumbers
    <2>4. (now - admitted[k][i]) * PerMinute \in Int
      BY <1>1, <2>2, UnitsAreNumbers
    <2>5. (now' - admitted[k][i]) * PerMinute = (now - admitted[k][i]) * PerMinute + PerMinute
      <3>1. PICK then \in Nat : then = admitted[k][i]
        BY <2>2
      <3>2. now' - then = (now - then) + 1 /\ now - then \in Int
        BY <1>1
      <3> QED BY <3>1, <3>2, OneMoreMoment, UnitsAreNumbers
    <2>6. Found(k, buckets) \in Nat
      BY FoundInRange, UnitsAreNumbers DEF Levels
    <2>7. Found(k, buckets)' \in Nat /\ Found(k, buckets)' =< Found(k, buckets) + PerMinute
      BY <2>6, PassLevels, UnitsAreNumbers DEF AtMost
    <2>8. (Len(admitted[k]) - i + 1) * Minute + Found(k, buckets)
            =< Capacity + (now - admitted[k][i]) * PerMinute
      BY DEF RateInv
    <2> DEFINE admissions == (Len(admitted[k]) - i + 1) * Minute
               earned     == (now - admitted[k][i]) * PerMinute
    <2>9. /\ admissions \in Int /\ earned \in Int /\ PerMinute \in Int /\ Capacity \in Int
          /\ Found(k, buckets)' =< Found(k, buckets) + PerMinute
          /\ admissions + Found(k, buckets) =< Capacity + earned
      BY <2>3, <2>4, <2>7, <2>8, UnitsAreNumbers
    <2>10. (now' - admitted[k][i]) * PerMinute = earned + PerMinute
      BY <2>5
    <2> HIDE DEF admissions, earned
    <2>11. admissions + Found(k, buckets)' =< Capacity + (earned + PerMinute)
      BY <2>6, <2>7, <2>9
    <2> QED BY <2>10, <2>11 DEF admissions
  <1> QED BY <1>1, <1>2, <1>3 DEF RateInv, Capacity

LEMMA RateKept ==
  ASSUME RateInv, UNCHANGED <<now, admitted>>,
         \A k \in Keys : Found(k, buckets)' = Found(k, buckets)
  PROVE  RateInv'
  BY DEF RateInv, WithinRate, Capacity

LEMMA RatePreserved ==
  LimiterTypeOK /\ RateInv /\ [LimiterNext]_limiterVars => RateInv'
  <1> SUFFICES ASSUME LimiterTypeOK, RateInv, [LimiterNext]_limiterVars PROVE RateInv'
    OBVIOUS
  <1>1. CASE Pass
    BY <1>1, RatePass
  <1>2. ASSUME NEW key \in Keys, Serve(key) PROVE RateInv'
    BY <1>2, RateServe
  <1>3. ASSUME NEW key \in Keys, Refuse(key) \/ RejectNew(key) PROVE RateInv'
    <2>1. UNCHANGED <<now, admitted>>
      BY <1>3 DEF Refuse, RejectNew
    <2> QED BY <1>3, <2>1, RefuseLevels, RejectLevels, RateKept
  <1>4. CASE UNCHANGED limiterVars
    <2>1. \A k \in Keys : Found(k, buckets)' = Found(k, buckets)
      BY <1>4 DEF limiterVars, Found, Level, AtMost, Replenished, Capacity
    <2> QED BY <1>4, <2>1, RateKept DEF limiterVars
  <1> QED BY <1>1, <1>2, <1>3, <1>4 DEF LimiterNext, Allow

\* For any key, between any two of its requests that were let through, the rate
\* is kept, although its bucket may have been forgotten in between.
THEOREM WithinRateAlways == LimiterSpec => []WithinRate
  <1>1. LimiterInit => RateInv
    BY DEF LimiterInit, RateInv, WithinRate
  <1>2. RateInv => WithinRate
    BY DEF RateInv
  <1>3. LimiterSpec => []LimiterTypeOK
    BY LimiterTypeCorrect
  <1> QED BY <1>1, <1>2, <1>3, RatePreserved, PTL DEF LimiterSpec

-----------------------------------------------------------------------------
(* Coming back after Retry-After *)

\* Before the promised time, what is refilled until then makes up a token.
RetryInv ==
  \A k \in Keys : promised[k] > 0 =>
    /\ now < promised[k] => Found(k, buckets) + (promised[k] - now) * PerMinute >= Minute
    /\ now >= promised[k] => Found(k, buckets) >= Minute

LEMMA RoundedUp ==
  ASSUME NEW x \in Nat \ {0}, NEW d \in Nat \ {0}
  PROVE  /\ (x + d - 1) \div d \in Nat \ {0}
         /\ ((x + d - 1) \div d) * d >= x
  <1> DEFINE q == (x + d - 1) \div d
             r == (x + d - 1) % d
  <1>1. x + d - 1 \in Nat /\ x + d - 1 >= d
    OBVIOUS
  <1>2. q \in Int /\ r \in 0 .. d - 1 /\ x + d - 1 = d * q + r
    BY <1>1
  <1>3. d * q >= x
    BY <1>2
  <1>4. q > 0
    <2> SUFFICES ASSUME q =< 0 PROVE FALSE
      BY <1>2
    <2>1. PICK m \in Nat : q = -m
      BY <1>2
    <2>2. d * q = -(d * m) /\ d * m >= 0
      BY <2>1
    <2> QED BY <1>3, <2>2
  <1>5. d * q = q * d
    BY <1>2
  <1> QED BY <1>2, <1>3, <1>4, <1>5

LEMMA WaitRefills ==
  ASSUME NEW saved \in Levels, saved < Minute
  PROVE  saved + (RetryAfter(saved) * Second) * PerMinute >= Minute
  <1> DEFINE d == PerMinute * Second
             x == Minute - saved
             q == (x + d - 1) \div d
  <1>1. d \in Nat \ {0} /\ Second \in Nat \ {0}
    BY LimiterAssumption
  <1>2. saved \in Nat /\ x \in Nat \ {0}
    BY UnitsAreNumbers DEF Levels
  <1> HIDE DEF d, x
  <1>3. q \in Nat \ {0} /\ q * d >= x
    BY <1>1, <1>2, RoundedUp
  <1>4. RetryAfter(saved) = q
    BY <1>3 DEF RetryAfter, d, x
  <1> HIDE DEF q
  <1>5. (q * Second) * PerMinute = q * d
    BY <1>1, <1>3, UnitsAreNumbers DEF d
  <1>6. q * d \in Nat
    BY <1>1, <1>3
  <1> QED BY <1>2, <1>3, <1>4, <1>5, <1>6, UnitsAreNumbers DEF x

LEMMA RetryRefuse ==
  ASSUME LimiterTypeOK, RetryInv, NEW key \in Keys, Refuse(key)
  PROVE  RetryInv'
  <1> DEFINE saved == Found(key, Room(key))
  <1>1. saved = Found(key, buckets) /\ saved \in Levels
    BY RoomIsInvisible, FoundInRange
  <1>2. saved < Minute /\ now' = now /\ now \in Nat
        /\ promised' = [promised EXCEPT ![key] = now + RetryAfter(saved) * Second]
    BY DEF Refuse, LimiterTypeOK
  <1>3. \A k \in Keys : Found(k, buckets)' = Found(k, buckets)
    BY RefuseLevels
  <1>4. RetryAfter(saved) * Second \in Nat \ {0}
        /\ saved + (RetryAfter(saved) * Second) * PerMinute >= Minute
    BY <1>1, <1>2, WaitIsPositive, WaitRefills
  <1> SUFFICES ASSUME NEW k \in Keys, promised'[k] > 0
               PROVE  /\ now < promised'[k] =>
                           Found(k, buckets) + (promised'[k] - now) * PerMinute >= Minute
                      /\ now >= promised'[k] => Found(k, buckets) >= Minute
    BY <1>2, <1>3 DEF RetryInv
  <1>5. CASE k = key
    <2>1. promised'[k] = now + RetryAfter(saved) * Second
      BY <1>2, <1>5 DEF LimiterTypeOK
    <2> DEFINE wait == RetryAfter(saved) * Second
    <2> HIDE DEF saved, wait
    <2>2. promised'[k] - now = wait /\ now < promised'[k] /\ wait \in Nat
      BY <1>2, <1>4, <2>1 DEF wait
    <2>3. saved + wait * PerMinute >= Minute
      BY <1>4 DEF wait
    <2>4. Found(k, buckets) + (promised'[k] - now) * PerMinute >= Minute
      BY <1>1, <1>5, <2>2, <2>3
    <2>5. ~(now >= promised'[k])
      BY <1>2, <1>4, <2>1, <2>2 DEF wait
    <2> QED BY <2>4, <2>5
  <1>6. CASE k # key
    BY <1>2, <1>6 DEF RetryInv, LimiterTypeOK
  <1> QED BY <1>5, <1>6

LEMMA RetryServe ==
  ASSUME LimiterTypeOK, RetryInv, NEW key \in Keys, Serve(key)
  PROVE  RetryInv'
  <1>1. /\ promised' = [promised EXCEPT ![key] = 0] /\ now' = now
        /\ \A k \in Keys \ {key} : Found(k, buckets)' = Found(k, buckets)
    BY ServeLevels DEF Serve
  <1> QED BY <1>1 DEF RetryInv, LimiterTypeOK

LEMMA RetryPass ==
  ASSUME LimiterTypeOK, RetryInv, Pass
  PROVE  RetryInv'
  <1>1. now \in Nat /\ now' = now + 1 /\ promised' = promised
    BY DEF Pass, LimiterTypeOK
  <1> SUFFICES ASSUME NEW k \in Keys, promised[k] > 0
               PROVE  /\ now + 1 < promised[k] =>
                           Found(k, buckets)' + (promised[k] - (now + 1)) * PerMinute >= Minute
                      /\ now + 1 >= promised[k] => Found(k, buckets)' >= Minute
    BY <1>1 DEF RetryInv
  <1>2. Found(k, buckets) \in Nat /\ promised[k] \in Nat
    BY FoundInRange, UnitsAreNumbers DEF Levels, LimiterTypeOK
  <1>3. Found(k, buckets)' = AtMost(Capacity, Found(k, buckets) + PerMinute)
    BY PassLevels
  <1>4. /\ now < promised[k] => Found(k, buckets) + (promised[k] - now) * PerMinute >= Minute
        /\ now >= promised[k] => Found(k, buckets) >= Minute
    BY DEF RetryInv
  <1> DEFINE left == promised[k] - (now + 1)
  <1>5. left \in Int /\ promised[k] - now = left + 1
    BY <1>1, <1>2
  <1>6. (promised[k] - now) * PerMinute = left * PerMinute + PerMinute
    BY <1>5, OneMoreMoment, UnitsAreNumbers
  <1>7. left * PerMinute \in Int /\ (left \in Nat => left * PerMinute \in Nat)
        /\ (left = 0 => left * PerMinute = 0)
    BY <1>5, UnitsAreNumbers
  <1> HIDE DEF left
  <1>8. CASE Found(k, buckets)' = Capacity
    BY <1>1, <1>2, <1>5, <1>7, <1>8, UnitsAreNumbers DEF left
  <1>9. CASE Found(k, buckets)' = Found(k, buckets) + PerMinute
    <2>1. ASSUME now + 1 < promised[k]
          PROVE  Found(k, buckets)' + left * PerMinute >= Minute
      BY <1>1, <1>2, <1>4, <1>6, <1>7, <1>9, <2>1, UnitsAreNumbers
    <2>2. ASSUME now + 1 >= promised[k]
          PROVE  Found(k, buckets)' >= Minute
      <3>1. CASE now >= promised[k]
        BY <1>2, <1>4, <1>9, <3>1, UnitsAreNumbers
      <3>2. CASE now < promised[k]
        <4>1. left = 0
          BY <1>1, <1>2, <2>2, <3>2 DEF left
        <4> QED BY <1>2, <1>4, <1>6, <1>7, <1>9, <3>2, <4>1, UnitsAreNumbers
      <3> QED BY <1>1, <1>2, <3>1, <3>2
    <2> QED BY <2>1, <2>2 DEF left
  <1> QED BY <1>3, <1>8, <1>9 DEF AtMost

LEMMA RetryPreserved ==
  LimiterTypeOK /\ RetryInv /\ [LimiterNext]_limiterVars => RetryInv'
  <1> SUFFICES ASSUME LimiterTypeOK, RetryInv, [LimiterNext]_limiterVars PROVE RetryInv'
    OBVIOUS
  <1>1. CASE Pass
    BY <1>1, RetryPass
  <1>2. ASSUME NEW key \in Keys, Serve(key) PROVE RetryInv'
    BY <1>2, RetryServe
  <1>3. ASSUME NEW key \in Keys, Refuse(key) PROVE RetryInv'
    BY <1>3, RetryRefuse
  <1>4. ASSUME NEW key \in Keys, RejectNew(key) PROVE RetryInv'
    <2>1. UNCHANGED <<now, promised>>
      BY <1>4 DEF RejectNew
    <2> QED BY <1>4, <2>1, RejectLevels DEF RetryInv
  <1>5. CASE UNCHANGED limiterVars
    <2>1. \A k \in Keys : Found(k, buckets)' = Found(k, buckets)
      BY <1>5 DEF limiterVars, Found, Level, AtMost, Replenished, Capacity
    <2> QED BY <1>5, <2>1 DEF limiterVars, RetryInv
  <1> QED BY <1>1, <1>2, <1>3, <1>4, <1>5 DEF LimiterNext, Allow

\* For any rate and any length of a second and a minute, Retry-After is long
\* enough: rounding it up to whole seconds makes up for a token.
THEOREM RetryFindsTokenAlways == LimiterSpec => []RetryFindsToken
  <1>1. LimiterInit => RetryInv
    BY DEF LimiterInit, RetryInv
  <1>2. LimiterTypeOK /\ RetryInv => RetryFindsToken
    BY DEF RetryInv, RetryFindsToken, CurrentLevel
  <1>3. LimiterSpec => []LimiterTypeOK
    BY LimiterTypeCorrect
  <1> QED BY <1>1, <1>2, <1>3, RetryPreserved, PTL DEF LimiterSpec

-----------------------------------------------------------------------------
(* The inbox.  Two workers may have copies of one update in hand, with the   *)
(* number of the attempt each was claimed for.  The invariant says how old a *)
(* copy can be: every claim since then, and every lease that has run out     *)
(* under it, is one of the faults.  From that follows how far attempts can   *)
(* pass MaxAttempts, which the code itself never compares.                   *)

QueueTypes ==
  /\ status \in [Updates -> {"absent", "pending", "processing", "processed", "failed"}]
  /\ attempts \in [Updates -> Nat]
  /\ due \in SUBSET Updates
  /\ held \in [Workers -> SUBSET (Updates \X Nat)]
  /\ result \in [Workers -> SUBSET (Updates \X Nat \X {"ok", "error"})]
  /\ applied \in [Updates -> Nat]
  /\ faults \in 0 .. MaxFaults

\* A worker has one copy of an update and one outcome to record.
OneEach ==
  \A w \in Workers :
    /\ \A p, q \in held[w] : p[1] = q[1] => p = q
    /\ \A o, q \in result[w] : o = q

Lapsed(e) == IF e \in due THEN 1 ELSE 0

\* The n-th attempt is not older than the faults since then account for.
Young(e, n) ==
  /\ status[e] # "absent"
  /\ n =< attempts[e]
  /\ attempts[e] + Lapsed(e) =< n + faults

CopiesYoung ==
  \A w \in Workers :
    /\ \A p \in held[w] : Young(p[1], p[2])
    /\ \A o \in result[w] : Young(o[1], o[2])

\* A row that can be claimed, or will be without another fault.
Waiting(e) ==
  \/ status[e] \in {"absent", "pending"}
  \/ status[e] = "processing" /\ (e \in due \/ ~InHand(e))

Spare ==
  \A e \in Updates :
    /\ attempts[e] =< MaxAttempts + faults
    /\ Waiting(e) => attempts[e] < MaxAttempts + faults

QueueInv == QueueTypes /\ OneEach /\ CopiesYoung /\ Spare

LEMMA QueueInit == InboxInit => QueueInv
BY InboxAssumption
   DEF InboxInit, QueueInv, QueueTypes, OneEach, CopiesYoung, Spare, Waiting

-----------------------------------------------------------------------------
(* The queue, one kind of step after the other *)

LEMMA IngestQueue ==
  ASSUME QueueInv, NEW e \in Updates, IngestUpdate(e)
  PROVE  QueueInv'
<1> USE DEF QueueInv
<1>1. /\ UNCHANGED <<attempts, held, result, applied, faults>>
      /\ status' = [status EXCEPT ![e] = Stored(e)]
      /\ due' = IF status[e] = "absent" THEN due \cup {e} ELSE due
  BY DEF IngestUpdate, effectVars
<1>2. /\ \A f \in Updates : status[f] # "absent" =>
           status'[f] = status[f] /\ (f \in due' <=> f \in due)
      /\ \A f \in Updates : status[f] = "absent" => status'[f] \in {"absent", "pending"}
  BY <1>1 DEF Stored, QueueTypes
<1>3. QueueTypes'
  BY <1>1 DEF QueueTypes, Stored
<1>4. OneEach'
  BY <1>1 DEF OneEach
<1>5. CopiesYoung'
  BY <1>1, <1>2 DEF CopiesYoung, Young, Lapsed, QueueTypes
<1>6. Spare'
  <2> SUFFICES ASSUME NEW f \in Updates
               PROVE  /\ attempts[f] =< MaxAttempts + faults
                      /\ Waiting(f)' => attempts[f] < MaxAttempts + faults
    BY <1>1 DEF Spare
  <2>1. Waiting(f)' => Waiting(f)
    BY <1>1, <1>2 DEF Waiting, InHand
  <2> QED
    BY <2>1 DEF Spare
<1> QED
  BY <1>3, <1>4, <1>5, <1>6

LEMMA TickQueue ==
  ASSUME QueueInv, NEW e \in Updates, Tick(e)
  PROVE  QueueInv'
<1> USE DEF QueueInv
<1>1. /\ UNCHANGED <<status, attempts, held, result, applied, faults>>
      /\ due' = due \cup {e} /\ ~InHand(e)
      /\ status[e] \in {"pending", "processing"}
  BY DEF Tick, effectVars
<1>2. QueueTypes' /\ OneEach'
  BY <1>1 DEF QueueTypes, OneEach
<1>3. CopiesYoung'
  <2>1. \A w \in Workers : /\ \A p \in held[w] : p[1] # e
                           /\ \A o \in result[w] : o[1] # e
    BY <1>1 DEF InHand
  <2> QED
    BY <1>1, <2>1 DEF CopiesYoung, Young, Lapsed
<1>4. Spare'
  BY <1>1 DEF Spare, Waiting, InHand
<1> QED
  BY <1>2, <1>3, <1>4

\* Any step that costs a fault and claims nothing.
LEMMA FaultQueue ==
  ASSUME QueueInv, Fault, UNCHANGED <<status, attempts, applied>>,
         due' \in SUBSET Updates, due \subseteq due',
         \A w \in Workers : held'[w] \subseteq held[w] /\ result'[w] \subseteq result[w],
         held' \in [Workers -> SUBSET (Updates \X Nat)],
         result' \in [Workers -> SUBSET (Updates \X Nat \X {"ok", "error"})]
  PROVE  QueueInv'
<1> USE DEF QueueInv
<1>1. faults' = faults + 1 /\ faults' \in 0 .. MaxFaults /\ faults \in Nat
  BY InboxAssumption DEF Fault, QueueTypes
<1>2. QueueTypes'
  BY <1>1 DEF QueueTypes
<1>3. OneEach'
  BY DEF OneEach
<1>4. CopiesYoung'
  <2>1. ASSUME NEW e \in Updates, NEW n \in Nat, Young(e, n)
        PROVE  Young(e, n)'
    BY <2>1, <1>1 DEF Young, Lapsed, QueueTypes
  <2>2. \A w \in Workers : /\ \A p \in held'[w] : p[1] \in Updates /\ p[2] \in Nat /\ p \in held[w]
                           /\ \A o \in result'[w] : o[1] \in Updates /\ o[2] \in Nat /\ o \in result[w]
    OBVIOUS
  <2> QED
    BY <2>1, <2>2 DEF CopiesYoung
<1>5. Spare'
  BY <1>1, InboxAssumption DEF Spare, QueueTypes
<1> QED
  BY <1>2, <1>3, <1>4, <1>5

\* One statement claims rows that wait; its worker had nothing in hand.
LEMMA ClaimQueue ==
  ASSUME QueueInv, NEW w \in Workers, NEW batch \in SUBSET Updates, ClaimUpdates(w, batch)
  PROVE  QueueInv'
<1> USE DEF QueueInv
<1>1. /\ held[w] = {} /\ result[w] = {} /\ UNCHANGED <<result, applied, faults>>
      /\ held' = [held EXCEPT ![w] = {<<e, attempts'[e]>> : e \in batch}]
      /\ due' = due \ batch
      /\ \A e \in batch : status[e] \in {"pending", "processing"} /\ e \in due
  BY DEF ClaimUpdates, IdleWorker, Lease, Claimable, effectVars
<1>2. /\ status' = [e \in Updates |-> IF e \in batch THEN "processing" ELSE status[e]]
      /\ attempts' = [e \in Updates |-> attempts[e] + (IF e \in batch THEN 1 ELSE 0)]
  BY DEF ClaimUpdates, Lease
<1>3. /\ \A e \in batch : status'[e] = "processing" /\ attempts'[e] = attempts[e] + 1
      /\ \A e \in Updates \ batch : status'[e] = status[e] /\ attempts'[e] = attempts[e]
      /\ attempts' \in [Updates -> Nat]
  BY <1>2 DEF QueueTypes
<1>4. /\ held'[w] = {<<e, attempts'[e]>> : e \in batch}
      /\ \A v \in Workers \ {w} : held'[v] = held[v]
  BY <1>1 DEF QueueTypes
<1>5. \A p \in held'[w] : p[1] \in batch /\ p[2] = attempts'[p[1]] /\ p \in Updates \X Nat
                          /\ p = <<p[1], p[2]>>
  BY <1>3, <1>4
<1>6. QueueTypes'
  <2>1. held' \in [Workers -> SUBSET (Updates \X Nat)]
    BY <1>1, <1>4, <1>5 DEF QueueTypes
  <2>2. status' \in [Updates -> {"absent", "pending", "processing", "processed", "failed"}]
    BY <1>2 DEF QueueTypes
  <2> QED
    BY <2>1, <2>2, <1>1, <1>3 DEF QueueTypes
<1>7. OneEach'
  BY <1>1, <1>4, <1>5 DEF OneEach
<1>8. CopiesYoung'
  <2>1. \A v \in Workers \ {w} : \A p \in held[v] : Young(p[1], p[2])'
    <3> SUFFICES ASSUME NEW v \in Workers, NEW p \in held[v] PROVE Young(p[1], p[2])'
      OBVIOUS
    <3>1. Young(p[1], p[2]) /\ p[1] \in Updates /\ p[2] \in Nat
      BY DEF CopiesYoung, QueueTypes
    <3>2. CASE p[1] \in batch
      BY <3>1, <3>2, <1>1, <1>3 DEF Young, Lapsed, QueueTypes
    <3>3. CASE p[1] \notin batch
      BY <3>1, <3>3, <1>1, <1>3 DEF Young, Lapsed, QueueTypes
    <3> QED
      BY <3>2, <3>3
  <2>2. \A v \in Workers : \A o \in result[v] : Young(o[1], o[2])'
    <3> SUFFICES ASSUME NEW v \in Workers, NEW o \in result[v] PROVE Young(o[1], o[2])'
      OBVIOUS
    <3>1. Young(o[1], o[2]) /\ o[1] \in Updates /\ o[2] \in Nat
      BY DEF CopiesYoung, QueueTypes
    <3>2. CASE o[1] \in batch
      BY <3>1, <3>2, <1>1, <1>3 DEF Young, Lapsed, QueueTypes
    <3>3. CASE o[1] \notin batch
      BY <3>1, <3>3, <1>1, <1>3 DEF Young, Lapsed, QueueTypes
    <3> QED
      BY <3>2, <3>3
  <2>3. \A p \in held'[w] : Young(p[1], p[2])'
    BY <1>1, <1>3, <1>5 DEF Young, Lapsed, QueueTypes
  <2> QED
    BY <2>1, <2>2, <2>3, <1>1, <1>4 DEF CopiesYoung
<1>9. Spare'
  <2> SUFFICES ASSUME NEW e \in Updates
               PROVE  /\ attempts'[e] =< MaxAttempts + faults
                      /\ Waiting(e)' => attempts'[e] < MaxAttempts + faults
    BY <1>1 DEF Spare
  <2>1. CASE e \in batch
    <3>1. attempts'[e] =< MaxAttempts + faults
      BY <2>1, <1>1, <1>3, InboxAssumption DEF Spare, Waiting, QueueTypes
    <3>2. <<e, attempts'[e]>> \in held'[w] /\ <<e, attempts'[e]>>[1] = e
      BY <2>1, <1>4
    <3>3. InHand(e)' /\ e \notin due' /\ status'[e] = "processing"
      BY <2>1, <3>2, <1>1, <1>3 DEF InHand
    <3> QED
      BY <3>1, <3>3 DEF Waiting
  <2>2. CASE e \notin batch
    <3>1. InHand(e) => InHand(e)'
      BY <2>2, <1>1, <1>4 DEF InHand
    <3>2. Waiting(e)' => Waiting(e)
      BY <2>2, <3>1, <1>1, <1>3 DEF Waiting
    <3> QED
      BY <2>2, <3>2, <1>3 DEF Spare
  <2> QED
    BY <2>1, <2>2
<1> QED
  BY <1>6, <1>7, <1>8, <1>9

\* A dispatch, however it ends: the copy becomes an outcome to record.
LEMMA FinishQueue ==
  ASSUME QueueInv, NEW w \in Workers, NEW e \in Updates, NEW n \in Nat,
         NEW r \in {"ok", "error"}, <<e, n>> \in held[w], result[w] = {},
         Finish(w, e, n, r), applied' \in [Updates -> Nat],
         UNCHANGED <<queueVars, faults>>
  PROVE  QueueInv'
<1> USE DEF QueueInv, queueVars
<1>1. /\ held'[w] = held[w] \ {<<e, n>>} /\ result'[w] = {<<e, n, r>>}
      /\ \A v \in Workers \ {w} : held'[v] = held[v] /\ result'[v] = result[v]
  BY DEF Finish, QueueTypes
<1>2. QueueTypes'
  BY DEF QueueTypes, Finish
<1>3. OneEach'
  BY <1>1 DEF OneEach
<1>4. CopiesYoung'
  <2>1. \A f \in Updates, m \in Nat : Young(f, m)' <=> Young(f, m)
    BY DEF Young, Lapsed
  <2>2. Young(e, n)
    BY DEF CopiesYoung
  <2>3. \A v \in Workers : /\ \A p \in held[v] : p[1] \in Updates /\ p[2] \in Nat
                           /\ \A o \in result[v] : o[1] \in Updates /\ o[2] \in Nat
    BY DEF QueueTypes
  <2>4. \A v \in Workers : \A o \in result'[v] :
          o \in result[v] \/ (o[1] = e /\ o[2] = n)
    BY <1>1
  <2>5. \A v \in Workers : held'[v] \subseteq held[v]
    BY <1>1
  <2> QED
    BY <2>1, <2>2, <2>3, <2>4, <2>5 DEF CopiesYoung
<1>5. Spare'
  <2>1. \A f \in Updates : InHand(f) => InHand(f)'
    <3> SUFFICES ASSUME NEW f \in Updates, InHand(f) PROVE InHand(f)'
      OBVIOUS
    <3>1. CASE f = e
      <4>1. <<e, n, r>> \in result'[w] /\ <<e, n, r>>[1] = e
        BY <1>1
      <4> QED
        BY <3>1, <4>1 DEF InHand
    <3>2. CASE f # e
      <4>1. PICK v \in Workers : \/ \E p \in held[v] : p[1] = f
                                \/ \E o \in result[v] : o[1] = f
        BY DEF InHand
      <4>2. \A p \in held[v] : p[1] = f => p \in held'[v]
        BY <3>2, <1>1
      <4>3. \A o \in result[v] : o \in result'[v]
        BY <1>1
      <4> QED
        BY <4>1, <4>2, <4>3 DEF InHand
    <3> QED
      BY <3>1, <3>2
  <2> QED
    BY <2>1 DEF Spare, Waiting
<1> QED
  BY <1>2, <1>3, <1>4, <1>5

\* A recorded outcome ends an update, or makes it wait with an attempt to spare.
LEMMA RecordQueue ==
  ASSUME QueueInv, NEW w \in Workers, Record(w)
  PROVE  QueueInv'
<1> USE DEF QueueInv
<1>1. PICK o \in result[w] :
        /\ status' = [status EXCEPT ![o[1]] = Outcome(o[1], o[2], o[3])]
        /\ due' = IF o[3] = "error" /\ status[o[1]] = "processing" THEN due \ {o[1]} ELSE due
  BY DEF Record
<1>2. /\ result' = [result EXCEPT ![w] = {}]
      /\ UNCHANGED <<attempts, held, applied, faults>>
  BY DEF Record, effectVars
<1> DEFINE e == o[1]
<1>3. e \in Updates /\ o[2] \in Nat /\ o[3] \in {"ok", "error"} /\ Young(e, o[2])
  BY DEF QueueTypes, CopiesYoung
<1>4. /\ result'[w] = {} /\ \A v \in Workers \ {w} : result'[v] = result[v]
      /\ \A q \in result[w] : q = o
  BY <1>2 DEF QueueTypes, OneEach
<1>5. /\ \A f \in Updates \ {e} : status'[f] = status[f] /\ (f \in due' <=> f \in due)
      /\ status'[e] = Outcome(e, o[2], o[3])
  BY <1>1, <1>3 DEF QueueTypes
<1>6. /\ status[e] # "processing" => status'[e] = status[e] /\ due' = due
      /\ status[e] = "processing" =>
           \/ status'[e] \in {"processed", "failed"}
           \/ status'[e] = "pending" /\ o[2] < MaxAttempts
  BY <1>1, <1>3, <1>5, InboxAssumption DEF Outcome
<1>7. status' \in [Updates -> {"absent", "pending", "processing", "processed", "failed"}]
  BY <1>1, <1>3, <1>5, <1>6 DEF QueueTypes
<1>8. due' \subseteq due
  BY <1>1
<1>9. QueueTypes'
  BY <1>2, <1>7, <1>8 DEF QueueTypes
<1>10. OneEach'
  BY <1>2, <1>4 DEF OneEach
<1>11. CopiesYoung'
  <2>1. \A f \in Updates, m \in Nat : Young(f, m) => Young(f, m)'
    <3> SUFFICES ASSUME NEW f \in Updates, NEW m \in Nat, Young(f, m) PROVE Young(f, m)'
      OBVIOUS
    <3>1. status'[f] # "absent"
      BY <1>3, <1>5, <1>6 DEF Young
    <3>2. Lapsed(f)' =< Lapsed(f)
      BY <1>8 DEF Lapsed
    <3>3. Lapsed(f)' \in Nat /\ Lapsed(f) \in Nat
      BY DEF Lapsed
    <3> QED
      BY <3>1, <3>2, <3>3, <1>2 DEF Young, QueueTypes
  <2>2. \A v \in Workers : /\ \A p \in held[v] : p[1] \in Updates /\ p[2] \in Nat
                           /\ \A q \in result[v] : q[1] \in Updates /\ q[2] \in Nat
    BY DEF QueueTypes
  <2>3. \A v \in Workers : result'[v] \subseteq result[v]
    BY <1>4
  <2> QED
    BY <2>1, <2>2, <2>3, <1>2 DEF CopiesYoung
<1>12. Spare'
  <2> SUFFICES ASSUME NEW f \in Updates
               PROVE  /\ attempts[f] =< MaxAttempts + faults
                      /\ Waiting(f)' => attempts[f] < MaxAttempts + faults
    BY <1>2 DEF Spare
  <2>1. CASE f = e /\ status[e] = "processing"
    <3>1. CASE status'[e] \in {"processed", "failed"}
      BY <2>1, <3>1 DEF Waiting, Spare
    <3>2. CASE o[2] < MaxAttempts
      BY <2>1, <3>2, <1>3, InboxAssumption DEF Young, Lapsed, QueueTypes
    <3> QED
      BY <2>1, <3>1, <3>2, <1>6
  <2>2. CASE f = e /\ status[e] # "processing"
    BY <2>2, <1>6 DEF Spare, Waiting
  <2>3. CASE f # e
    <3>1. InHand(f) => InHand(f)'
      BY <2>3, <1>2, <1>4 DEF InHand
    <3> QED
      BY <2>3, <3>1, <1>5 DEF Waiting, Spare
  <2> QED
    BY <2>1, <2>2, <2>3
<1> QED
  BY <1>9, <1>10, <1>11, <1>12

LEMMA QueueStep == QueueInv /\ [InboxNext]_inboxVars => QueueInv'
<1> SUFFICES ASSUME QueueInv, [InboxNext]_inboxVars PROVE QueueInv'
  OBVIOUS
<1>1. ASSUME NEW e \in Updates, IngestUpdate(e) \/ Tick(e)
      PROVE  QueueInv'
  BY <1>1, IngestQueue, TickQueue
<1>2. ASSUME NEW e \in Updates, LeaseRunsOut(e)
      PROVE  QueueInv'
  BY <1>2, FaultQueue DEF LeaseRunsOut, effectVars, QueueInv, QueueTypes
<1>3. ASSUME NEW w \in Workers, RecordFails(w) \/ Stop(w)
      PROVE  QueueInv'
  <2>1. /\ Fault /\ UNCHANGED <<status, attempts, applied, due>>
        /\ held' = held \/ held' = [held EXCEPT ![w] = {}]
        /\ result' = [result EXCEPT ![w] = {}]
    BY <1>3 DEF RecordFails, Stop, queueVars, effectVars
  <2>2. /\ \A v \in Workers : held'[v] \subseteq held[v] /\ result'[v] \subseteq result[v]
        /\ held' \in [Workers -> SUBSET (Updates \X Nat)]
        /\ result' \in [Workers -> SUBSET (Updates \X Nat \X {"ok", "error"})]
        /\ due' \in SUBSET Updates /\ due \subseteq due'
    BY <2>1 DEF QueueInv, QueueTypes
  <2> QED
    BY <2>1, <2>2, FaultQueue
<1>4. ASSUME NEW w \in Workers, WorkerStep(w)
      PROVE  QueueInv'
  <2>1. ASSUME NEW batch \in SUBSET Updates, ClaimUpdates(w, batch)
        PROVE  QueueInv'
    BY <2>1, ClaimQueue
  <2>2. ASSUME NEW p \in held[w],
               \/ Dispatch(w, p[1], p[2]) \/ DispatchFails(w, p[1], p[2])
               \/ ConfirmUnavailable(w, p[1], p[2])
        PROVE  QueueInv'
    <3>1. p[1] \in Updates /\ p[2] \in Nat
      BY DEF QueueInv, QueueTypes
    <3>2. /\ <<p[1], p[2]>> \in held[w] /\ result[w] = {} /\ UNCHANGED <<queueVars, faults>>
          /\ \E r \in {"ok", "error"} : Finish(w, p[1], p[2], r)
      BY <2>2 DEF Dispatch, DispatchFails, ConfirmUnavailable
    <3>3. applied' = applied \/ applied' = [applied EXCEPT ![p[1]] = @ + 1]
      BY <2>2 DEF Dispatch, DispatchFails, ConfirmUnavailable, Effect, effectVars
    <3>4. applied' \in [Updates -> Nat]
      BY <3>1, <3>3 DEF QueueInv, QueueTypes
    <3> QED
      BY <3>1, <3>2, <3>4, FinishQueue
  <2>3. CASE Record(w)
    BY <2>3, RecordQueue
  <2> QED
    BY <1>4, <2>1, <2>2, <2>3 DEF WorkerStep
<1>5. CASE UNCHANGED inboxVars
  BY <1>5 DEF inboxVars, queueVars, effectVars, QueueInv, QueueTypes, OneEach, CopiesYoung,
              Young, Lapsed, Spare, Waiting, InHand
<1> QED
  BY <1>1, <1>2, <1>3, <1>4, <1>5 DEF InboxNext

LEMMA QueueInvariant == InboxSpec => []QueueInv
  BY QueueInit, QueueStep, PTL DEF InboxSpec

-----------------------------------------------------------------------------
(* The effects: what an update does when it is dispatched, once or again *)

EffectTypes ==
  /\ chats \in [Chats -> [status : {"none", "active", "removed"}, at : Nat]]
  /\ subscription \in [Starters -> {"none", "active"}]

EffectInv ==
  /\ applied \in [Updates -> Nat]
  /\ EffectTypes
  /\ NewestEventWins

LEMMA EffectInit == InboxInit => EffectInv
BY DEF InboxInit, EffectInv, EffectTypes, NewestEventWins, OfType

\* A row follows an event that is not older than what it shows, and so shows the
\* newest of the events applied whatever order they come in.
LEMMA EffectStep ==
  ASSUME EffectInv, NEW e \in Updates, Effect(e)
  PROVE  EffectInv'
<1> USE DEF EffectInv
<1>1. /\ applied' = [applied EXCEPT ![e] = @ + 1]
      /\ e.type = "chat" => chats' = [chats EXCEPT ![e.chat] = UpsertChat(@, e)]
      /\ e.type # "chat" => chats' = chats
      /\ e.type = "started" => subscription' = [subscription EXCEPT ![e.user] = "active"]
      /\ e.type # "started" => subscription' = subscription
  BY DEF Effect
<1>2. /\ applied' \in [Updates -> Nat] /\ applied'[e] > 0
      /\ \A f \in Updates \ {e} : applied'[f] = applied[f]
  BY <1>1
<1>3. e.type = "chat" => e.chat \in Chats /\ e.at \in Nat /\ e.status \in {"active", "removed"}
  BY UpdatesAssumption DEF Chats, OfType
<1>4. EffectTypes'
  <2>1. chats' \in [Chats -> [status : {"none", "active", "removed"}, at : Nat]]
    BY <1>1, <1>3 DEF EffectTypes, UpsertChat
  <2>2. subscription' \in [Starters -> {"none", "active"}]
    BY <1>1 DEF EffectTypes
  <2> QED
    BY <2>1, <2>2 DEF EffectTypes
<1>5. NewestEventWins'
  <2> SUFFICES ASSUME NEW c \in Chats
               PROVE  LET seen == {f \in OfType("chat") : f.chat = c /\ applied'[f] > 0}
                      IN  IF seen = {} THEN chats'[c].at = 0
                          ELSE /\ \A f \in seen : f.at =< chats'[c].at
                               /\ \E f \in seen : f.at = chats'[c].at
                                                  /\ f.status = chats'[c].status
    BY DEF NewestEventWins, Chats, OfType
  <2> DEFINE seen == {f \in OfType("chat") : f.chat = c /\ applied[f] > 0}
             after == {f \in OfType("chat") : f.chat = c /\ applied'[f] > 0}
  <2>1. IF seen = {} THEN chats[c].at = 0
        ELSE /\ \A f \in seen : f.at =< chats[c].at
             /\ \E f \in seen : f.at = chats[c].at /\ f.status = chats[c].status
    BY DEF NewestEventWins
  <2>2. \A f \in after : f.at \in Nat
    BY UpdatesAssumption DEF OfType
  <2>3. CASE ~(e.type = "chat" /\ e.chat = c)
    <3>1. after = seen
      BY <2>3, <1>2 DEF OfType
    <3>2. chats'[c] = chats[c]
      BY <2>3, <1>1, <1>3 DEF EffectTypes
    <3> QED
      BY <2>1, <3>1, <3>2
  <2>4. CASE e.type = "chat" /\ e.chat = c
    <3>1. after = seen \cup {e}
      BY <2>4, <1>2 DEF OfType
    <3>2. chats'[c] = UpsertChat(chats[c], e) /\ chats[c].at \in Nat
      BY <2>4, <1>1, <1>3 DEF EffectTypes
    <3>3. CASE e.at >= chats[c].at
      <4>1. chats'[c].at = e.at /\ chats'[c].status = e.status
        BY <3>2, <3>3 DEF UpsertChat
      <4>2. \A f \in seen : f.at =< chats[c].at
        BY <2>1
      <4>3. \A f \in after : f.at =< e.at
        BY <4>2, <3>1, <3>2, <3>3, <2>2, <2>4, <1>3
      <4> QED
        BY <4>1, <4>3, <3>1
    <3>4. CASE ~(e.at >= chats[c].at)
      <4>1. chats'[c] = chats[c]
        BY <3>2, <3>4 DEF UpsertChat
      <4>2. seen # {}
        BY <2>1, <2>4, <3>2, <3>4, <1>3
      <4> QED
        BY <2>1, <2>4, <3>1, <3>2, <3>4, <4>1, <4>2, <1>3
    <3> QED
      BY <3>3, <3>4
  <2> QED
    BY <2>3, <2>4
<1> QED
  BY <1>2, <1>4, <1>5

LEMMA EffectUnchanged == EffectInv /\ UNCHANGED effectVars => EffectInv'
BY DEF effectVars, EffectInv, EffectTypes, NewestEventWins

\* A step dispatches one update or leaves the effects alone.
LEMMA EffectsOfNext ==
  ASSUME QueueInv, [InboxNext]_inboxVars
  PROVE  UNCHANGED effectVars \/ \E e \in Updates : Effect(e)
<1>1. ASSUME NEW w \in Workers, NEW p \in held[w],
             \/ Dispatch(w, p[1], p[2]) \/ DispatchFails(w, p[1], p[2])
             \/ ConfirmUnavailable(w, p[1], p[2])
      PROVE  UNCHANGED effectVars \/ \E e \in Updates : Effect(e)
  <2>1. p[1] \in Updates
    BY DEF QueueInv, QueueTypes
  <2> QED
    BY <2>1, <1>1 DEF Dispatch, DispatchFails, ConfirmUnavailable
<1>2. ASSUME NEW w \in Workers, WorkerStep(w)
      PROVE  UNCHANGED effectVars \/ \E e \in Updates : Effect(e)
  <2>1. \/ \E batch \in SUBSET Updates : ClaimUpdates(w, batch)
        \/ Record(w)
        \/ \E p \in held[w] : \/ Dispatch(w, p[1], p[2]) \/ DispatchFails(w, p[1], p[2])
                              \/ ConfirmUnavailable(w, p[1], p[2])
    BY <1>2 DEF WorkerStep
  <2>2. CASE \E batch \in SUBSET Updates : ClaimUpdates(w, batch)
    BY <2>2 DEF ClaimUpdates
  <2>3. CASE Record(w)
    BY <2>3 DEF Record
  <2> QED
    BY <2>1, <2>2, <2>3, <1>1
<1>3. ASSUME NEW e \in Updates, IngestUpdate(e) \/ Tick(e) \/ LeaseRunsOut(e)
      PROVE  UNCHANGED effectVars
  BY <1>3 DEF IngestUpdate, Tick, LeaseRunsOut
<1>4. ASSUME NEW w \in Workers, RecordFails(w) \/ Stop(w)
      PROVE  UNCHANGED effectVars
  BY <1>4 DEF RecordFails, Stop
<1>5. CASE UNCHANGED inboxVars
  BY <1>5 DEF inboxVars
<1> QED
  BY <1>2, <1>3, <1>4, <1>5 DEF InboxNext

LEMMA EffectInvariant == InboxSpec => []EffectInv
<1>1. QueueInv /\ EffectInv /\ [InboxNext]_inboxVars => EffectInv'
  BY EffectsOfNext, EffectStep, EffectUnchanged
<1> QED
  BY <1>1, QueueInvariant, EffectInit, PTL DEF InboxSpec

\* A chat's row shows the newest of the events that were applied, for any number
\* of chats, events, workers and faults.
THEOREM NewestEventWinsAlways == InboxSpec => []NewestEventWins
<1>1. EffectInv => NewestEventWins
  BY DEF EffectInv
<1> QED
  BY <1>1, EffectInvariant, PTL

\* The rows keep the values their CHECK constraints allow, and attempts pass
\* maxAttempts by no more than the faults.
THEOREM InboxTypeCorrect == InboxSpec => []InboxTypeOK
<1>1. QueueInv /\ EffectInv => InboxTypeOK
  <2> SUFFICES ASSUME QueueInv, EffectInv PROVE InboxTypeOK
    OBVIOUS
  <2>1. attempts \in [Updates -> 0 .. MaxAttempts + MaxFaults]
    BY InboxAssumption DEF QueueInv, QueueTypes, Spare
  <2> QED
    BY <2>1 DEF InboxTypeOK, QueueInv, QueueTypes, EffectInv, EffectTypes
<1> QED
  BY <1>1, QueueInvariant, EffectInvariant, PTL

-----------------------------------------------------------------------------
(* Outcomes *)

LEMMA OutcomeStays ==
  ASSUME QueueTypes, [InboxNext]_inboxVars, NEW e \in Updates,
         status[e] \in {"processed", "failed"}
  PROVE  status'[e] = status[e]
<1>1. ASSUME NEW f \in Updates, IngestUpdate(f)
      PROVE  status'[e] = status[e]
  BY <1>1 DEF IngestUpdate, Stored, QueueTypes
<1>2. ASSUME NEW w \in Workers, NEW batch \in SUBSET Updates, ClaimUpdates(w, batch)
      PROVE  status'[e] = status[e]
  BY <1>2 DEF ClaimUpdates, Lease, Claimable
<1>3. ASSUME NEW w \in Workers, NEW o \in result[w],
             status' = [status EXCEPT ![o[1]] = Outcome(o[1], o[2], o[3])]
      PROVE  status'[e] = status[e]
  BY <1>3 DEF Outcome, QueueTypes
<1>4. ASSUME NEW w \in Workers, WorkerStep(w)
      PROVE  status'[e] = status[e]
  BY <1>4, <1>2, <1>3 DEF WorkerStep, Record, Dispatch, DispatchFails, ConfirmUnavailable, queueVars
<1>5. ASSUME NEW f \in Updates, Tick(f) \/ LeaseRunsOut(f)
      PROVE  status'[e] = status[e]
  BY <1>5 DEF Tick, LeaseRunsOut
<1>6. ASSUME NEW w \in Workers, RecordFails(w) \/ Stop(w)
      PROVE  status'[e] = status[e]
  BY <1>6 DEF RecordFails, Stop, queueVars
<1>7. CASE UNCHANGED inboxVars
  BY <1>7 DEF inboxVars, queueVars
<1> QED
  BY <1>1, <1>4, <1>5, <1>6, <1>7 DEF InboxNext

\* An outcome stays, however late a second worker with a copy of the update is.
THEOREM OutcomesStay == InboxSpec => ProcessedForGood
<1>1. QueueInv /\ [InboxNext]_inboxVars =>
        [\A e \in Updates : status[e] \in {"processed", "failed"} =>
                            status'[e] = status[e]]_inboxVars
  BY OutcomeStays DEF QueueInv
<1> QED
  BY <1>1, QueueInvariant, PTL DEF InboxSpec, ProcessedForGood

-----------------------------------------------------------------------------
(* Attempts *)

\* The workers with a copy of e that is not dispatched yet.
Holders(e) == {w \in Workers : \E p \in held[w] : p[1] = e}

\* Every claim is dispatched once at most.
Accounted(e) ==
  /\ IsFiniteSet(Holders(e))
  /\ applied[e] + Cardinality(Holders(e)) =< attempts[e]

\* What the workers and the table say about past dispatches.
Explained(e) ==
  /\ \A w \in Workers : \A o \in result[w] :
       o[1] = e /\ o[3] = "ok" /\ e.type # "confirm" => applied[e] > 0
  /\ status[e] = "processed" /\ e.type # "confirm" => applied[e] > 0
  /\ status[e] = "failed" => attempts[e] >= MaxAttempts

AttemptsInv == \A e \in Updates : Accounted(e) /\ Explained(e)

LEMMA AttemptsInit == InboxInit => AttemptsInv
<1> SUFFICES ASSUME InboxInit, NEW e \in Updates PROVE Accounted(e) /\ Explained(e)
  BY DEF AttemptsInv
<1>1. Holders(e) = {}
  BY DEF InboxInit, Holders
<1>2. IsFiniteSet(Holders(e)) /\ Cardinality(Holders(e)) = 0
  BY <1>1, FS_EmptySet
<1> QED
  BY <1>2 DEF InboxInit, Accounted, Explained

\* Fewer copies, as many claims.
LEMMA FewerHolders ==
  ASSUME QueueTypes, NEW e \in Updates, Accounted(e),
         Holders(e)' \subseteq Holders(e),
         applied'[e] = applied[e], attempts'[e] = attempts[e]
  PROVE  Accounted(e)'
<1>1. /\ IsFiniteSet(Holders(e)') /\ Cardinality(Holders(e)') =< Cardinality(Holders(e))
      /\ Cardinality(Holders(e)') \in Nat /\ Cardinality(Holders(e)) \in Nat
  BY FS_Subset, FS_CardinalityType DEF Accounted
<1> QED
  BY <1>1 DEF Accounted, QueueTypes

LEMMA ClaimAttempts ==
  ASSUME QueueInv, AttemptsInv, NEW w \in Workers, NEW batch \in SUBSET Updates,
         ClaimUpdates(w, batch)
  PROVE  AttemptsInv'
<1> SUFFICES ASSUME NEW e \in Updates PROVE Accounted(e)' /\ Explained(e)'
  BY DEF AttemptsInv
<1>1. /\ held[w] = {} /\ UNCHANGED <<result, applied>>
      /\ held' = [held EXCEPT ![w] = {<<f, attempts'[f]>> : f \in batch}]
      /\ status' = [f \in Updates |-> IF f \in batch THEN "processing" ELSE status[f]]
      /\ attempts' = [f \in Updates |-> attempts[f] + (IF f \in batch THEN 1 ELSE 0)]
  BY DEF ClaimUpdates, Lease, IdleWorker, effectVars
<1>2. /\ held'[w] = {<<f, attempts'[f]>> : f \in batch}
      /\ \A v \in Workers \ {w} : held'[v] = held[v]
  BY <1>1 DEF QueueInv, QueueTypes
<1>3. w \notin Holders(e)
  BY <1>1 DEF Holders
<1>4. CASE e \in batch
  <2>1. <<e, attempts'[e]>> \in held'[w] /\ <<e, attempts'[e]>>[1] = e
    BY <1>2, <1>4
  <2>2. Holders(e)' = Holders(e) \cup {w}
    BY <2>1, <1>2 DEF Holders
  <2>3. /\ IsFiniteSet(Holders(e)') /\ Cardinality(Holders(e)') = Cardinality(Holders(e)) + 1
        /\ Cardinality(Holders(e)) \in Nat
    BY <2>2, <1>3, FS_AddElement, FS_CardinalityType DEF AttemptsInv, Accounted
  <2>4. Accounted(e)'
    BY <2>3, <1>1, <1>4 DEF AttemptsInv, Accounted, QueueInv, QueueTypes
  <2> QED
    BY <2>4, <1>1, <1>4 DEF AttemptsInv, Explained
<1>5. CASE e \notin batch
  <2>1. \A p \in held'[w] : p[1] # e
    BY <1>2, <1>5
  <2>2. Holders(e)' \subseteq Holders(e)
    BY <2>1, <1>2 DEF Holders
  <2>3. attempts'[e] = attempts[e] /\ status'[e] = status[e]
    BY <1>1, <1>5 DEF QueueInv, QueueTypes
  <2>4. Accounted(e)'
    BY <2>2, <2>3, <1>1, FewerHolders DEF AttemptsInv, QueueInv
  <2> QED
    BY <2>3, <2>4, <1>1 DEF AttemptsInv, Explained
<1> QED
  BY <1>4, <1>5

\* A dispatch uses up the copy, and only then may the update have had its effect.
LEMMA FinishAttempts ==
  ASSUME QueueInv, AttemptsInv, NEW w \in Workers, NEW e \in Updates, NEW n \in Nat,
         NEW r \in {"ok", "error"}, <<e, n>> \in held[w], result[w] = {},
         Finish(w, e, n, r), UNCHANGED queueVars,
         \/ applied' = [applied EXCEPT ![e] = @ + 1]
         \/ applied' = applied /\ (r = "ok" => e.type = "confirm")
  PROVE  AttemptsInv'
<1> SUFFICES ASSUME NEW f \in Updates PROVE Accounted(f)' /\ Explained(f)'
  BY DEF AttemptsInv
<1>1. /\ held'[w] = held[w] \ {<<e, n>>} /\ result'[w] = {<<e, n, r>>}
      /\ \A v \in Workers \ {w} : held'[v] = held[v] /\ result'[v] = result[v]
      /\ status' = status /\ attempts' = attempts
  BY DEF Finish, QueueInv, QueueTypes, queueVars
<1>2. Holders(f)' \subseteq Holders(f)
  BY <1>1 DEF Holders
<1>3. Accounted(f)'
  <2>1. CASE applied'[f] = applied[f]
    BY <2>1, <1>1, <1>2, FewerHolders DEF AttemptsInv, QueueInv
  <2>2. CASE f = e
    <3>1. w \in Holders(e)
      <4>1. <<e, n>>[1] = e
        OBVIOUS
      <4> QED
        BY <4>1 DEF Holders
    <3>2. Holders(e)' \subseteq Holders(e) \ {w}
      <4>1. \A p \in held'[w] : p[1] # e
        <5>1. \A p \in held[w] : p[1] = <<e, n>>[1] => p = <<e, n>>
          BY DEF QueueInv, OneEach
        <5> QED
          BY <5>1, <1>1
      <4> QED
        BY <4>1, <2>2, <1>2 DEF Holders
    <3>3. IsFiniteSet(Holders(e)) /\ Cardinality(Holders(e)) \in Nat
      BY FS_CardinalityType DEF AttemptsInv, Accounted
    <3>4. /\ IsFiniteSet(Holders(e) \ {w})
          /\ Cardinality(Holders(e) \ {w}) = Cardinality(Holders(e)) - 1
      BY <3>1, <3>3, FS_RemoveElement
    <3>5. /\ IsFiniteSet(Holders(e)') /\ Cardinality(Holders(e)') \in Nat
          /\ Cardinality(Holders(e)') =< Cardinality(Holders(e)) - 1
      BY <3>2, <3>4, FS_Subset, FS_CardinalityType
    <3>6. applied'[e] =< applied[e] + 1 /\ applied'[e] \in Nat /\ applied[e] \in Nat
      BY DEF QueueInv, QueueTypes
    <3> QED
      BY <2>2, <3>3, <3>5, <3>6, <1>1 DEF AttemptsInv, Accounted, QueueInv, QueueTypes
  <2> QED
    BY <2>1, <2>2 DEF QueueInv, QueueTypes
<1>4. Explained(f)'
  <2>1. applied[f] > 0 => applied'[f] > 0
    BY DEF QueueInv, QueueTypes
  <2>2. f = e /\ r = "ok" /\ e.type # "confirm" => applied'[f] > 0
    BY DEF QueueInv, QueueTypes
  <2>3. \A v \in Workers : \A o \in result'[v] :
          o \in result[v] \/ (o[1] = e /\ o[3] = r)
    BY <1>1
  <2> QED
    BY <2>1, <2>2, <2>3, <1>1 DEF AttemptsInv, Explained
<1> QED
  BY <1>3, <1>4

\* The n-th attempt is given up when n, and so the attempts of the row, reach
\* maxAttempts.
LEMMA RecordAttempts ==
  ASSUME QueueInv, AttemptsInv, NEW w \in Workers, Record(w)
  PROVE  AttemptsInv'
<1> SUFFICES ASSUME NEW f \in Updates PROVE Accounted(f)' /\ Explained(f)'
  BY DEF AttemptsInv
<1>1. PICK o \in result[w] : status' = [status EXCEPT ![o[1]] = Outcome(o[1], o[2], o[3])]
  BY DEF Record
<1>2. /\ result' = [result EXCEPT ![w] = {}]
      /\ UNCHANGED <<attempts, held, applied>>
  BY DEF Record, effectVars
<1>3. o[1] \in Updates /\ o[2] \in Nat /\ o[3] \in {"ok", "error"} /\ o[2] =< attempts[o[1]]
  BY DEF QueueInv, QueueTypes, CopiesYoung, Young
<1>4. Accounted(f)'
  BY <1>2 DEF AttemptsInv, Accounted, Holders
<1>5. \A v \in Workers : result'[v] \subseteq result[v]
  BY <1>2 DEF QueueInv, QueueTypes
<1>6. \/ status'[f] = status[f]
      \/ f = o[1] /\ o[3] = "ok" /\ status'[f] = "processed"
      \/ f = o[1] /\ o[2] >= MaxAttempts /\ status'[f] = "failed"
      \/ status'[f] = "pending"
  BY <1>1, <1>3, InboxAssumption DEF Outcome, QueueInv, QueueTypes
<1>7. o[1] = f /\ o[3] = "ok" /\ f.type # "confirm" => applied[f] > 0
  BY DEF AttemptsInv, Explained
<1>8. f = o[1] /\ o[2] >= MaxAttempts => attempts[f] >= MaxAttempts
  BY <1>3, InboxAssumption DEF QueueInv, QueueTypes
<1>9. Explained(f)'
  BY <1>2, <1>5, <1>6, <1>7, <1>8 DEF AttemptsInv, Explained
<1> QED
  BY <1>4, <1>9

\* A step that claims, dispatches and records nothing.
LEMMA OtherAttempts ==
  ASSUME QueueInv, AttemptsInv, UNCHANGED <<attempts, applied>>,
         \A w \in Workers : held'[w] \subseteq held[w] /\ result'[w] \subseteq result[w],
         \A e \in Updates : status'[e] = status[e] \/ status'[e] = "pending"
  PROVE  AttemptsInv'
<1> SUFFICES ASSUME NEW e \in Updates PROVE Accounted(e)' /\ Explained(e)'
  BY DEF AttemptsInv
<1>1. Holders(e)' \subseteq Holders(e)
  BY DEF Holders
<1>2. Accounted(e)'
  BY <1>1, FewerHolders DEF AttemptsInv, QueueInv
<1>3. Explained(e)'
  BY DEF AttemptsInv, Explained
<1> QED
  BY <1>2, <1>3

LEMMA AttemptsStep == QueueInv /\ AttemptsInv /\ [InboxNext]_inboxVars => AttemptsInv'
<1> SUFFICES ASSUME QueueInv, AttemptsInv, [InboxNext]_inboxVars PROVE AttemptsInv'
  OBVIOUS
<1>1. ASSUME NEW e \in Updates, IngestUpdate(e) \/ Tick(e) \/ LeaseRunsOut(e)
      PROVE  AttemptsInv'
  <2>1. /\ UNCHANGED <<attempts, applied, held, result>>
        /\ \A f \in Updates : status'[f] = status[f] \/ status'[f] = "pending"
    BY <1>1 DEF IngestUpdate, Stored, Tick, LeaseRunsOut, effectVars, QueueInv, QueueTypes
  <2> QED
    BY <2>1, OtherAttempts
<1>2. ASSUME NEW w \in Workers, RecordFails(w) \/ Stop(w)
      PROVE  AttemptsInv'
  <2>1. /\ UNCHANGED <<attempts, applied, status>>
        /\ held' = held \/ held' = [held EXCEPT ![w] = {}]
        /\ result' = [result EXCEPT ![w] = {}]
    BY <1>2 DEF RecordFails, Stop, queueVars, effectVars
  <2>2. \A v \in Workers : held'[v] \subseteq held[v] /\ result'[v] \subseteq result[v]
    BY <2>1 DEF QueueInv, QueueTypes
  <2> QED
    BY <2>1, <2>2, OtherAttempts
<1>3. ASSUME NEW w \in Workers, NEW p \in held[w],
             \/ Dispatch(w, p[1], p[2]) \/ DispatchFails(w, p[1], p[2])
             \/ ConfirmUnavailable(w, p[1], p[2])
      PROVE  AttemptsInv'
  <2>1. p[1] \in Updates /\ p[2] \in Nat
    BY DEF QueueInv, QueueTypes
  <2>2. /\ <<p[1], p[2]>> \in held[w] /\ result[w] = {} /\ UNCHANGED queueVars
        /\ \E r \in {"ok", "error"} :
             /\ Finish(w, p[1], p[2], r)
             /\ \/ applied' = [applied EXCEPT ![p[1]] = @ + 1]
                \/ applied' = applied /\ (r = "ok" => p[1].type = "confirm")
    BY <1>3 DEF Dispatch, DispatchFails, ConfirmUnavailable, Effect, effectVars
  <2> QED
    BY <2>1, <2>2, FinishAttempts
<1>4. ASSUME NEW w \in Workers, WorkerStep(w)
      PROVE  AttemptsInv'
  BY <1>4, <1>3, ClaimAttempts, RecordAttempts DEF WorkerStep
<1>5. CASE UNCHANGED inboxVars
  BY <1>5, OtherAttempts DEF inboxVars, queueVars, effectVars
<1> QED
  BY <1>1, <1>2, <1>4, <1>5 DEF InboxNext

\* An update that counts as processed had its effect, no oftener than it was
\* claimed; one given up was claimed MaxAttempts times.
THEOREM AttemptsExplainAlways == InboxSpec => []AttemptsExplainOutcome
<1>1. QueueInv /\ AttemptsInv => AttemptsExplainOutcome
  <2> SUFFICES ASSUME QueueInv, AttemptsInv, NEW e \in Updates
               PROVE  /\ status[e] = "processed" /\ e.type # "confirm" => applied[e] > 0
                      /\ applied[e] =< attempts[e]
                      /\ status[e] = "failed" => attempts[e] >= MaxAttempts
    BY DEF AttemptsExplainOutcome
  <2>1. Accounted(e) /\ Explained(e)
    BY DEF AttemptsInv
  <2>2. Cardinality(Holders(e)) \in Nat
    BY <2>1, FS_CardinalityType DEF Accounted
  <2>3. applied[e] =< attempts[e]
    BY <2>1, <2>2 DEF Accounted, QueueInv, QueueTypes
  <2> QED
    BY <2>1, <2>3 DEF Explained
<1> QED
  BY <1>1, QueueInvariant, AttemptsInit, AttemptsStep, PTL DEF InboxSpec

-----------------------------------------------------------------------------
(* The requests.  A handler asks and checks, then writes, then tells: at no  *)
(* point of it can a refusal follow the write (Ordered), so that what a      *)
(* request has been answered is decided by how far its call has come         *)
(* (JobTrue).  What Core has done for whom is in the history (HistoryTrue),  *)
(* and a notification repeats what is there (OutboxTrue).                    *)

Steps ==
  [step : {"ask", "write", "name", "notify"}]
    \cup [step : {"check"}, statuses : SUBSET Nat]
    \cup [step : {"respond"}, status : Nat]

Asking   == {"check", "ask"}
Telling  == {"name", "notify", "respond"}

Honest(step) ==
  /\ step.step = "check" => \A http \in step.statuses : Kind(http) \in {4, 5}
  /\ step.step = "respond" => Kind(step.status) = 2

Ordered(todo) ==
  /\ todo \in Seq(Steps)
  /\ \A n \in 1 .. Len(todo) : Honest(todo[n])
  /\ \A m, n \in 1 .. Len(todo) :
       m < n /\ todo[n].step \notin Telling => todo[m].step \in Asking
  /\ \A n \in 1 .. Len(todo) : todo[n].step # "respond" => n < Len(todo)

Writes(todo) == \E n \in 1 .. Len(todo) : todo[n].step = "write"
Quiet(todo)  == \A n \in 1 .. Len(todo) : todo[n].step # "notify"

\* The requests whose success is told to the group.
Notifying ==
  {"createExpense", "updateExpense", "confirmExpense", "createAdjustment", "createSettlement"}

\* A job, field by field.
WithTodo(job, todo) ==
  [todo |-> todo, intent |-> job.intent, call |-> job.call, event |-> job.event,
   to |-> job.to, answer |-> job.answer]

Known(i) ==
  /\ i.op \in {"updateExpense", "confirmExpense", "cancelExpense"} => i.id \in DOMAIN expenses
  /\ i.op = "confirmSettlement" => i.id \in DOMAIN settlements

JobWellFormed(job) ==
  /\ job = WithTodo(job, job.todo)
  /\ Ordered(job.todo)
  /\ job.intent \in Intents \cup {NoIntent}
  /\ job.call \in {"none", "sent", "done", "refused"}

\* How far the call is tells what the handler still has to do.
JobOnItsWay(job) ==
  /\ job.intent = NoIntent => job.call = "none" /\ Quiet(job.todo)
  /\ job.intent # NoIntent /\ job.intent.op \notin Notifying => Quiet(job.todo)
  /\ job.intent # NoIntent /\ job.todo # <<>> =>
       /\ job.call = "none" => Writes(job.todo)
       /\ job.call \in {"sent", "refused"} => Head(job.todo).step = "write"
       /\ job.call = "done" => Head(job.todo).step \notin Asking

AnswerTrue(job) ==
  /\ job.answer # 0 => job.todo = <<>>
  /\ job.intent # NoIntent =>
       /\ job.answer = 2 => job.call = "done"
       /\ job.answer = 4 => job.call \in {"none", "refused"}
  /\ job.call = "done" => Known(job.intent) /\ Recorded(job.intent)

Told(event) ==
  \E past \in committed :
    past.intent.op = event.intent.op /\ past.id = event.id /\ past.row = event.row

TellingTrue(job) ==
  /\ job.event # NoEvent =>
       /\ job.call = "done" /\ job.event.intent = job.intent
       /\ job.intent.op \in Notifying => Told(job.event)
  /\ job.call = "done" /\ job.todo # <<>> => job.event # NoEvent
  /\ job.to # {} =>
       /\ job.event # NoEvent /\ job.intent.op \in Notifying
       /\ job.to \subseteq members[job.event.row.group]

JobTrue(job) ==
  JobWellFormed(job) /\ JobOnItsWay(job) /\ AnswerTrue(job) /\ TellingTrue(job)

JobsTrue ==
  /\ load \in [Slots -> SUBSET Requests]
  /\ work = [s \in Slots |-> work[s]]
  /\ \A s \in Slots : JobTrue(work[s])

ExpenseShape(row) ==
  /\ row = [group |-> row.group, payer |-> row.payer, creator |-> row.creator,
            amount |-> row.amount, currency |-> row.currency,
            status |-> row.status, version |-> row.version]
  /\ row.group \in Groups /\ row.version \in Nat

SettlementShape(row) ==
  /\ row = [group |-> row.group, sender |-> row.sender, receiver |-> row.receiver,
            amount |-> row.amount, currency |-> row.currency,
            status |-> row.status, version |-> row.version]
  /\ row.group \in Groups

RecordsTrue ==
  /\ members \in [Groups -> SUBSET Users]
  /\ archived \subseteq Groups
  /\ expenses = [e \in DOMAIN expenses |-> expenses[e]]
  /\ \A e \in DOMAIN expenses : ExpenseShape(expenses[e])
  /\ settlements = [n \in DOMAIN settlements |-> settlements[n]]
  /\ \A n \in DOMAIN settlements : SettlementShape(settlements[n])
  /\ \A n \in DOMAIN adjustments : adjustments[n].group \in Groups

\* What an event says still shows in the records.
EventTrue(event) ==
  LET op == event.intent.op
  IN  /\ event.intent \in Intents
      /\ op \in Notifying => event.row.group \in Groups
      /\ op \in {"createExpense", "updateExpense", "confirmExpense", "cancelExpense"} =>
           event.id \in DOMAIN expenses
      /\ op = "updateExpense" =>
           /\ event.intent.version \in Nat
           /\ event.row.version = event.intent.version + 1
           /\ event.row.version <= expenses[event.id].version
      /\ op = "confirmExpense" =>
           expenses[event.id].status = "confirmed" /\ event.row = expenses[event.id]
      /\ op = "cancelExpense" => expenses[event.id].status = "cancelled"
      /\ op = "createAdjustment" => event.id \in DOMAIN adjustments
      /\ op \in {"createSettlement", "confirmSettlement"} => event.id \in DOMAIN settlements
      /\ op = "confirmSettlement" => settlements[event.id].status = "confirmed"

\* The requests about money: each of their events has a key of its own.
OnMoney == Notifying \cup {"cancelExpense", "confirmSettlement"}

HistoryTrue ==
  /\ \A event \in committed : EventTrue(event)
  /\ \A one, other \in committed :
       one.intent.op \in OnMoney /\ DedupeKey(one) = DedupeKey(other) => one = other
  /\ \A e \in DOMAIN expenses : expenses[e].status = "confirmed" =>
       \E event \in committed : event.intent.op = "confirmExpense" /\ event.id = e

OutboxTrue ==
  /\ outbox = [key \in DOMAIN outbox |-> outbox[key]]
  /\ \A key \in DOMAIN outbox :
       \E event \in committed :
         /\ event.intent.op \in Notifying /\ DedupeKey(event) = key[1]
         /\ outbox[key] = event.row /\ key[2] \in members[event.row.group]

RequestsInv == RecordsTrue /\ HistoryTrue /\ JobsTrue /\ OutboxTrue

-----------------------------------------------------------------------------
(* The answers *)

LEMMA Kinds ==
  /\ \A http \in Refusals : Kind(http) = 4
  /\ \A code \in Unknown : Kind(HTTPStatus(code)) = 5
  /\ \A http \in Errors : Kind(http) \in {4, 5}
<1>1. \A err \in DOMAIN ToGRPCError : ToGRPCError[err] \in
        {"InvalidArgument", "NotFound", "PermissionDenied", "Aborted", "FailedPrecondition"}
  BY DEF ToGRPCError
<1>2. \A code \in {"InvalidArgument", "NotFound", "PermissionDenied", "Aborted",
                   "FailedPrecondition"} : HTTPStatus(code) \in {400, 403, 404, 409}
  BY DEF HTTPStatus
<1>3. \A code \in Unknown : HTTPStatus(code) \in {500, 503, 504}
  BY DEF HTTPStatus, Unknown
<1>4. /\ Kind(400) = 4 /\ Kind(403) = 4 /\ Kind(404) = 4 /\ Kind(409) = 4
      /\ Kind(500) = 5 /\ Kind(503) = 5 /\ Kind(504) = 5
  BY DEF Kind
<1>5. \A http \in Refusals : Kind(http) = 4
  BY <1>1, <1>2, <1>4 DEF Refusals
<1>6. \A code \in Unknown : Kind(HTTPStatus(code)) = 5
  BY <1>3, <1>4
<1> QED
  BY <1>5, <1>6 DEF Errors

-----------------------------------------------------------------------------
(* The handlers *)

LEMMA StepShapes ==
  /\ \A statuses \in SUBSET Nat : Check(statuses) \in Steps
  /\ {Ask, Write, AskName, Notify} \subseteq Steps
  /\ \A http \in Nat : Respond(http) \in Steps
BY DEF Steps, Check, Ask, Write, AskName, Notify, Respond

Leads(step) == step \in Steps /\ step.step \in Asking /\ Honest(step)

LEMMA CheckLeads ==
  ASSUME NEW statuses \in SUBSET Nat, \A http \in statuses : Kind(http) \in {4, 5}
  PROVE  Leads(Check(statuses))
BY StepShapes DEF Leads, Check, Asking, Honest

LEMMA ChecksLead ==
  /\ Leads(Ask)
  /\ Leads(SessionAuth) /\ Leads(RateLimit) /\ Leads(UserID) /\ Leads(ParseID)
  /\ Leads(ParsePage) /\ Leads(DecodeJSON) /\ Leads(NotNil) /\ Leads(ParseInput)
  /\ Leads(ParseNamed) /\ Leads(ReadUpload) /\ Leads(ResourceIDs) /\ Leads(Configured)
  /\ Leads(Check({400})) /\ Leads(Check({401})) /\ Leads(Check({403})) /\ Leads(Check({404}))
  /\ Leads(Check({409})) /\ Leads(Check({502})) /\ Leads(Check({503}))
  /\ Leads(Check({409, 503}))
<1>1. /\ Kind(400) = 4 /\ Kind(401) = 4 /\ Kind(403) = 4 /\ Kind(404) = 4 /\ Kind(409) = 4
      /\ Kind(413) = 4 /\ Kind(429) = 4 /\ Kind(500) = 5 /\ Kind(502) = 5 /\ Kind(503) = 5
  BY DEF Kind
<1>2. Leads(Ask)
  BY StepShapes DEF Leads, Ask, Asking, Honest
<1> QED
  BY <1>1, <1>2, CheckLeads DEF SessionAuth, RateLimit, UserID, ParseID, ParsePage, DecodeJSON,
     NotNil, ParseInput, ParseNamed, ReadUpload, ResourceIDs, Configured

LEMMA Tails ==
  /\ \A http \in {200, 201, 204} :
       LET step == Respond(http)
       IN  step \in Steps /\ step.step = "respond" /\ Honest(step)
  /\ \A step \in {Ask, Write, AskName, Notify} : step \in Steps /\ Honest(step)
  /\ Ask.step = "ask" /\ Write.step = "write" /\ AskName.step = "name" /\ Notify.step = "notify"
<1>1. Kind(200) = 2 /\ Kind(201) = 2 /\ Kind(204) = 2
  BY DEF Kind
<1> QED
  BY <1>1, StepShapes DEF Respond, Ask, Write, AskName, Notify, Honest

\* The middleware in front of a handler only refuses: what is ordered stays ordered behind it.
LEMMA BehindTheMiddleware ==
  ASSUME NEW handler, Ordered(handler), handler # <<>>
  PROVE  Ordered(Protected(handler))
<1> DEFINE all == Protected(handler)
<1>1. /\ handler \in Seq(Steps) /\ Len(handler) \in Nat /\ handler # <<>>
      /\ SessionAuth \in Steps /\ RateLimit \in Steps
  BY ChecksLead DEF Ordered, Leads
<1>2. /\ all \in Seq(Steps) /\ Len(all) = 2 + Len(handler)
      /\ all[1] = SessionAuth /\ all[2] = RateLimit
      /\ \A m \in Int : 2 < m /\ m <= 2 + Len(handler) => all[m] = handler[m - 2]
  BY <1>1 DEF Protected
<1> HIDE DEF all
<1>3. /\ \A m \in 1 .. 2 : Leads(all[m])
      /\ \A m \in 1 .. Len(all) : m \in 1 .. 2 \/ (m - 2 \in 1 .. Len(handler) /\ all[m] = handler[m - 2])
  BY <1>1, <1>2, ChecksLead
<1>4. Ordered(all)
  <2>1. \A m \in 1 .. Len(all) : Honest(all[m])
    BY <1>3 DEF Ordered, Leads
  <2>2. ASSUME NEW k \in 1 .. Len(all), NEW m \in 1 .. Len(all), k < m,
               all[m].step \notin Telling
        PROVE  all[k].step \in Asking
    <3>1. CASE k \in 1 .. 2
      BY <3>1, <1>3 DEF Leads
    <3>2. CASE k \notin 1 .. 2
      <4>1. m \notin 1 .. 2 /\ k - 2 < m - 2
        BY <3>2, <2>2, <1>1, <1>2
      <4> QED
        BY <4>1, <3>2, <1>3, <2>2 DEF Ordered
    <3> QED
      BY <3>1, <3>2
  <2>3. ASSUME NEW m \in 1 .. Len(all), all[m].step # "respond"
        PROVE  m < Len(all)
    <3>1. Len(handler) > 0
      BY <1>1
    <3>2. CASE m \in 1 .. 2
      BY <3>1, <3>2, <1>1, <1>2
    <3>3. CASE m \notin 1 .. 2
      <4>1. m - 2 < Len(handler)
        BY <3>3, <2>3, <1>3 DEF Ordered
      <4> QED
        BY <4>1, <1>1, <1>2
    <3> QED
      BY <3>2, <3>3
  <2> QED
    BY <1>1, <1>2, <2>1, <2>2, <2>3 DEF Ordered
<1> QED
  BY <1>4 DEF all

\* Handlers that tell nobody, and those that write.
Plain(handler)   == Ordered(handler) /\ Quiet(handler)
Posting(handler) == Ordered(handler) /\ Writes(handler)

\* Every route of the Gateway: once it has written a handler refuses nothing, and only
\* the requests that notify their group ever do.
LEMMA RoutesOrdered ==
  ASSUME NEW route \in DOMAIN Route
  PROVE  /\ Ordered(Route[route])
         /\ route \in Writing => Writes(Route[route])
         /\ route \notin Notifying => Quiet(Route[route])
<1>1. /\ Plain(Protected(currentSession)) /\ Plain(Protected(createGroup))
      /\ Plain(Protected(getGroup))
  <2>1. Plain(Protected(currentSession))
    BY ChecksLead, Tails
    DEF Ordered, Leads, Asking, Telling, Plain, Quiet, Protected, currentSession
  <2>2. Plain(Protected(createGroup))
    BY ChecksLead, Tails
    DEF Ordered, Leads, Asking, Telling, Plain, Quiet, Protected, createGroup
  <2>3. Plain(Protected(getGroup))
    BY ChecksLead, Tails
    DEF Ordered, Leads, Asking, Telling, Plain, Quiet, Protected, Get, getGroup
  <2> QED
    BY <2>1, <2>2, <2>3
<1>2. Plain(Protected(getGroupBudgetSummary)) /\ Plain(Protected(listGroups))
  <2>1. Plain(Protected(getGroupBudgetSummary))
    BY ChecksLead, Tails
    DEF Ordered, Leads, Asking, Telling, Plain, Quiet, Protected, Get, getGroupBudgetSummary
  <2>2. Plain(Protected(listGroups))
    BY ChecksLead, Tails
    DEF Ordered, Leads, Asking, Telling, Plain, Quiet, Protected, Get, listGroups
  <2> QED
    BY <2>1, <2>2
<1>3. Plain(Protected(listGroupMembers)) /\ Plain(Protected(joinGroup))
  <2>1. Plain(Protected(listGroupMembers))
    BY ChecksLead, Tails
    DEF Ordered, Leads, Asking, Telling, Plain, Quiet, Protected, Get, listGroupMembers
  <2>2. Plain(Protected(joinGroup))
    BY ChecksLead, Tails
    DEF Ordered, Leads, Asking, Telling, Plain, Quiet, Protected, Post, joinGroup
  <2> QED
    BY <2>1, <2>2
<1>4. /\ Plain(Protected(addGroupMembers)) /\ Plain(Protected(updateMemberRole))
       /\ Plain(Protected(archiveGroup))
  <2>1. Plain(Protected(addGroupMembers))
    BY ChecksLead, Tails
    DEF Ordered, Leads, Asking, Telling, Plain, Quiet, Protected, Post, addGroupMembers
  <2>2. Plain(Protected(updateMemberRole))
    BY ChecksLead, Tails
    DEF Ordered, Leads, Asking, Telling, Plain, Quiet, Protected, Post, updateMemberRole
  <2>3. Plain(Protected(archiveGroup))
    BY ChecksLead, Tails
    DEF Ordered, Leads, Asking, Telling, Plain, Quiet, Protected, Post, archiveGroup
  <2> QED
    BY <2>1, <2>2, <2>3
<1>5. /\ Plain(Protected(createGroupInvite)) /\ Plain(Protected(getMaxSubscription))
      /\ Plain(Protected(connectMaxSubscription)) /\ Plain(Protected(disableMaxSubscription))
  <2>1. Plain(Protected(createGroupInvite))
    BY ChecksLead, Tails
    DEF Ordered, Leads, Asking, Telling, Plain, Quiet, Protected, createGroupInvite
  <2>2. Plain(Protected(getMaxSubscription))
    BY ChecksLead, Tails
    DEF Ordered, Leads, Asking, Telling, Plain, Quiet, Protected, getMaxSubscription
  <2>3. Plain(Protected(connectMaxSubscription))
    BY ChecksLead, Tails
    DEF Ordered, Leads, Asking, Telling, Plain, Quiet, Protected, connectMaxSubscription
  <2>4. Plain(Protected(disableMaxSubscription))
    BY ChecksLead, Tails
    DEF Ordered, Leads, Asking, Telling, Plain, Quiet, Protected, disableMaxSubscription
  <2> QED
    BY <2>1, <2>2, <2>3, <2>4
<1>6. /\ Plain(Protected(getExpense)) /\ Plain(Protected(listExpenses))
       /\ Plain(Protected(cancelExpense))
  <2>1. Plain(Protected(getExpense))
    BY ChecksLead, Tails
    DEF Ordered, Leads, Asking, Telling, Plain, Quiet, Protected, Get, getExpense
  <2>2. Plain(Protected(listExpenses))
    BY ChecksLead, Tails
    DEF Ordered, Leads, Asking, Telling, Plain, Quiet, Protected, Get, listExpenses
  <2>3. Plain(Protected(cancelExpense))
    BY ChecksLead, Tails
    DEF Ordered, Leads, Asking, Telling, Plain, Quiet, Protected, Post, cancelExpense
  <2> QED
    BY <2>1, <2>2, <2>3
<1>7. /\ Plain(Protected(confirmSettlement)) /\ Plain(Protected(listSettlements))
       /\ Plain(Protected(listAdjustments))
  <2>1. Plain(Protected(confirmSettlement))
    BY ChecksLead, Tails
    DEF Ordered, Leads, Asking, Telling, Plain, Quiet, Protected, Post, confirmSettlement
  <2>2. Plain(Protected(listSettlements))
    BY ChecksLead, Tails
    DEF Ordered, Leads, Asking, Telling, Plain, Quiet, Protected, Get, listSettlements
  <2>3. Plain(Protected(listAdjustments))
    BY ChecksLead, Tails
    DEF Ordered, Leads, Asking, Telling, Plain, Quiet, Protected, Get, listAdjustments
  <2> QED
    BY <2>1, <2>2, <2>3
<1>8. /\ Plain(Protected(getBalance)) /\ Plain(Protected(getBalanceBreakdown))
      /\ Plain(Protected(getSettlementPlan))
  <2>1. Plain(Protected(getBalance))
    BY ChecksLead, Tails
    DEF Ordered, Leads, Asking, Telling, Plain, Quiet, Protected, Get, getBalance
  <2>2. Plain(Protected(getBalanceBreakdown))
    BY ChecksLead, Tails
    DEF Ordered, Leads, Asking, Telling, Plain, Quiet, Protected, Get, getBalanceBreakdown
  <2>3. Plain(Protected(getSettlementPlan))
    BY ChecksLead, Tails
    DEF Ordered, Leads, Asking, Telling, Plain, Quiet, Protected, Get, getSettlementPlan
  <2> QED
    BY <2>1, <2>2, <2>3
<1>9. Plain(Uploads(createReceipt)) /\ Plain(Uploads(createReceiptFromQR))
  <2>1. Plain(Uploads(createReceipt))
    BY ChecksLead, Tails
    DEF Ordered, Leads, Asking, Telling, Plain, Quiet, Protected, Uploads, createReceipt
  <2>2. Plain(Uploads(createReceiptFromQR))
    BY ChecksLead, Tails
    DEF Ordered, Leads, Asking, Telling, Plain, Quiet, Protected, Uploads,
        createReceiptFromQR
  <2> QED
    BY <2>1, <2>2
<1>10. /\ Plain(Protected(getReceipt)) /\ Plain(Protected(getDocumentJob))
       /\ Plain(Protected(getOCRResult))
  <2>1. Plain(Protected(getReceipt))
    BY ChecksLead, Tails
    DEF Ordered, Leads, Asking, Telling, Plain, Quiet, Protected, Get, getReceipt
  <2>2. Plain(Protected(getDocumentJob))
    BY ChecksLead, Tails
    DEF Ordered, Leads, Asking, Telling, Plain, Quiet, Protected, Get, getDocumentJob
  <2>3. Plain(Protected(getOCRResult))
    BY ChecksLead, Tails
    DEF Ordered, Leads, Asking, Telling, Plain, Quiet, Protected, Get, getOCRResult
  <2> QED
    BY <2>1, <2>2, <2>3
<1>11. /\ Plain(Protected(retryReceiptOCR)) /\ Plain(Protected(deleteReceipt))
      /\ Plain(Protected(deleteReceiptOriginal))
  <2>1. Plain(Protected(retryReceiptOCR))
    BY ChecksLead, Tails
    DEF Ordered, Leads, Asking, Telling, Plain, Quiet, Protected, Post, retryReceiptOCR
  <2>2. Plain(Protected(deleteReceipt))
    BY ChecksLead, Tails
    DEF Ordered, Leads, Asking, Telling, Plain, Quiet, Protected, deleteReceipt
  <2>3. Plain(Protected(deleteReceiptOriginal))
    BY ChecksLead, Tails
    DEF Ordered, Leads, Asking, Telling, Plain, Quiet, Protected, deleteReceiptOriginal
  <2> QED
    BY <2>1, <2>2, <2>3
<1>12. Plain(Protected(createExport)) /\ Plain(Protected(getExport))
  <2>1. Plain(Protected(createExport))
    BY ChecksLead, Tails
    DEF Ordered, Leads, Asking, Telling, Plain, Quiet, Protected, createExport
  <2>2. Plain(Protected(getExport))
    BY ChecksLead, Tails
    DEF Ordered, Leads, Asking, Telling, Plain, Quiet, Protected, authorizedExport,
        getExport
  <2> QED
    BY <2>1, <2>2
<1>13. Plain(downloadExport) /\ Plain(Protected(sendExport))
  <2>1. Plain(downloadExport)
    BY ChecksLead, Tails
    DEF Ordered, Leads, Asking, Telling, Plain, Quiet, authorizedExport, downloadExport
  <2>2. Plain(Protected(sendExport))
    BY ChecksLead, Tails
    DEF Ordered, Leads, Asking, Telling, Plain, Quiet, Protected, authorizedExport,
        sendExport
  <2> QED
    BY <2>1, <2>2
<1>14. Plain(liveness) /\ Plain(readiness)
  <2>1. Plain(liveness)
    BY ChecksLead, Tails
    DEF Ordered, Leads, Asking, Telling, Plain, Quiet, liveness
  <2>2. Plain(readiness)
    BY ChecksLead, Tails
    DEF Ordered, Leads, Asking, Telling, Plain, Quiet, readiness
  <2> QED
    BY <2>1, <2>2
<1>15. Posting(Protected(createExpense)) /\ Posting(Protected(createSettlement))
  <2>1. Ordered(Protected(createExpense))
    <3>1. Ordered(createExpense) /\ createExpense # <<>>
      BY ChecksLead, Tails DEF Ordered, Leads, Asking, Telling, createExpense
    <3> QED
      BY <3>1, BehindTheMiddleware
  <2>2. Writes(Protected(createExpense))
    <3>1. Len(Protected(createExpense)) >= 8 /\ Protected(createExpense)[8] = Write
      BY DEF Protected, createExpense
    <3> QED
      BY <3>1, Tails DEF Writes
  <2>3. Ordered(Protected(createSettlement))
    <3>1. Ordered(createSettlement) /\ createSettlement # <<>>
      BY ChecksLead, Tails DEF Ordered, Leads, Asking, Telling, createSettlement
    <3> QED
      BY <3>1, BehindTheMiddleware
  <2>4. Writes(Protected(createSettlement))
    <3>1. Len(Protected(createSettlement)) >= 7 /\ Protected(createSettlement)[7] = Write
      BY DEF Protected, createSettlement
    <3> QED
      BY <3>1, Tails DEF Writes
  <2> QED
    BY <2>1, <2>2, <2>3, <2>4 DEF Posting
<1>16. /\ Posting(Protected(updateExpense)) /\ Posting(Protected(confirmExpense))
       /\ Posting(Protected(createAdjustment))
  <2>1. Ordered(Protected(updateExpense))
    <3>1. Ordered(updateExpense) /\ updateExpense # <<>>
      BY ChecksLead, Tails DEF Ordered, Leads, Asking, Telling, updateExpense
    <3> QED
      BY <3>1, BehindTheMiddleware
  <2>2. Writes(Protected(updateExpense))
    <3>1. Len(Protected(updateExpense)) >= 7 /\ Protected(updateExpense)[7] = Write
      BY DEF Protected, updateExpense
    <3> QED
      BY <3>1, Tails DEF Writes
  <2>3. Ordered(Protected(confirmExpense))
    <3>1. Ordered(confirmExpense) /\ confirmExpense # <<>>
      BY ChecksLead, Tails DEF Ordered, Leads, Asking, Telling, confirmExpense
    <3> QED
      BY <3>1, BehindTheMiddleware
  <2>4. Writes(Protected(confirmExpense))
    <3>1. Len(Protected(confirmExpense)) >= 4 /\ Protected(confirmExpense)[4] = Write
      BY DEF Protected, confirmExpense
    <3> QED
      BY <3>1, Tails DEF Writes
  <2>5. Ordered(Protected(createAdjustment))
    <3>1. Ordered(createAdjustment) /\ createAdjustment # <<>>
      BY ChecksLead, Tails DEF Ordered, Leads, Asking, Telling, createAdjustment
    <3> QED
      BY <3>1, BehindTheMiddleware
  <2>6. Writes(Protected(createAdjustment))
    <3>1. Len(Protected(createAdjustment)) >= 7 /\ Protected(createAdjustment)[7] = Write
      BY DEF Protected, createAdjustment
    <3> QED
      BY <3>1, Tails DEF Writes
  <2> QED
    BY <2>1, <2>2, <2>3, <2>4, <2>5, <2>6 DEF Posting
<1>17. Writes(Protected(createGroup))
  <2>1. Len(Protected(createGroup)) >= 5 /\ Protected(createGroup)[5] = Write
    BY DEF Protected, createGroup
  <2> QED
    BY <2>1, Tails DEF Writes
<1>18. Writes(Protected(joinGroup))
  <2>1. Len(Protected(joinGroup)) >= 6 /\ Protected(joinGroup)[6] = Write
    BY DEF Protected, Post, joinGroup
  <2> QED
    BY <2>1, Tails DEF Writes
<1>19. Writes(Protected(addGroupMembers))
  <2>1. Len(Protected(addGroupMembers)) >= 6 /\ Protected(addGroupMembers)[6] = Write
    BY DEF Protected, Post, addGroupMembers
  <2> QED
    BY <2>1, Tails DEF Writes
<1>20. Writes(Protected(archiveGroup))
  <2>1. Len(Protected(archiveGroup)) >= 5 /\ Protected(archiveGroup)[5] = Write
    BY DEF Protected, Post, archiveGroup
  <2> QED
    BY <2>1, Tails DEF Writes
<1>21. Writes(Protected(cancelExpense))
  <2>1. Len(Protected(cancelExpense)) >= 4 /\ Protected(cancelExpense)[4] = Write
    BY DEF Protected, Post, cancelExpense
  <2> QED
    BY <2>1, Tails DEF Writes
<1>22. Writes(Protected(confirmSettlement))
  <2>1. Len(Protected(confirmSettlement)) >= 5 /\ Protected(confirmSettlement)[5] = Write
    BY DEF Protected, Post, confirmSettlement
  <2> QED
    BY <2>1, Tails DEF Writes
<1>23. Plain(Route[route]) \/ (route \in Notifying /\ Posting(Route[route]))
  <2>1. CASE route \in Notifying
    BY <1>15, <1>16, <2>1 DEF Route, Notifying
  <2>2. CASE route \in
          {"currentSession", "createGroup", "getGroup", "getGroupBudgetSummary",
          "listGroups", "listGroupMembers", "joinGroup", "addGroupMembers",
          "updateMemberRole", "archiveGroup"}
    BY <1>1, <1>2, <1>3, <1>4, <2>2 DEF Route
  <2>3. CASE route \in
          {"createGroupInvite", "getMaxSubscription", "connectMaxSubscription",
          "disableMaxSubscription", "getExpense", "listExpenses",
          "cancelExpense", "confirmSettlement", "listSettlements",
          "listAdjustments", "getBalance", "getBalanceBreakdown",
          "getSettlementPlan"}
    BY <1>5, <1>6, <1>7, <1>8, <2>3 DEF Route
  <2>4. CASE route \in
          {"createReceipt", "createReceiptFromQR", "getReceipt",
          "getDocumentJob", "getOCRResult", "retryReceiptOCR", "deleteReceipt",
          "deleteReceiptOriginal"}
    BY <1>9, <1>10, <1>11, <2>4 DEF Route
  <2>5. CASE route \in
          {"createExport", "getExport", "downloadExport", "sendExport",
          "liveness", "readiness"}
    BY <1>12, <1>13, <1>14, <2>5 DEF Route
  <2> QED
    BY <2>1, <2>2, <2>3, <2>4, <2>5 DEF Route, Notifying
<1>24. route \in Writing => Writes(Route[route])
  BY <1>15, <1>16, <1>17, <1>18, <1>19, <1>20, <1>21, <1>22 DEF Route, Writing, Posting
<1> QED
  BY <1>23, <1>24 DEF Plain, Posting

-----------------------------------------------------------------------------
(* What Core's step does for a request *)

LEMMA IntentShape ==
  ASSUME NEW i \in Intents
  PROVE  /\ i # NoIntent /\ i.op \in Writing
         /\ i.op \in {"createExpense", "updateExpense"} => i.input \in ExpenseInputs
         /\ i.op = "createSettlement" => i.input \in SettlementInputs
         /\ i.op = "updateExpense" => i.version \in Nat
         /\ i.op \in {"createGroup", "joinGroup", "addGroupMembers", "archiveGroup"} =>
              i.group \in Groups
         /\ i.op \in {"createGroup", "joinGroup"} => i.actor \in Users
         /\ i.op = "addGroupMembers" => i.users \in SUBSET Users
BY DEF Intents, NoIntent, Writing

\* Money and members are only added to, and an expense that is no longer pending
\* stays as it is.
Grow ==
  /\ \A g \in Groups : members[g] \subseteq members'[g]
  /\ archived \subseteq archived'
  /\ \A e \in DOMAIN expenses :
       /\ e \in DOMAIN expenses'
       /\ \/ expenses'[e] = expenses[e]
          \/ /\ expenses[e].status = "pending"
             /\ expenses'[e].version = expenses[e].version + 1
  /\ \A n \in DOMAIN settlements :
       /\ n \in DOMAIN settlements'
       /\ settlements[n].status = "confirmed" => settlements'[n].status = "confirmed"
  /\ DOMAIN adjustments \subseteq DOMAIN adjustments'
  /\ committed \subseteq committed'

LEMMA Stand ==
  ASSUME UNCHANGED records, UNCHANGED committed
  PROVE  Grow
BY DEF Grow, records

LEMMA RecordedCases ==
  ASSUME NEW i
  PROVE  /\ i.op = "updateExpense" => (Recorded(i) <=> expenses[i.id].version > i.version)
         /\ i.op = "confirmExpense" => (Recorded(i) <=> expenses[i.id].status = "confirmed")
         /\ i.op = "cancelExpense" => (Recorded(i) <=> expenses[i.id].status = "cancelled")
         /\ i.op = "confirmSettlement" =>
              (Recorded(i) <=> settlements[i.id].status = "confirmed")
         /\ i.op = "archiveGroup" => (Recorded(i) <=> i.group \in archived)
         /\ i.op \in {"createGroup", "joinGroup"} =>
              (Recorded(i) <=> i.actor \in members[i.group])
         /\ i.op = "addGroupMembers" => (Recorded(i) <=> i.users \subseteq members[i.group])
         /\ i.op \in {"createExpense", "createAdjustment", "createSettlement"} =>
              (Recorded(i) <=> \E event \in committed :
                                 event.intent = i /\ event.id \in DOMAIN Rows[i.op])
BY DEF Recorded

LEMMA RowsOf ==
  /\ Rows["createExpense"] = expenses /\ Rows["updateExpense"] = expenses
  /\ Rows["confirmExpense"] = expenses /\ Rows["cancelExpense"] = expenses
  /\ Rows["createAdjustment"] = adjustments
  /\ Rows["createSettlement"] = settlements /\ Rows["confirmSettlement"] = settlements
BY DEF Rows

\* What a request asked for stays recorded.
LEMMA RecordedStays ==
  ASSUME RecordsTrue, Grow, NEW i \in Intents, Known(i), Recorded(i)
  PROVE  Known(i)' /\ Recorded(i)'
<1>1. Known(i)'
  BY DEF Known, Grow
<1>2. CASE i.op \in {"updateExpense", "confirmExpense", "cancelExpense"}
  <2>1. /\ i.id \in DOMAIN expenses
        /\ \/ expenses'[i.id] = expenses[i.id]
           \/ /\ expenses[i.id].status = "pending"
              /\ expenses'[i.id].version = expenses[i.id].version + 1
        /\ expenses[i.id].version \in Nat
    BY <1>2 DEF Known, Grow, RecordsTrue, ExpenseShape
  <2>2. CASE i.op = "updateExpense"
    <3>1. expenses'[i.id].version > i.version
      BY <2>1, <2>2, RecordedCases, IntentShape
    <3> QED
      BY <3>1, <2>2, <1>1 DEF Recorded
  <2>3. CASE i.op = "confirmExpense"
    <3>1. expenses'[i.id].status = "confirmed"
      BY <2>1, <2>3, RecordedCases
    <3> QED
      BY <3>1, <2>3, <1>1 DEF Recorded
  <2>4. CASE i.op = "cancelExpense"
    <3>1. expenses'[i.id].status = "cancelled"
      BY <2>1, <2>4, RecordedCases
    <3> QED
      BY <3>1, <2>4, <1>1 DEF Recorded
  <2> QED
    BY <1>2, <2>2, <2>3, <2>4
<1>3. CASE i.op = "confirmSettlement"
  <2>1. settlements'[i.id].status = "confirmed"
    BY <1>3, RecordedCases DEF Known, Grow
  <2> QED
    BY <2>1, <1>1, <1>3 DEF Recorded
<1>4. CASE i.op = "archiveGroup"
  <2>1. i.group \in archived'
    BY <1>4, RecordedCases DEF Grow
  <2> QED
    BY <2>1, <1>1, <1>4 DEF Recorded
<1>5. CASE i.op \in {"createGroup", "joinGroup"}
  <2>1. i.actor \in members'[i.group]
    BY <1>5, RecordedCases, IntentShape DEF Grow
  <2> QED
    BY <2>1, <1>1, <1>5 DEF Recorded
<1>6. CASE i.op = "addGroupMembers"
  <2>1. i.users \subseteq members'[i.group]
    BY <1>6, RecordedCases, IntentShape DEF Grow
  <2> QED
    BY <2>1, <1>1, <1>6 DEF Recorded
<1>7. CASE i.op \in {"createExpense", "createAdjustment", "createSettlement"}
  <2>1. PICK event \in committed : event.intent = i /\ event.id \in DOMAIN Rows[i.op]
    BY <1>7, RecordedCases
  <2>2. event \in committed' /\ event.id \in DOMAIN Rows'[i.op]
    BY <1>7, <2>1 DEF Grow, Rows
  <2>3. \E past \in committed' : past.intent = i /\ past.id \in DOMAIN Rows'[i.op]
    BY <2>1, <2>2
  <2> QED
    BY <2>3, <1>1, <1>7 DEF Recorded
<1> QED
  BY <1>2, <1>3, <1>4, <1>5, <1>6, <1>7, IntentShape DEF Writing

LEMMA EventKept ==
  ASSUME RecordsTrue, Grow, NEW event, EventTrue(event)
  PROVE  EventTrue(event)'
<1>1. CASE event.intent.op \in {"createExpense", "updateExpense", "confirmExpense",
                               "cancelExpense"}
  <2>1. /\ event.id \in DOMAIN expenses'
        /\ \/ expenses'[event.id] = expenses[event.id]
           \/ /\ expenses[event.id].status = "pending"
              /\ expenses'[event.id].version = expenses[event.id].version + 1
        /\ expenses[event.id].version \in Nat
    BY <1>1 DEF EventTrue, Grow, RecordsTrue, ExpenseShape
  <2> QED
    BY <1>1, <2>1 DEF EventTrue
<1>2. CASE event.intent.op \notin {"createExpense", "updateExpense", "confirmExpense",
                                  "cancelExpense"}
  BY <1>2 DEF EventTrue, Grow
<1> QED
  BY <1>1, <1>2

LEMMA ToldKept ==
  ASSUME Grow, NEW event, Told(event)
  PROVE  Told(event)'
BY DEF Grow, Told

LEMMA ToldGroup ==
  ASSUME HistoryTrue, NEW event, Told(event), event.intent.op \in Notifying
  PROVE  event.row.group \in Groups
BY DEF Told, HistoryTrue, EventTrue

LEMMA JobKept ==
  ASSUME RecordsTrue, HistoryTrue, Grow, NEW job, JobTrue(job)
  PROVE  JobTrue(job)'
<1>1. JobWellFormed(job)' /\ JobOnItsWay(job)'
  BY DEF JobTrue, JobWellFormed, JobOnItsWay, WithTodo, Ordered, Honest, Writes, Quiet
<1>2. AnswerTrue(job)'
  <2>1. job.call = "done" => job.intent \in Intents
    BY DEF JobTrue, JobWellFormed, JobOnItsWay
  <2> QED
    BY <2>1, RecordedStays DEF JobTrue, AnswerTrue
<1>3. TellingTrue(job)'
  <2>1. job.to # {} => job.event.row.group \in Groups
    BY ToldGroup DEF JobTrue, TellingTrue
  <2>2. job.to # {} => members[job.event.row.group] \subseteq members'[job.event.row.group]
    BY <2>1 DEF Grow
  <2>3. job.event # NoEvent /\ job.intent.op \in Notifying => Told(job.event)'
    BY ToldKept DEF JobTrue, TellingTrue
  <2> QED
    BY <2>2, <2>3 DEF JobTrue, TellingTrue
<1> QED
  BY <1>1, <1>2, <1>3 DEF JobTrue

\* A step of the Gateway alone, and one that changes the request in one slot.
LEMMA JobsKept ==
  ASSUME RecordsTrue, HistoryTrue, JobsTrue, Grow, UNCHANGED load,
         NEW s \in Slots, NEW job, JobTrue(job)', work' = [work EXCEPT ![s] = job]
  PROVE  JobsTrue'
<1>1. \A t \in Slots : work'[t] = IF t = s THEN job ELSE work[t]
  BY DEF JobsTrue
<1>2. work' = [t \in Slots |-> work'[t]]
  BY DEF JobsTrue
<1>3. ASSUME NEW t \in Slots
      PROVE  JobTrue(work[t])'
  <2>1. CASE t = s
    BY <1>1, <2>1
  <2>2. CASE t # s
    <3>1. PICK other : other = work[t]
      OBVIOUS
    <3>2. JobTrue(other)'
      BY <3>1, JobKept DEF JobsTrue
    <3>3. other = work'[t]
      BY <3>1, <1>1, <2>2
    <3> QED
      BY <3>2, <3>3
  <2> QED
    BY <2>1, <2>2
<1> QED
  BY <1>2, <1>3 DEF JobsTrue

LEMMA OutboxKept ==
  ASSUME RecordsTrue, HistoryTrue, OutboxTrue, Grow, UNCHANGED outbox
  PROVE  OutboxTrue'
<1>1. ASSUME NEW key \in DOMAIN outbox
      PROVE  \E event \in committed' :
               /\ event.intent.op \in Notifying /\ DedupeKey(event) = key[1]
               /\ outbox[key] = event.row /\ key[2] \in members'[event.row.group]
  <2>1. PICK event \in committed :
          /\ event.intent.op \in Notifying /\ DedupeKey(event) = key[1]
          /\ outbox[key] = event.row /\ key[2] \in members[event.row.group]
    BY DEF OutboxTrue
  <2>2. event.row.group \in Groups
    BY <2>1 DEF HistoryTrue, EventTrue
  <2> QED
    BY <2>1, <2>2 DEF Grow
<1> QED
  BY <1>1 DEF OutboxTrue

-----------------------------------------------------------------------------
(* How a handler goes on *)

LEMMA Rest ==
  ASSUME NEW steps, Ordered(steps), NEW n \in 1 .. Len(steps)
  PROVE  LET rest == SubSeq(steps, n, Len(steps))
         IN  /\ Ordered(rest) /\ rest # <<>> /\ Head(rest) = steps[n]
             /\ Quiet(steps) => Quiet(rest)
             /\ Writes(steps) /\ (\A m \in 1 .. (n - 1) : steps[m].step = "check") =>
                  Writes(rest)
<1> DEFINE rest == SubSeq(steps, n, Len(steps))
<1>1. /\ Len(steps) \in Nat /\ \A m \in 1 .. Len(steps) : steps[m] \in Steps
      /\ n \in Int /\ 1 <= n /\ n <= Len(steps)
  BY DEF Ordered
<1>2. \A m \in n .. Len(steps) : steps[m] \in Steps
  BY <1>1
<1>3. /\ rest \in Seq(Steps) /\ Len(rest) = Len(steps) - n + 1
      /\ \A m \in 1 .. Len(steps) - n + 1 : rest[m] = steps[n + m - 1]
  BY <1>1, <1>2, SubSeqProperties
<1> HIDE DEF rest
<1>4. rest # <<>> /\ Head(rest) = steps[n]
  BY <1>1, <1>3
<1>5. ASSUME NEW m \in 1 .. Len(rest)
      PROVE  n + m - 1 \in 1 .. Len(steps) /\ rest[m] = steps[n + m - 1]
  <2>1. m \in Int /\ 1 <= m /\ m <= Len(steps) - n + 1
    BY <1>1, <1>3
  <2>2. n + m - 1 \in 1 .. Len(steps)
    BY <2>1, <1>1
  <2> QED
    BY <2>1, <2>2, <1>3
<1>6. Ordered(rest)
  <2>1. \A m \in 1 .. Len(rest) : Honest(rest[m])
    BY <1>5 DEF Ordered
  <2>2. ASSUME NEW k \in 1 .. Len(rest), NEW m \in 1 .. Len(rest), k < m,
               rest[m].step \notin Telling
        PROVE  rest[k].step \in Asking
    <3>1. n + k - 1 < n + m - 1
      BY <1>1, <2>2
    <3> QED
      BY <3>1, <1>5, <2>2 DEF Ordered
  <2>3. \A m \in 1 .. Len(rest) : rest[m].step # "respond" => m < Len(rest)
    <3>1. \A m \in 1 .. Len(rest) : n + m - 1 < Len(steps) => m < Len(rest)
      BY <1>1, <1>3
    <3> QED
      BY <1>5, <3>1 DEF Ordered
  <2> QED
    BY <1>3, <2>1, <2>2, <2>3 DEF Ordered
<1>7. Quiet(steps) => Quiet(rest)
  BY <1>5 DEF Quiet
<1>8. ASSUME Writes(steps), \A m \in 1 .. (n - 1) : steps[m].step = "check"
      PROVE  Writes(rest)
  <2>1. PICK m \in 1 .. Len(steps) : steps[m].step = "write"
    BY <1>8 DEF Writes
  <2>2. m >= n
    BY <1>1, <1>8, <2>1
  <2>3. m - n + 1 \in 1 .. Len(rest) /\ rest[m - n + 1] = steps[m]
    BY <1>1, <1>3, <2>2
  <2> QED
    BY <2>1, <2>3 DEF Writes
<1> QED
  BY <1>4, <1>6, <1>7, <1>8 DEF rest

LEMMA JobFields ==
  ASSUME NEW job, job = WithTodo(job, job.todo)
  PROVE  /\ \A todo : [job EXCEPT !.todo = todo] = WithTodo(job, todo)
         /\ \A http : Answered(job, http) =
              [todo |-> <<>>, intent |-> job.intent, call |-> job.call, event |-> NoEvent,
               to |-> {}, answer |-> Kind(http)]
<1> DEFINE with(todo, event, to, answer) ==
             [todo |-> todo, intent |-> job.intent, call |-> job.call, event |-> event,
              to |-> to, answer |-> answer]
<1>1. job = with(job.todo, job.event, job.to, job.answer)
  BY DEF WithTodo
<1>2. \A todo : [job EXCEPT !.todo = todo] = WithTodo(job, todo)
  BY <1>1 DEF WithTodo
<1>3. ASSUME NEW http
      PROVE  Answered(job, http) = with(<<>>, NoEvent, {}, Kind(http))
  <2>1. PICK r1 : r1 = [job EXCEPT !.todo = <<>>]
    OBVIOUS
  <2>2. PICK r2 : r2 = [r1 EXCEPT !.to = {}]
    OBVIOUS
  <2>3. PICK r3 : r3 = [r2 EXCEPT !.event = NoEvent]
    OBVIOUS
  <2>4. Answered(job, http) = [r3 EXCEPT !.answer = Kind(http)]
    BY <2>1, <2>2, <2>3 DEF Answered
  <2>5. r1 = with(<<>>, job.event, job.to, job.answer)
    BY <1>1, <2>1
  <2>6. r2 = with(<<>>, job.event, {}, job.answer)
    BY <2>5, <2>2
  <2>7. r3 = with(<<>>, NoEvent, {}, job.answer)
    BY <2>6, <2>3
  <2> QED
    BY <2>4, <2>7
<1> QED
  BY <1>2, <1>3

LEMMA Empty == Ordered(<<>>) /\ Quiet(<<>>)
BY DEF Ordered, Quiet

LEMMA AnsweredTrue ==
  ASSUME NEW job, JobTrue(job), NEW http,
         job.intent # NoIntent =>
           /\ Kind(http) = 2 => job.call = "done"
           /\ Kind(http) = 4 => job.call \in {"none", "refused"}
  PROVE  JobTrue(Answered(job, http))
<1> DEFINE next == [todo |-> <<>>, intent |-> job.intent, call |-> job.call,
                    event |-> NoEvent, to |-> {}, answer |-> Kind(http)]
<1>1. Answered(job, http) = next
  BY JobFields DEF JobTrue, JobWellFormed
<1>2. JobWellFormed(next)
  BY Empty DEF JobTrue, JobWellFormed, WithTodo
<1>3. JobOnItsWay(next)
  BY Empty DEF JobTrue, JobOnItsWay
<1>4. AnswerTrue(next)
  BY DEF JobTrue, AnswerTrue
<1>5. TellingTrue(next)
  BY DEF TellingTrue
<1> QED
  BY <1>1, <1>2, <1>3, <1>4, <1>5 DEF JobTrue

LEMMA OnwardTrue ==
  ASSUME NEW job, job = WithTodo(job, job.todo), NEW steps, JobTrue(WithTodo(job, steps)),
         NEW next \in Onward(job, steps)
  PROVE  JobTrue(next)
<1>1. PICK before : before = WithTodo(job, steps)
  OBVIOUS
<1>2. /\ JobTrue(before)
      /\ before = WithTodo(before, before.todo) /\ before.todo = steps
      /\ before.intent = job.intent /\ before.call = job.call /\ before.event = job.event
      /\ before.to = job.to /\ before.answer = job.answer
  BY <1>1 DEF WithTodo
<1>3. Ordered(steps) /\ DOMAIN steps = 1 .. Len(steps) /\ Len(steps) \in Nat
  BY <1>2 DEF JobTrue, JobWellFormed, Ordered
<1>4. CASE \E n \in 1 .. Len(steps) :
             /\ \A m \in 1 .. (n - 1) : steps[m].step = "check"
             /\ next = [job EXCEPT !.todo = SubSeq(steps, n, Len(steps))]
  <2>1. PICK n \in 1 .. Len(steps) :
             /\ \A m \in 1 .. (n - 1) : steps[m].step = "check"
             /\ next = [job EXCEPT !.todo = SubSeq(steps, n, Len(steps))]
    BY <1>4
  <2>2. PICK rest : rest = SubSeq(steps, n, Len(steps))
    OBVIOUS
  <2>3. /\ Ordered(rest) /\ rest # <<>> /\ Head(rest) = steps[n]
        /\ Quiet(steps) => Quiet(rest)
        /\ Writes(steps) => Writes(rest)
    BY <1>3, <2>1, <2>2, Rest
  <2>4. next = WithTodo(job, rest)
    BY <2>1, <2>2, JobFields
  <2>5. /\ next = WithTodo(next, next.todo) /\ next.todo = rest
        /\ next.intent = job.intent /\ next.call = job.call /\ next.event = job.event
        /\ next.to = job.to /\ next.answer = job.answer
    BY <2>4 DEF WithTodo
  <2>6. steps # <<>> /\ Head(steps) = steps[1]
    BY <1>3
  <2>7. steps[1].step # "check" => n = 1
    BY <1>3, <2>1
  <2>8. JobWellFormed(next)
    BY <1>2, <2>3, <2>5 DEF JobTrue, JobWellFormed
  <2>9. JobOnItsWay(next)
    BY <1>2, <2>3, <2>5, <2>6, <2>7 DEF JobTrue, JobOnItsWay, Asking
  <2>10. AnswerTrue(next)
    BY <1>2, <2>5, <2>6 DEF JobTrue, AnswerTrue
  <2>11. TellingTrue(next)
    BY <1>2, <2>5, <2>6 DEF JobTrue, TellingTrue
  <2> QED
    BY <2>8, <2>9, <2>10, <2>11 DEF JobTrue
<1>5. CASE \E n \in 1 .. Len(steps), http \in Nat :
             /\ \A m \in 1 .. n : steps[m].step = "check"
             /\ http \in steps[n].statuses
             /\ next = Answered(job, http)
  <2>1. PICK n \in 1 .. Len(steps), http \in Nat :
             /\ \A m \in 1 .. n : steps[m].step = "check"
             /\ http \in steps[n].statuses
             /\ next = Answered(job, http)
    BY <1>5
  <2>2. Kind(http) \in {4, 5}
    BY <1>3, <2>1 DEF Ordered, Honest
  <2>3. steps # <<>> /\ Head(steps).step = "check"
    BY <1>3, <2>1
  <2>4. Answered(job, http) = Answered(before, http)
    <3>1. Answered(job, http) =
            [todo |-> <<>>, intent |-> job.intent, call |-> job.call, event |-> NoEvent,
             to |-> {}, answer |-> Kind(http)]
      BY JobFields
    <3>2. Answered(before, http) =
            [todo |-> <<>>, intent |-> before.intent, call |-> before.call,
             event |-> NoEvent, to |-> {}, answer |-> Kind(http)]
      BY <1>2, JobFields
    <3> QED
      BY <1>2, <3>1, <3>2
  <2>5. job.intent # NoIntent => job.call \in {"none", "refused"}
    BY <1>2, <2>3 DEF JobTrue, JobWellFormed, JobOnItsWay, Asking
  <2> QED
    BY <1>2, <2>1, <2>2, <2>4, <2>5, AnsweredTrue
<1>6. ASSUME NEW n \in 1 .. Len(steps), \A m \in 1 .. n : steps[m].step = "check"
      PROVE  steps[n].statuses \subseteq Nat
  BY <1>3, <1>6 DEF Ordered, Steps
<1> QED
  BY <1>3, <1>4, <1>5, <1>6 DEF Onward

LEMMA Advance ==
  ASSUME NEW job, JobTrue(job), job.todo # <<>>,
         \/ Head(job.todo).step \in {"ask", "name", "notify"}
         \/ job.intent = NoIntent
         \/ job.call = "done"
  PROVE  JobTrue(WithTodo(job, Tail(job.todo)))
<1> DEFINE todo == job.todo
<1>1. PICK rest : rest = Tail(todo)
  OBVIOUS
<1>2. /\ Ordered(todo) /\ Len(todo) \in Nat /\ Len(todo) > 0 /\ Head(todo) = todo[1]
      /\ 1 \in 1 .. Len(todo)
  BY DEF JobTrue, JobWellFormed, Ordered
<1>3. /\ rest \in Seq(Steps) /\ Len(rest) = Len(todo) - 1
      /\ \A n \in 1 .. Len(rest) : n + 1 \in 1 .. Len(todo) /\ rest[n] = todo[n + 1]
  BY <1>1, <1>2, HeadTailProperties DEF Ordered
<1>4. Ordered(rest)
  <2>1. \A m, n \in 1 .. Len(rest) : m < n /\ rest[n].step \notin Telling =>
          rest[m].step \in Asking
    <3>1. \A m, n \in 1 .. Len(rest) : m < n => m + 1 < n + 1
      BY <1>2, <1>3
    <3> QED
      BY <1>2, <1>3, <3>1 DEF Ordered
  <2>2. \A n \in 1 .. Len(rest) : rest[n].step # "respond" => n < Len(rest)
    <3>1. \A n \in 1 .. Len(rest) : n + 1 < Len(todo) => n < Len(rest)
      BY <1>2, <1>3
    <3> QED
      BY <1>2, <1>3, <3>1 DEF Ordered
  <2> QED
    BY <1>2, <1>3, <2>1, <2>2 DEF Ordered
<1>5. Quiet(todo) => Quiet(rest)
  BY <1>3 DEF Quiet
<1>6. ASSUME Writes(todo), Head(todo).step # "write"
      PROVE  Writes(rest)
  <2>1. PICK n \in 1 .. Len(todo) : todo[n].step = "write"
    BY <1>6 DEF Writes
  <2>2. n - 1 \in 1 .. Len(rest) /\ rest[n - 1] = todo[n]
    BY <1>2, <1>3, <1>6, <2>1
  <2> QED
    BY <2>1, <2>2 DEF Writes
<1>7. ASSUME rest # <<>>, Head(todo).step \notin Asking
      PROVE  Head(rest).step \notin Asking
  <2>1. Head(rest) = todo[2] /\ 2 \in 1 .. Len(todo)
    BY <1>2, <1>3, <1>7
  <2> QED
    BY <1>2, <1>7, <2>1 DEF Ordered, Asking, Telling
<1> DEFINE next == WithTodo(job, rest)
<1>8. /\ next = WithTodo(next, next.todo) /\ next.todo = rest
      /\ next.intent = job.intent /\ next.call = job.call /\ next.event = job.event
      /\ next.to = job.to /\ next.answer = job.answer
  BY DEF WithTodo
<1> HIDE DEF next, todo
<1>9. JobWellFormed(next)
  BY <1>4, <1>8 DEF JobTrue, JobWellFormed
<1>10. JobOnItsWay(next)
  BY <1>5, <1>6, <1>7, <1>8 DEF JobTrue, JobWellFormed, JobOnItsWay, todo
<1>11. AnswerTrue(next)
  BY <1>8 DEF JobTrue, AnswerTrue
<1>12. TellingTrue(next)
  BY <1>8 DEF JobTrue, TellingTrue
<1> QED
  BY <1>1, <1>9, <1>10, <1>11, <1>12 DEF JobTrue, next, todo

-----------------------------------------------------------------------------
(* What each operation of Core leaves behind *)

LEMMA SettledRow ==
  ASSUME NEW row, NEW target
  PROVE  /\ ExpenseShape(row) =>
              Settled(row, target) =
                [group |-> row.group, payer |-> row.payer, creator |-> row.creator,
                 amount |-> row.amount, currency |-> row.currency,
                 status |-> target, version |-> row.version + 1]
         /\ SettlementShape(row) =>
              Settled(row, target) =
                [group |-> row.group, sender |-> row.sender, receiver |-> row.receiver,
                 amount |-> row.amount, currency |-> row.currency,
                 status |-> target, version |-> row.version + 1]
<1>1. PICK r1 : r1 = [row EXCEPT !.status = target]
  OBVIOUS
<1>2. Settled(row, target) = [r1 EXCEPT !.version = @ + 1]
  BY <1>1 DEF Settled
<1>3. ASSUME ExpenseShape(row)
      PROVE  Settled(row, target) =
               [group |-> row.group, payer |-> row.payer, creator |-> row.creator,
                amount |-> row.amount, currency |-> row.currency,
                status |-> target, version |-> row.version + 1]
  <2> DEFINE with(st, version) ==
               [group |-> row.group, payer |-> row.payer, creator |-> row.creator,
                amount |-> row.amount, currency |-> row.currency,
                status |-> st, version |-> version]
  <2>1. row = with(row.status, row.version)
    BY <1>3 DEF ExpenseShape
  <2>2. r1 = with(target, row.version)
    BY <1>1, <2>1
  <2>3. [r1 EXCEPT !.version = @ + 1] = with(target, row.version + 1)
    BY <2>2
  <2> QED
    BY <1>2, <2>3
<1>4. ASSUME SettlementShape(row)
      PROVE  Settled(row, target) =
               [group |-> row.group, sender |-> row.sender, receiver |-> row.receiver,
                amount |-> row.amount, currency |-> row.currency,
                status |-> target, version |-> row.version + 1]
  <2> DEFINE with(st, version) ==
               [group |-> row.group, sender |-> row.sender, receiver |-> row.receiver,
                amount |-> row.amount, currency |-> row.currency,
                status |-> st, version |-> version]
  <2>1. row = with(row.status, row.version)
    BY <1>4 DEF SettlementShape
  <2>2. r1 = with(target, row.version)
    BY <1>1, <2>1
  <2>3. [r1 EXCEPT !.version = @ + 1] = with(target, row.version + 1)
    BY <2>2
  <2> QED
    BY <1>2, <2>3
<1> QED
  BY <1>3, <1>4

LEMMA ReplacedRow ==
  ASSUME NEW row, ExpenseShape(row), NEW input
  PROVE  Replaced(row, input) =
           [group |-> row.group, payer |-> input.payer, creator |-> row.creator,
            amount |-> input.amount, currency |-> input.currency,
            status |-> row.status, version |-> row.version + 1]
<1> DEFINE with(payer, amount, currency, version) ==
             [group |-> row.group, payer |-> payer, creator |-> row.creator,
              amount |-> amount, currency |-> currency, status |-> row.status,
              version |-> version]
<1>1. PICK r1 : r1 = [row EXCEPT !.payer = input.payer]
  OBVIOUS
<1>2. PICK r2 : r2 = [r1 EXCEPT !.amount = input.amount]
  OBVIOUS
<1>3. PICK r3 : r3 = [r2 EXCEPT !.currency = input.currency]
  OBVIOUS
<1>4. Replaced(row, input) = [r3 EXCEPT !.version = @ + 1]
  BY <1>1, <1>2, <1>3 DEF Replaced
<1>5. row = with(row.payer, row.amount, row.currency, row.version)
  BY DEF ExpenseShape
<1>6. r1 = with(input.payer, row.amount, row.currency, row.version)
  BY <1>1, <1>5
<1>7. r2 = with(input.payer, input.amount, row.currency, row.version)
  BY <1>2, <1>6
<1>8. r3 = with(input.payer, input.amount, input.currency, row.version)
  BY <1>3, <1>7
<1> QED
  BY <1>4, <1>8

LEMMA CreateExpenseGrows ==
  ASSUME RecordsTrue, committed \subseteq committed', NEW e, NEW actor,
         NEW input \in ExpenseInputs, CreateExpense(e, actor, input)
  PROVE  /\ RecordsTrue' /\ Grow /\ e \notin DOMAIN expenses
         /\ e \in DOMAIN expenses' /\ expenses'[e].group \in Groups
         /\ expenses'[e].status = "pending"
         /\ \A n \in DOMAIN expenses : expenses'[n] = expenses[n]
         /\ DOMAIN expenses' = DOMAIN expenses \cup {e}
<1> DEFINE row == [group |-> input.group, payer |-> input.payer, creator |-> actor,
                   amount |-> input.amount, currency |-> input.currency,
                   status |-> "pending", version |-> 1]
<1>1. /\ e \notin DOMAIN expenses /\ expenses' = Put(expenses, e, row)
      /\ UNCHANGED <<members, archived, settlements, adjustments>>
  BY DEF CreateExpense
<1>2. ExpenseShape(row) /\ row.status = "pending"
  BY RequestsAssumption DEF ExpenseShape
<1> HIDE DEF row
<1>3. /\ DOMAIN expenses' = DOMAIN expenses \cup {e} /\ expenses'[e] = row
      /\ \A n \in DOMAIN expenses : expenses'[n] = expenses[n]
      /\ expenses' = [n \in DOMAIN expenses' |-> expenses'[n]]
  BY <1>1 DEF Put
<1>4. RecordsTrue'
  BY <1>1, <1>2, <1>3 DEF RecordsTrue, ExpenseShape, SettlementShape
<1>5. Grow
  BY <1>1, <1>3 DEF Grow
<1> QED
  BY <1>1, <1>2, <1>3, <1>4, <1>5 DEF ExpenseShape

\* Writing a row of the expenses that is one version further.
LEMMA RewriteGrows ==
  ASSUME RecordsTrue, committed \subseteq committed', NEW e \in DOMAIN expenses, NEW row,
         ExpenseShape(row), expenses' = [expenses EXCEPT ![e] = row],
         expenses[e].status = "pending", row.version = expenses[e].version + 1,
         UNCHANGED <<members, archived, settlements, adjustments>>
  PROVE  RecordsTrue' /\ Grow
<1>1. /\ DOMAIN expenses' = DOMAIN expenses /\ expenses'[e] = row
      /\ \A n \in DOMAIN expenses : n # e => expenses'[n] = expenses[n]
      /\ expenses' = [n \in DOMAIN expenses' |-> expenses'[n]]
  BY DEF RecordsTrue
<1>2. RecordsTrue'
  BY <1>1 DEF RecordsTrue, ExpenseShape, SettlementShape
<1>3. Grow
  BY <1>1 DEF Grow
<1> QED
  BY <1>2, <1>3

LEMMA UpdateGrows ==
  ASSUME RecordsTrue, committed \subseteq committed', NEW e, NEW actor, NEW version,
         NEW input, UpdateExpense(e, actor, version, input)
  PROVE  /\ RecordsTrue' /\ Grow /\ e \in DOMAIN expenses
         /\ expenses[e].version = version
         /\ expenses'[e].version = version + 1 /\ expenses'[e].group \in Groups
         /\ expenses'[e].status = "pending"
         /\ \A n \in DOMAIN expenses' : n # e => n \in DOMAIN expenses /\ expenses'[n] = expenses[n]
<1>1. PICK row : row = Replaced(expenses[e], input)
  OBVIOUS
<1>2. /\ e \in DOMAIN expenses /\ expenses[e].status = "pending"
      /\ expenses[e].version = version /\ expenses' = [expenses EXCEPT ![e] = row]
      /\ UNCHANGED <<members, archived, settlements, adjustments>>
  BY <1>1 DEF UpdateExpense, Replaceable
<1>3. ExpenseShape(expenses[e])
  BY <1>2 DEF RecordsTrue
<1>4. row = [group |-> expenses[e].group, payer |-> input.payer,
             creator |-> expenses[e].creator, amount |-> input.amount,
             currency |-> input.currency, status |-> expenses[e].status,
             version |-> expenses[e].version + 1]
  BY <1>1, <1>3, ReplacedRow
<1>5. ExpenseShape(row) /\ row.version = version + 1 /\ row.status = "pending"
  BY <1>2, <1>3, <1>4 DEF ExpenseShape
<1>6. /\ expenses'[e] = row
      /\ \A n \in DOMAIN expenses' : n # e => n \in DOMAIN expenses /\ expenses'[n] = expenses[n]
  BY <1>2 DEF RecordsTrue
<1> QED
  BY <1>2, <1>5, <1>6, RewriteGrows DEF ExpenseShape

LEMMA SetStatusGrows ==
  ASSUME RecordsTrue, committed \subseteq committed', NEW e, NEW actor, NEW target,
         SetStatus(e, actor, target)
  PROVE  /\ RecordsTrue' /\ Grow /\ e \in DOMAIN expenses
         /\ expenses[e].status = "pending"
         /\ expenses'[e].status = target /\ expenses'[e].group \in Groups
         /\ \A n \in DOMAIN expenses' : n # e => n \in DOMAIN expenses /\ expenses'[n] = expenses[n]
<1>1. PICK row : row = Settled(expenses[e], target)
  OBVIOUS
<1>2. /\ e \in DOMAIN expenses /\ expenses[e].status = "pending"
      /\ expenses' = [expenses EXCEPT ![e] = row]
      /\ UNCHANGED <<members, archived, settlements, adjustments>>
  BY <1>1 DEF SetStatus
<1>3. ExpenseShape(expenses[e])
  BY <1>2 DEF RecordsTrue
<1>4. row = [group |-> expenses[e].group, payer |-> expenses[e].payer,
             creator |-> expenses[e].creator, amount |-> expenses[e].amount,
             currency |-> expenses[e].currency, status |-> target,
             version |-> expenses[e].version + 1]
  BY <1>1, <1>3, SettledRow
<1>5. /\ ExpenseShape(row) /\ row.version = expenses[e].version + 1
      /\ row.status = target
  BY <1>3, <1>4 DEF ExpenseShape
<1>6. /\ expenses'[e] = row
      /\ \A n \in DOMAIN expenses' : n # e => n \in DOMAIN expenses /\ expenses'[n] = expenses[n]
  BY <1>2 DEF RecordsTrue
<1> QED
  BY <1>2, <1>5, <1>6, RewriteGrows DEF ExpenseShape

LEMMA CreateAdjustmentGrows ==
  ASSUME RecordsTrue, committed \subseteq committed', NEW a, NEW e, NEW actor, NEW input,
         CreateAdjustment(a, e, actor, input)
  PROVE  /\ RecordsTrue' /\ Grow /\ a \notin DOMAIN adjustments
         /\ a \in DOMAIN adjustments' /\ adjustments'[a].group \in Groups
<1> DEFINE row == [group |-> expenses[e].group, expense |-> e, type |-> input.type,
                   amount |-> input.amount, currency |-> input.currency, creator |-> actor,
                   alloc |-> input.alloc]
<1>1. /\ a \notin DOMAIN adjustments /\ e \in DOMAIN expenses
      /\ adjustments' = Put(adjustments, a, row)
      /\ UNCHANGED <<members, archived, expenses, settlements>>
  BY DEF CreateAdjustment
<1>2. row.group \in Groups
  BY <1>1 DEF RecordsTrue, ExpenseShape
<1> HIDE DEF row
<1>3. /\ DOMAIN adjustments' = DOMAIN adjustments \cup {a} /\ adjustments'[a] = row
      /\ \A n \in DOMAIN adjustments : adjustments'[n] = adjustments[n]
  BY <1>1 DEF Put
<1>4. RecordsTrue'
  BY <1>1, <1>2, <1>3 DEF RecordsTrue, ExpenseShape, SettlementShape
<1>5. Grow
  BY <1>1, <1>3 DEF Grow
<1> QED
  BY <1>1, <1>2, <1>3, <1>4, <1>5

LEMMA CreateSettlementGrows ==
  ASSUME RecordsTrue, committed \subseteq committed', NEW n, NEW input \in SettlementInputs,
         CreateSettlement(n, input)
  PROVE  /\ RecordsTrue' /\ Grow /\ n \notin DOMAIN settlements
         /\ n \in DOMAIN settlements' /\ settlements'[n].group \in Groups
<1> DEFINE row == [group |-> input.group, sender |-> input.sender,
                   receiver |-> input.receiver, amount |-> input.amount,
                   currency |-> input.currency, status |-> "pending", version |-> 1]
<1>1. /\ n \notin DOMAIN settlements /\ settlements' = Put(settlements, n, row)
      /\ UNCHANGED <<members, archived, expenses, adjustments>>
  BY DEF CreateSettlement
<1>2. SettlementShape(row)
  BY RequestsAssumption DEF SettlementShape
<1> HIDE DEF row
<1>3. /\ DOMAIN settlements' = DOMAIN settlements \cup {n} /\ settlements'[n] = row
      /\ \A k \in DOMAIN settlements : settlements'[k] = settlements[k]
      /\ settlements' = [k \in DOMAIN settlements' |-> settlements'[k]]
  BY <1>1 DEF Put
<1>4. RecordsTrue'
  BY <1>1, <1>2, <1>3 DEF RecordsTrue, ExpenseShape, SettlementShape
<1>5. Grow
  BY <1>1, <1>3 DEF Grow
<1> QED
  BY <1>1, <1>2, <1>3, <1>4, <1>5 DEF SettlementShape

LEMMA ConfirmSettlementGrows ==
  ASSUME RecordsTrue, committed \subseteq committed', NEW n, NEW actor,
         ConfirmSettlement(n, actor)
  PROVE  /\ RecordsTrue' /\ Grow /\ n \in DOMAIN settlements
         /\ settlements[n].status = "pending" /\ settlements'[n].status = "confirmed"
<1>1. PICK row : row = Settled(settlements[n], "confirmed")
  OBVIOUS
<1>2. /\ n \in DOMAIN settlements /\ settlements[n].status = "pending"
      /\ settlements' = [settlements EXCEPT ![n] = row]
      /\ UNCHANGED <<members, archived, expenses, adjustments>>
  BY <1>1 DEF ConfirmSettlement
<1>3. SettlementShape(settlements[n])
  BY <1>2 DEF RecordsTrue
<1>4. SettlementShape(row) /\ row.status = "confirmed"
  BY <1>1, <1>3, SettledRow DEF SettlementShape
<1>5. /\ DOMAIN settlements' = DOMAIN settlements /\ settlements'[n] = row
      /\ \A k \in DOMAIN settlements : k # n => settlements'[k] = settlements[k]
      /\ settlements' = [k \in DOMAIN settlements' |-> settlements'[k]]
  BY <1>2 DEF RecordsTrue
<1>6. RecordsTrue'
  BY <1>2, <1>4, <1>5 DEF RecordsTrue, ExpenseShape, SettlementShape
<1>7. Grow
  BY <1>2, <1>4, <1>5 DEF Grow
<1> QED
  BY <1>2, <1>4, <1>5, <1>6, <1>7

LEMMA JoinGrows ==
  ASSUME RecordsTrue, committed \subseteq committed', NEW g \in Groups,
         NEW users \in SUBSET Users, Join(g, users)
  PROVE  RecordsTrue' /\ Grow /\ users \subseteq members'[g]
<1>1. /\ members' = [members EXCEPT ![g] = @ \cup users]
      /\ UNCHANGED <<archived, expenses, settlements, adjustments>>
  BY DEF Join
<1>2. /\ members' \in [Groups -> SUBSET Users] /\ users \subseteq members'[g]
      /\ \A h \in Groups : members[h] \subseteq members'[h]
  BY <1>1 DEF RecordsTrue
<1>3. RecordsTrue'
  BY <1>1, <1>2 DEF RecordsTrue, ExpenseShape, SettlementShape
<1>4. Grow
  BY <1>1, <1>2 DEF Grow
<1> QED
  BY <1>2, <1>3, <1>4

LEMMA ArchiveGrows ==
  ASSUME RecordsTrue, committed \subseteq committed', NEW g \in Groups, Archive(g)
  PROVE  RecordsTrue' /\ Grow /\ g \in archived'
BY DEF Archive, RecordsTrue, ExpenseShape, SettlementShape, Grow

-----------------------------------------------------------------------------
(* What is written for a request, and the history of it *)

LEMMA KeysTell ==
  ASSUME NEW one, NEW other, DedupeKey(one) = DedupeKey(other)
  PROVE  /\ one.intent.op = other.intent.op /\ one.id = other.id
         /\ one.intent.op = "updateExpense" => one.row.version = other.row.version
BY DEF DedupeKey

\* An event of Core that nothing in the history has told before.
Entered(i, id, event) ==
  /\ RecordsTrue' /\ Grow
  /\ EventTrue(event)'
  /\ i.op \in OnMoney => \A past \in committed : DedupeKey(past) # DedupeKey(event)
  /\ \A e \in DOMAIN expenses' : expenses'[e].status = "confirmed" =>
       \/ e \in DOMAIN expenses /\ expenses[e].status = "confirmed"
       \/ i.op = "confirmExpense" /\ e = id
  /\ Known(i)' /\ Recorded(i)'

LEMMA CreateEntered ==
  ASSUME RecordsTrue, HistoryTrue, NEW i \in Intents, NEW id, Carry(i, id), NEW event,
         event = [intent |-> i, id |-> id, row |-> Rows'[i.op][id]],
         committed' = committed \cup {event},
         i.op \in {"createExpense", "createAdjustment", "createSettlement"}
  PROVE  Entered(i, id, event)
<1>1. committed \subseteq committed' /\ event \in committed'
  OBVIOUS
<1>2. event.intent = i /\ event.id = id /\ event.row = Rows'[i.op][id]
  OBVIOUS
<1>3. Known(i)'
  BY DEF Known
<1>4. CASE i.op = "createExpense"
  <2>1. CreateExpense(id, i.actor, i.input) /\ i.input \in ExpenseInputs
    BY <1>4, IntentShape DEF Carry
  <2>2. /\ RecordsTrue' /\ Grow /\ id \notin DOMAIN expenses
        /\ id \in DOMAIN expenses' /\ expenses'[id].group \in Groups
        /\ expenses'[id].status = "pending"
        /\ \A n \in DOMAIN expenses : expenses'[n] = expenses[n]
        /\ DOMAIN expenses' = DOMAIN expenses \cup {id}
    BY <1>1, <2>1, CreateExpenseGrows
  <2>3. event.row = expenses'[id] /\ id \in DOMAIN Rows'[i.op]
    BY <1>2, <1>4, <2>2 DEF Rows
  <2>4. EventTrue(event)'
    BY <1>2, <1>4, <2>2, <2>3 DEF EventTrue
  <2>5. \A past \in committed : DedupeKey(past) # DedupeKey(event)
    BY <1>2, <1>4, <2>2, KeysTell DEF HistoryTrue, EventTrue
  <2>6. Recorded(i)'
    <3>1. \E past \in committed' : past.intent = i /\ past.id \in DOMAIN Rows'[i.op]
      BY <1>1, <1>2, <2>3
    <3> QED
      BY <3>1, <1>4 DEF Recorded
  <2> QED
    BY <1>3, <2>2, <2>4, <2>5, <2>6 DEF Entered
<1>5. CASE i.op = "createAdjustment"
  <2>1. CreateAdjustment(id, i.id, i.actor, i.input) /\ expenses' = expenses
    BY <1>5 DEF Carry, CreateAdjustment
  <2>2. /\ RecordsTrue' /\ Grow /\ id \notin DOMAIN adjustments
        /\ id \in DOMAIN adjustments' /\ adjustments'[id].group \in Groups
    BY <1>1, <2>1, CreateAdjustmentGrows
  <2>3. event.row = adjustments'[id] /\ id \in DOMAIN Rows'[i.op]
    BY <1>2, <1>5, <2>2 DEF Rows
  <2>4. EventTrue(event)'
    BY <1>2, <1>5, <2>2, <2>3 DEF EventTrue
  <2>5. \A past \in committed : DedupeKey(past) # DedupeKey(event)
    BY <1>2, <1>5, <2>2, KeysTell DEF HistoryTrue, EventTrue
  <2>6. Recorded(i)'
    <3>1. \E past \in committed' : past.intent = i /\ past.id \in DOMAIN Rows'[i.op]
      BY <1>1, <1>2, <2>3
    <3> QED
      BY <3>1, <1>5 DEF Recorded
  <2> QED
    BY <1>3, <2>1, <2>2, <2>4, <2>5, <2>6 DEF Entered
<1>6. CASE i.op = "createSettlement"
  <2>1. CreateSettlement(id, i.input) /\ i.input \in SettlementInputs /\ expenses' = expenses
    BY <1>6, IntentShape DEF Carry, CreateSettlement
  <2>2. /\ RecordsTrue' /\ Grow /\ id \notin DOMAIN settlements
        /\ id \in DOMAIN settlements' /\ settlements'[id].group \in Groups
    BY <1>1, <2>1, CreateSettlementGrows
  <2>3. event.row = settlements'[id] /\ id \in DOMAIN Rows'[i.op]
    BY <1>2, <1>6, <2>2 DEF Rows
  <2>4. EventTrue(event)'
    BY <1>2, <1>6, <2>2, <2>3 DEF EventTrue
  <2>5. \A past \in committed : DedupeKey(past) # DedupeKey(event)
    BY <1>2, <1>6, <2>2, KeysTell DEF HistoryTrue, EventTrue
  <2>6. Recorded(i)'
    <3>1. \E past \in committed' : past.intent = i /\ past.id \in DOMAIN Rows'[i.op]
      BY <1>1, <1>2, <2>3
    <3> QED
      BY <3>1, <1>6 DEF Recorded
  <2> QED
    BY <1>3, <2>1, <2>2, <2>4, <2>5, <2>6 DEF Entered
<1> QED
  BY <1>4, <1>5, <1>6

LEMMA ChangeEntered ==
  ASSUME RecordsTrue, HistoryTrue, NEW i \in Intents, NEW id, Carry(i, id), NEW event,
         event = [intent |-> i, id |-> id, row |-> Rows'[i.op][id]],
         committed' = committed \cup {event},
         i.op \in {"updateExpense", "confirmExpense", "cancelExpense", "confirmSettlement"}
  PROVE  Entered(i, id, event)
<1>1. committed \subseteq committed' /\ event \in committed'
  OBVIOUS
<1>2. event.intent = i /\ event.id = id /\ event.row = Rows'[i.op][id] /\ id = i.id
  BY DEF Carry
<1>3. CASE i.op = "updateExpense"
  <2>1. UpdateExpense(id, i.actor, i.version, i.input)
    BY <1>3 DEF Carry
  <2>2. /\ RecordsTrue' /\ Grow /\ id \in DOMAIN expenses /\ i.version \in Nat
        /\ expenses[id].version = i.version
        /\ expenses'[id].version = i.version + 1 /\ expenses'[id].group \in Groups
        /\ expenses'[id].status = "pending"
        /\ \A n \in DOMAIN expenses' : n # id => n \in DOMAIN expenses /\ expenses'[n] = expenses[n]
    BY <1>1, <1>3, <2>1, UpdateGrows, IntentShape
  <2>3. event.row = expenses'[id] /\ id \in DOMAIN expenses'
    BY <1>2, <1>3, <2>2 DEF Rows, Grow
  <2>4. EventTrue(event)'
    BY <1>2, <1>3, <2>2, <2>3 DEF EventTrue
  <2>5. \A past \in committed : DedupeKey(past) # DedupeKey(event)
    BY <1>2, <1>3, <2>2, <2>3, KeysTell DEF HistoryTrue, EventTrue
  <2>6. Known(i)'
    BY <1>2, <1>3, <2>3 DEF Known
  <2>7. expenses'[i.id].version > i.version
    BY <1>2, <2>2
  <2>8. Recorded(i)'
    BY <2>7, <1>3 DEF Recorded
  <2>9. \A e \in DOMAIN expenses' : expenses'[e].status = "confirmed" =>
          e \in DOMAIN expenses /\ expenses[e].status = "confirmed"
    BY <2>2
  <2> QED
    BY <2>2, <2>4, <2>5, <2>6, <2>8, <2>9 DEF Entered
<1>4. CASE i.op \in {"confirmExpense", "cancelExpense"}
  <2>1. PICK target \in {"confirmed", "cancelled"} :
          /\ SetStatus(id, i.actor, target)
          /\ target = "confirmed" <=> i.op = "confirmExpense"
    BY <1>4 DEF Carry
  <2>2. /\ RecordsTrue' /\ Grow /\ id \in DOMAIN expenses
        /\ expenses[id].status = "pending"
        /\ expenses'[id].status = target /\ expenses'[id].group \in Groups
        /\ \A n \in DOMAIN expenses' : n # id => n \in DOMAIN expenses /\ expenses'[n] = expenses[n]
    BY <1>1, <2>1, SetStatusGrows
  <2>3. event.row = expenses'[id] /\ id \in DOMAIN expenses'
    BY <1>2, <1>4, <2>2 DEF Rows, Grow
  <2>4. EventTrue(event)'
    BY <1>2, <1>4, <2>1, <2>2, <2>3 DEF EventTrue
  <2>5. \A past \in committed : DedupeKey(past) # DedupeKey(event)
    BY <1>2, <1>4, <2>2, KeysTell DEF HistoryTrue, EventTrue
  <2>6. Known(i)'
    BY <1>2, <1>4, <2>3 DEF Known
  <2>7. expenses'[i.id].status = target
    BY <1>2, <2>2
  <2>8. Recorded(i)'
    <3>1. CASE i.op = "confirmExpense"
      <4>1. expenses'[i.id].status = "confirmed"
        BY <2>1, <2>7, <3>1
      <4> QED
        BY <4>1, <3>1 DEF Recorded
    <3>2. CASE i.op = "cancelExpense"
      <4>1. expenses'[i.id].status = "cancelled"
        BY <2>1, <2>7, <3>2
      <4> QED
        BY <4>1, <3>2 DEF Recorded
    <3> QED
      BY <1>4, <3>1, <3>2
  <2>9. \A e \in DOMAIN expenses' : expenses'[e].status = "confirmed" =>
          \/ e \in DOMAIN expenses /\ expenses[e].status = "confirmed"
          \/ i.op = "confirmExpense" /\ e = id
    BY <2>1, <2>2
  <2> QED
    BY <2>2, <2>4, <2>5, <2>6, <2>8, <2>9 DEF Entered
<1>5. CASE i.op = "confirmSettlement"
  <2>1. ConfirmSettlement(id, i.actor) /\ expenses' = expenses
    BY <1>5 DEF Carry, ConfirmSettlement
  <2>2. /\ RecordsTrue' /\ Grow /\ id \in DOMAIN settlements
        /\ settlements[id].status = "pending" /\ settlements'[id].status = "confirmed"
    BY <1>1, <2>1, ConfirmSettlementGrows
  <2>3. id \in DOMAIN settlements'
    BY <2>2 DEF Grow
  <2>4. EventTrue(event)'
    BY <1>2, <1>5, <2>2, <2>3 DEF EventTrue, Notifying
  <2>5. \A past \in committed : DedupeKey(past) # DedupeKey(event)
    BY <1>2, <1>5, <2>2, KeysTell DEF HistoryTrue, EventTrue
  <2>6. Known(i)'
    BY <1>2, <1>5, <2>3 DEF Known
  <2>7. settlements'[i.id].status = "confirmed"
    BY <1>2, <2>2
  <2>8. Recorded(i)'
    BY <2>7, <1>5 DEF Recorded
  <2> QED
    BY <2>1, <2>2, <2>4, <2>5, <2>6, <2>8 DEF Entered
<1> QED
  BY <1>3, <1>4, <1>5

LEMMA GroupEntered ==
  ASSUME RecordsTrue, HistoryTrue, NEW i \in Intents, NEW id, Carry(i, id), NEW event,
         event = [intent |-> i, id |-> id, row |-> Rows'[i.op][id]],
         committed' = committed \cup {event},
         i.op \in {"createGroup", "joinGroup", "addGroupMembers", "archiveGroup"}
  PROVE  Entered(i, id, event)
<1>1. committed \subseteq committed' /\ event.intent = i
  OBVIOUS
<1>2. Known(i)'
  BY DEF Known
<1>3. id = i.group /\ id \in Groups
  BY IntentShape DEF Carry
<1>4. EventTrue(event)' /\ i.op \notin OnMoney
  BY <1>1 DEF EventTrue, Notifying, OnMoney
<1>5. CASE i.op = "archiveGroup"
  <2>1. Archive(id) /\ expenses' = expenses
    BY <1>5 DEF Carry, Archive
  <2>2. RecordsTrue' /\ Grow /\ i.group \in archived'
    BY <1>1, <1>3, <2>1, ArchiveGrows
  <2>3. Recorded(i)'
    BY <2>2, <1>5 DEF Recorded
  <2> QED
    BY <1>2, <1>4, <2>1, <2>2, <2>3 DEF Entered
<1>6. CASE i.op \in {"createGroup", "joinGroup"}
  <2>1. Join(id, {i.actor}) /\ {i.actor} \in SUBSET Users /\ expenses' = expenses
    BY <1>6, IntentShape DEF Carry, Join
  <2>2. RecordsTrue' /\ Grow /\ i.actor \in members'[i.group]
    BY <1>1, <1>3, <2>1, JoinGrows
  <2>3. Recorded(i)'
    BY <2>2, <1>6 DEF Recorded
  <2> QED
    BY <1>2, <1>4, <2>1, <2>2, <2>3 DEF Entered
<1>7. CASE i.op = "addGroupMembers"
  <2>1. Join(id, i.users) /\ i.users \in SUBSET Users /\ expenses' = expenses
    BY <1>7, IntentShape DEF Carry, Join
  <2>2. RecordsTrue' /\ Grow /\ i.users \subseteq members'[i.group]
    BY <1>1, <1>3, <2>1, JoinGrows
  <2>3. Recorded(i)'
    BY <2>2, <1>7 DEF Recorded
  <2> QED
    BY <1>2, <1>4, <2>1, <2>2, <2>3 DEF Entered
<1> QED
  BY <1>5, <1>6, <1>7

-----------------------------------------------------------------------------
(* The steps *)

LEMMA HistoryKept ==
  ASSUME RecordsTrue, HistoryTrue, UNCHANGED records, UNCHANGED committed
  PROVE  RecordsTrue' /\ HistoryTrue' /\ Grow
<1>1. Grow
  BY Stand
<1>2. \A event \in committed : EventTrue(event)'
  BY <1>1, EventKept DEF HistoryTrue
<1>3. RecordsTrue'
  BY DEF records, RecordsTrue, ExpenseShape, SettlementShape
<1> QED
  BY <1>1, <1>2, <1>3 DEF records, HistoryTrue

LEMMA HistoryGrown ==
  ASSUME RecordsTrue, HistoryTrue, NEW i \in Intents, NEW id, NEW event,
         event.intent = i, event.id = id,
         committed' = committed \cup {event}, Entered(i, id, event)
  PROVE  HistoryTrue'
<1>1. \A past \in committed' : EventTrue(past)'
  BY EventKept DEF HistoryTrue, Entered
<1>2. ASSUME NEW one \in committed', NEW other \in committed', one.intent.op \in OnMoney,
             DedupeKey(one) = DedupeKey(other)
      PROVE  one = other
  <2>1. one.intent.op = other.intent.op
    BY <1>2, KeysTell
  <2> QED
    BY <1>2, <2>1 DEF HistoryTrue, Entered
<1>3. ASSUME NEW e \in DOMAIN expenses', expenses'[e].status = "confirmed"
      PROVE  \E past \in committed' : past.intent.op = "confirmExpense" /\ past.id = e
  BY <1>3 DEF HistoryTrue, Entered
<1> QED
  BY <1>1, <1>2, <1>3 DEF HistoryTrue

\* A step of the Gateway that changes nothing but the request in one slot.
LEMMA SlotStep ==
  ASSUME RequestsInv, NEW s \in Slots, NEW job, JobTrue(job),
         work' = [work EXCEPT ![s] = job], UNCHANGED <<records, load, outbox, committed>>
  PROVE  RequestsInv'
<1>1. RecordsTrue' /\ HistoryTrue' /\ Grow
  BY HistoryKept DEF RequestsInv
<1>2. JobTrue(job)'
  BY <1>1, JobKept DEF RequestsInv
<1>3. JobsTrue'
  BY <1>1, <1>2, JobsKept DEF RequestsInv
<1>4. OutboxTrue'
  BY <1>1, OutboxKept DEF RequestsInv
<1> QED
  BY <1>1, <1>3, <1>4 DEF RequestsInv

LEMMA ContinueStep ==
  ASSUME RequestsInv, NEW s \in Slots, NEW job, JobTrue(job), job.todo # <<>>,
         \/ Head(job.todo).step \in {"ask", "name", "notify"}
         \/ job.intent = NoIntent
         \/ job.call = "done",
         Continue(s, job), UNCHANGED <<records, load, outbox, committed>>
  PROVE  RequestsInv'
<1>1. PICK next \in Onward(job, Tail(job.todo)) : work' = [work EXCEPT ![s] = next]
  BY DEF Continue
<1>2. JobTrue(next)
  BY Advance, OnwardTrue DEF JobTrue, JobWellFormed
<1> QED
  BY <1>1, <1>2, SlotStep

LEMMA AnswerStep ==
  ASSUME RequestsInv, NEW s \in Slots, NEW http, AnswerWith(s, http),
         work[s].intent # NoIntent =>
           /\ Kind(http) = 2 => work[s].call = "done"
           /\ Kind(http) = 4 => work[s].call \in {"none", "refused"},
         UNCHANGED <<records, load, outbox, committed>>
  PROVE  RequestsInv'
<1>1. PICK next : next = Answered(work[s], http)
  OBVIOUS
<1>2. JobTrue(next)
  BY <1>1, AnsweredTrue DEF RequestsInv, JobsTrue
<1>3. work' = [work EXCEPT ![s] = next]
  BY <1>1 DEF AnswerWith
<1> QED
  BY <1>2, <1>3, SlotStep

\* Where a handler is shows how far its call has come.
LEMMA Whereabouts ==
  ASSUME NEW job, JobTrue(job), job.todo # <<>>
  PROVE  /\ Head(job.todo).step \in {"ask", "check", "write", "name", "notify", "respond"}
         /\ job.intent # NoIntent /\ Head(job.todo).step \in Asking => job.call = "none"
         /\ job.intent # NoIntent /\ Head(job.todo).step \in Telling => job.call = "done"
         /\ Head(job.todo).step \in {"name", "notify"} => Tail(job.todo) # <<>>
         /\ Head(job.todo).step = "notify" =>
              job.intent # NoIntent /\ job.intent.op \in Notifying
         /\ Head(job.todo).step = "respond" => Kind(Head(job.todo).status) = 2
<1> DEFINE todo == job.todo
<1>1. /\ Ordered(todo) /\ Len(todo) \in Nat /\ 1 \in 1 .. Len(todo) /\ Head(todo) = todo[1]
      /\ todo[1] \in Steps
  BY DEF JobTrue, JobWellFormed, Ordered
<1>2. todo[1].step \in {"ask", "check", "write", "name", "notify", "respond"}
  BY <1>1 DEF Steps
<1>3. job.intent # NoIntent /\ todo[1].step \in Asking => job.call = "none"
  BY <1>1 DEF JobTrue, JobWellFormed, JobOnItsWay, Asking
<1>4. ASSUME job.intent # NoIntent, todo[1].step \in Telling
      PROVE  job.call = "done"
  <2>1. ~Writes(todo)
    <3>1. SUFFICES ASSUME NEW n \in 1 .. Len(todo), todo[n].step = "write"
                   PROVE  FALSE
      BY DEF Writes
    <3>2. n # 1
      BY <1>4, <3>1 DEF Telling
    <3>3. todo[1].step \in Asking
      BY <1>1, <3>1, <3>2 DEF Ordered, Telling
    <3> QED
      BY <1>4, <3>3 DEF Asking, Telling
  <2> QED
    BY <1>1, <1>4, <2>1 DEF JobTrue, JobWellFormed, JobOnItsWay, Telling
<1>5. ASSUME todo[1].step \in {"name", "notify"}
      PROVE  Tail(todo) # <<>>
  <2>1. 1 < Len(todo)
    BY <1>1, <1>5 DEF Ordered
  <2>2. PICK rest : rest = Tail(todo)
    OBVIOUS
  <2>3. rest \in Seq(Steps) /\ Len(rest) = Len(todo) - 1
    BY <1>1, <2>2, HeadTailProperties DEF Ordered
  <2>4. Len(rest) > 0
    BY <1>1, <2>1, <2>3
  <2>5. rest # <<>>
    BY <2>3, <2>4
  <2> QED
    BY <2>2, <2>5
<1>6. todo[1].step = "notify" => job.intent # NoIntent /\ job.intent.op \in Notifying
  BY <1>1 DEF JobTrue, JobOnItsWay, Quiet
<1>7. todo[1].step = "respond" => Kind(todo[1].status) = 2
  BY <1>1 DEF Ordered, Honest
<1> QED
  BY <1>1, <1>2, <1>3, <1>4, <1>5, <1>6, <1>7

LEMMA AtStep ==
  ASSUME RequestsInv, NEW s \in Slots
  PROVE  /\ JobTrue(work[s])
         /\ \A step : At(s, step) =>
              work[s].todo # <<>> /\ work[s].to = {} /\ Head(work[s].todo).step = step
BY DEF RequestsInv, JobsTrue, At, Busy

LEMMA ReceiveInv ==
  ASSUME RequestsInv, NEW s \in Slots, Receive(s)
  PROVE  RequestsInv'
<1>1. PICK request \in load[s] :
        \E job \in Onward([Free EXCEPT !.intent = request.intent], Route[request.route]) :
          work' = [work EXCEPT ![s] = job]
  BY DEF Receive
<1>2. PICK steps : steps = Route[request.route]
  OBVIOUS
<1>3. PICK blank : blank = [todo |-> <<>>, intent |-> request.intent, call |-> "none",
                            event |-> NoEvent, to |-> {}, answer |-> 0]
  OBVIOUS
<1>4. blank = [Free EXCEPT !.intent = request.intent]
  <2>1. PICK intent : intent = request.intent
    OBVIOUS
  <2>2. [Free EXCEPT !.intent = intent] =
          [todo |-> <<>>, intent |-> intent, call |-> "none", event |-> NoEvent,
           to |-> {}, answer |-> 0]
    BY DEF Free
  <2> QED
    BY <1>3, <2>1, <2>2
<1>5. /\ request.route \in DOMAIN Route /\ request.intent \in Intents \cup {NoIntent}
      /\ request.intent = NoIntent => request.route \notin Writing
      /\ request.intent # NoIntent => request.route = request.intent.op
  BY DEF RequestsInv, JobsTrue, Requests
<1>6. /\ Ordered(steps)
      /\ request.route \in Writing => Writes(steps)
      /\ request.route \notin Notifying => Quiet(steps)
  BY <1>2, <1>5, RoutesOrdered
<1>7. Notifying \subseteq Writing
  BY DEF Notifying, Writing
<1>8. PICK begun : begun = WithTodo(blank, steps)
  OBVIOUS
<1>9. begun = [todo |-> steps, intent |-> request.intent, call |-> "none",
               event |-> NoEvent, to |-> {}, answer |-> 0]
  BY <1>3, <1>8 DEF WithTodo
<1>10. JobTrue(begun)
  <2>1. JobWellFormed(begun)
    BY <1>5, <1>6, <1>9 DEF JobWellFormed, WithTodo
  <2>2. JobOnItsWay(begun)
    BY <1>5, <1>6, <1>7, <1>9, IntentShape DEF JobOnItsWay
  <2>3. AnswerTrue(begun) /\ TellingTrue(begun)
    BY <1>9 DEF AnswerTrue, TellingTrue
  <2> QED
    BY <2>1, <2>2, <2>3 DEF JobTrue
<1>11. PICK job \in Onward(blank, steps) : work' = [work EXCEPT ![s] = job]
  BY <1>1, <1>2, <1>4
<1>12. blank = WithTodo(blank, blank.todo)
  BY <1>3 DEF WithTodo
<1>13. JobTrue(job)
  BY <1>8, <1>10, <1>11, <1>12, OnwardTrue
<1> QED
  BY <1>11, <1>13, SlotStep DEF Receive

LEMMA PressInv ==
  ASSUME RequestsInv, NEW s \in Slots, Press(s)
  PROVE  RequestsInv'
<1>1. PICK i \in {request.intent : request \in load[s]} :
        /\ i.op = "confirmSettlement"
        /\ work' = [work EXCEPT ![s] = [Free EXCEPT !.intent = i, !.call = "sent"]]
  BY DEF Press
<1>2. i \in Intents /\ i # NoIntent
  <2>1. i \in Intents \cup {NoIntent}
    BY <1>1 DEF RequestsInv, JobsTrue, Requests
  <2>2. NoIntent.op # "confirmSettlement"
    BY DEF NoIntent
  <2> QED
    BY <1>1, <2>1, <2>2
<1>3. PICK job : job = [todo |-> <<>>, intent |-> i, call |-> "sent",
                        event |-> NoEvent, to |-> {}, answer |-> 0]
  OBVIOUS
<1>4. JobTrue(job)
  <2>1. JobWellFormed(job)
    BY <1>2, <1>3, Empty DEF JobWellFormed, WithTodo
  <2>2. JobOnItsWay(job)
    BY <1>2, <1>3, Empty DEF JobOnItsWay
  <2>3. AnswerTrue(job) /\ TellingTrue(job)
    BY <1>3 DEF AnswerTrue, TellingTrue
  <2> QED
    BY <2>1, <2>2, <2>3 DEF JobTrue
<1>5. work' = [work EXCEPT ![s] = job]
  <2>1. PICK blank : blank = Free
    OBVIOUS
  <2>2. PICK r1 : r1 = [blank EXCEPT !.intent = i]
    OBVIOUS
  <2>3. PICK r2 : r2 = [r1 EXCEPT !.call = "sent"]
    OBVIOUS
  <2>4. r1 = [todo |-> <<>>, intent |-> i, call |-> "none",
              event |-> NoEvent, to |-> {}, answer |-> 0]
    BY <2>1, <2>2 DEF Free
  <2>5. r2 = job
    <3>1. r2 = [todo |-> <<>>, intent |-> i, call |-> "sent",
                event |-> NoEvent, to |-> {}, answer |-> 0]
      BY <2>3, <2>4
    <3> QED
      BY <1>3, <3>1
  <2>6. work' = [work EXCEPT ![s] = [blank EXCEPT !.intent = i, !.call = "sent"]]
    BY <1>1, <2>1
  <2>7. work' = [work EXCEPT ![s] = r2]
    BY <2>2, <2>3, <2>6
  <2> QED
    BY <2>5, <2>7
<1> QED
  BY <1>4, <1>5, SlotStep DEF Press

LEMMA AskedInv ==
  ASSUME RequestsInv, NEW s \in Slots, Asked(s) \/ AskFailed(s)
  PROVE  RequestsInv'
<1>1. /\ JobTrue(work[s]) /\ work[s].todo # <<>>
      /\ Head(work[s].todo).step = "ask" \/ work[s].intent = NoIntent
  BY AtStep DEF Asked, AskFailed, Asks
<1>2. CASE Asked(s)
  BY <1>1, <1>2, ContinueStep DEF Asked
<1>3. CASE AskFailed(s)
  <2>1. PICK http \in Errors : AnswerWith(s, http)
    BY <1>3 DEF AskFailed
  <2>2. work[s].intent # NoIntent => work[s].call = "none"
    BY <1>1, Whereabouts DEF Asking
  <2>3. Kind(http) \in {4, 5}
    BY <2>1, Kinds
  <2> QED
    BY <1>3, <2>1, <2>2, <2>3, AnswerStep DEF AskFailed
<1> QED
  BY <1>2, <1>3

LEMMA AnswerInv ==
  ASSUME RequestsInv, NEW s \in Slots, Answer(s)
  PROVE  RequestsInv'
<1>1. /\ JobTrue(work[s]) /\ work[s].todo # <<>>
      /\ Head(work[s].todo).step = "respond"
  BY AtStep DEF Answer
<1>2. PICK http : http = Head(work[s].todo).status
  OBVIOUS
<1>3. Kind(http) = 2 /\ (work[s].intent # NoIntent => work[s].call = "done")
  BY <1>1, <1>2, Whereabouts DEF Telling
<1>4. AnswerWith(s, http)
  BY <1>2 DEF Answer
<1> QED
  BY <1>3, <1>4, AnswerStep DEF Answer

LEMMA RepliedInv ==
  ASSUME RequestsInv, NEW s \in Slots, ReplyRefused(s) \/ ReplyLost(s)
  PROVE  RequestsInv'
<1>1. CASE ReplyRefused(s)
  <2>1. PICK http \in Refusals : AnswerWith(s, http)
    BY <1>1 DEF ReplyRefused
  <2>2. Kind(http) = 4
    BY <2>1, Kinds
  <2> QED
    BY <1>1, <2>1, <2>2, AnswerStep DEF ReplyRefused
<1>2. CASE ReplyLost(s)
  <2>1. PICK code \in Unknown : AnswerWith(s, HTTPStatus(code))
    BY <1>2 DEF ReplyLost
  <2>2. PICK http : http = HTTPStatus(code)
    OBVIOUS
  <2>3. Kind(http) = 5 /\ AnswerWith(s, http)
    BY <2>1, <2>2, Kinds
  <2> QED
    BY <1>2, <2>3, AnswerStep DEF ReplyLost
<1> QED
  BY <1>1, <1>2

LEMMA JobOf ==
  ASSUME RequestsInv, NEW s \in Slots
  PROVE  LET w == work[s]
         IN  /\ w = [todo |-> w.todo, intent |-> w.intent, call |-> w.call,
                     event |-> w.event, to |-> w.to, answer |-> w.answer]
             /\ work = [t \in Slots |-> work[t]]
             /\ w.call # "none" => w.intent \in Intents
BY DEF RequestsInv, JobsTrue, JobTrue, JobWellFormed, JobOnItsWay, WithTodo

\* A job whose call has gone one step further.
LEMMA CallTrue ==
  ASSUME NEW w, JobTrue(w), NEW job, NEW call \in {"sent", "refused"},
         job = [todo |-> w.todo, intent |-> w.intent, call |-> call,
                event |-> w.event, to |-> w.to, answer |-> w.answer],
         w.intent # NoIntent,
         \/ call = "sent" /\ w.call = "none" /\ w.todo # <<>> /\ Head(w.todo).step = "write"
         \/ call = "refused" /\ w.call = "sent"
  PROVE  JobTrue(job)
<1>1. JobWellFormed(job)
  BY DEF JobTrue, JobWellFormed, WithTodo
<1>2. JobOnItsWay(job)
  BY DEF JobTrue, JobOnItsWay
<1>3. AnswerTrue(job)
  BY DEF JobTrue, AnswerTrue
<1>4. TellingTrue(job)
  BY DEF JobTrue, TellingTrue
<1> QED
  BY <1>1, <1>2, <1>3, <1>4 DEF JobTrue

LEMMA SentInv ==
  ASSUME RequestsInv, NEW s \in Slots, Send(s) \/ TurnDown(s)
  PROVE  RequestsInv'
<1>0. PICK w : w = work[s]
  OBVIOUS
<1> DEFINE job(call) == [todo |-> w.todo, intent |-> w.intent, call |-> call,
                         event |-> w.event, to |-> w.to, answer |-> w.answer]
<1>1. JobTrue(w) /\ w = job(w.call)
  BY <1>0, AtStep, JobOf
<1>2. CASE Send(s)
  <2>1. /\ w.todo # <<>> /\ Head(w.todo).step = "write" /\ w.intent # NoIntent
        /\ w.call = "none"
    BY <1>0, <1>2, AtStep DEF Send
  <2>2. JobTrue(job("sent"))
    BY <1>1, <2>1, CallTrue
  <2>3. work' = [work EXCEPT ![s] = job("sent")]
    <3>1. [w EXCEPT !.call = "sent"] = job("sent")
      BY <1>1
    <3>2. work' = [work EXCEPT ![s] = [w EXCEPT !.call = "sent"]]
      BY <1>0, <1>2 DEF Send
    <3> QED
      BY <3>1, <3>2
  <2> QED
    BY <1>2, <2>2, <2>3, SlotStep DEF Send
<1>3. CASE TurnDown(s)
  <2>1. w.call = "sent" /\ w.intent # NoIntent
    BY <1>0, <1>3, JobOf, IntentShape DEF TurnDown
  <2>2. JobTrue(job("refused"))
    BY <1>1, <2>1, CallTrue
  <2>3. work' = [work EXCEPT ![s] = job("refused")]
    <3>1. [w EXCEPT !.call = "refused"] = job("refused")
      BY <1>1
    <3>2. work' = [work EXCEPT ![s] = [w EXCEPT !.call = "refused"]]
      BY <1>0, <1>3 DEF TurnDown
    <3> QED
      BY <3>1, <3>2
  <2> QED
    BY <1>3, <2>2, <2>3, SlotStep DEF TurnDown
<1> QED
  BY <1>2, <1>3

\* A job whose call has been carried out, now or before.
LEMMA CarriedTrue ==
  ASSUME NEW w, JobTrue(w), w.call = "sent", NEW event, event # NoEvent,
         event.intent = w.intent, NEW job,
         job = [todo |-> w.todo, intent |-> w.intent, call |-> "done",
                event |-> event, to |-> w.to, answer |-> w.answer],
         w.intent \in Intents,
         Known(w.intent)', Recorded(w.intent)',
         w.intent.op \in Notifying => Told(event)'
  PROVE  JobTrue(job)'
<1>1. JobWellFormed(job)'
  BY DEF JobTrue, JobWellFormed, WithTodo, Ordered, Honest
<1>2. JobOnItsWay(job)'
  BY DEF JobTrue, JobOnItsWay, Quiet, Writes, Asking
<1>3. AnswerTrue(job)'
  BY DEF JobTrue, AnswerTrue
<1>4. w.to = {}
  BY DEF JobTrue, TellingTrue
<1>5. TellingTrue(job)'
  BY <1>4 DEF TellingTrue
<1> QED
  BY <1>1, <1>2, <1>3, <1>5 DEF JobTrue

LEMMA CarriedJob ==
  ASSUME NEW s, NEW w, w = work[s], NEW event, Carried(s, event),
         w = [todo |-> w.todo, intent |-> w.intent, call |-> w.call,
              event |-> w.event, to |-> w.to, answer |-> w.answer]
  PROVE  work' = [work EXCEPT ![s] =
                   [todo |-> w.todo, intent |-> w.intent, call |-> "done",
                    event |-> event, to |-> w.to, answer |-> w.answer]]
<1>1. PICK r1 : r1 = [w EXCEPT !.call = "done"]
  OBVIOUS
<1>2. PICK r2 : r2 = [r1 EXCEPT !.event = event]
  OBVIOUS
<1>3. r1 = [todo |-> w.todo, intent |-> w.intent, call |-> "done",
            event |-> w.event, to |-> w.to, answer |-> w.answer]
  BY <1>1
<1>4. r2 = [todo |-> w.todo, intent |-> w.intent, call |-> "done",
            event |-> event, to |-> w.to, answer |-> w.answer]
  BY <1>2, <1>3
<1>5. work' = [work EXCEPT ![s] = r2]
  BY <1>1, <1>2 DEF Carried
<1> QED
  BY <1>4, <1>5

LEMMA CommitInv ==
  ASSUME RequestsInv, NEW s \in Slots, Commit(s)
  PROVE  RequestsInv'
<1>1. PICK w : w = work[s]
  OBVIOUS
<1>2. /\ JobTrue(w) /\ w.call = "sent" /\ w.intent \in Intents
      /\ w = [todo |-> w.todo, intent |-> w.intent, call |-> w.call,
              event |-> w.event, to |-> w.to, answer |-> w.answer]
  BY <1>1, AtStep, JobOf DEF Commit
<1>3. PICK i : i = w.intent
  OBVIOUS
<1>4. PICK id : /\ Carry(i, id)
                /\ Carried(s, Event(i, id)')
                /\ committed' = committed \cup {Event(i, id)'}
  BY <1>1, <1>3 DEF Commit
<1>5. PICK event : event = [intent |-> i, id |-> id, row |-> Rows'[i.op][id]]
  OBVIOUS
<1>6. event = Event(i, id)' /\ event # NoEvent /\ event.intent = i /\ event.id = id
  BY <1>5 DEF Event, NoEvent
<1>7. Carried(s, event) /\ committed' = committed \cup {event}
  BY <1>4, <1>6
<1>8. Entered(i, id, event)
  <2>1. i \in Intents /\ i.op \in Writing
    BY <1>2, <1>3, IntentShape
  <2>2. RecordsTrue /\ HistoryTrue
    BY DEF RequestsInv
  <2>3. CASE i.op \in {"createExpense", "createAdjustment", "createSettlement"}
    BY <1>4, <1>5, <1>7, <2>1, <2>2, <2>3, CreateEntered
  <2>4. CASE i.op \in {"updateExpense", "confirmExpense", "cancelExpense",
                       "confirmSettlement"}
    BY <1>4, <1>5, <1>7, <2>1, <2>2, <2>4, ChangeEntered
  <2>5. CASE i.op \in {"createGroup", "joinGroup", "addGroupMembers", "archiveGroup"}
    BY <1>4, <1>5, <1>7, <2>1, <2>2, <2>5, GroupEntered
  <2> QED
    BY <2>1, <2>3, <2>4, <2>5 DEF Writing
<1>9. RecordsTrue' /\ Grow
  BY <1>8 DEF Entered
<1>10. HistoryTrue'
  BY <1>2, <1>3, <1>6, <1>7, <1>8, HistoryGrown DEF RequestsInv
<1>11. OutboxTrue'
  BY <1>9, OutboxKept DEF RequestsInv, Commit
<1>12. JobsTrue'
  <2>1. PICK job : job = [todo |-> w.todo, intent |-> w.intent, call |-> "done",
                          event |-> event, to |-> w.to, answer |-> w.answer]
    OBVIOUS
  <2>2. Told(event)'
    BY <1>7 DEF Told
  <2>3. Known(w.intent)' /\ Recorded(w.intent)'
    <3>1. Known(i)' /\ Recorded(i)'
      BY <1>8 DEF Entered
    <3> QED
      BY <1>3, <3>1
  <2>4. JobTrue(job)'
    BY <1>2, <1>3, <1>6, <2>1, <2>2, <2>3, CarriedTrue
  <2>5. work' = [work EXCEPT ![s] = job]
    BY <1>1, <1>2, <1>7, <2>1, CarriedJob
  <2> QED
    BY <1>9, <2>4, <2>5, JobsKept DEF RequestsInv, Commit
<1> QED
  BY <1>9, <1>10, <1>11, <1>12 DEF RequestsInv

LEMMA RepeatInv ==
  ASSUME RequestsInv, NEW s \in Slots, Repeat(s)
  PROVE  RequestsInv'
<1>1. PICK w : w = work[s]
  OBVIOUS
<1>2. /\ JobTrue(w) /\ w.call = "sent" /\ w.intent \in Intents
      /\ w = [todo |-> w.todo, intent |-> w.intent, call |-> w.call,
              event |-> w.event, to |-> w.to, answer |-> w.answer]
  BY <1>1, AtStep, JobOf DEF Repeat
<1>3. PICK i : i = w.intent
  OBVIOUS
<1>4. AlreadyMade(i)
  BY <1>1, <1>3 DEF Repeat
<1>5. PICK event : event = Event(i, i.id)
  OBVIOUS
<1>6. event # NoEvent /\ event.intent = i /\ event.id = i.id
  BY <1>5 DEF Event, NoEvent
<1>7. RecordsTrue' /\ HistoryTrue' /\ Grow
  BY HistoryKept DEF RequestsInv, Repeat
<1>8. Known(i) /\ Recorded(i)
  BY <1>4, RecordedCases DEF AlreadyMade, Known
<1>9. Known(i)' /\ Recorded(i)'
  BY <1>2, <1>3, <1>7, <1>8, RecordedStays DEF RequestsInv
<1>10. i.op \in Notifying => Told(event)
  <2>1. SUFFICES ASSUME i.op \in Notifying
                 PROVE  Told(event)
    OBVIOUS
  <2>2. /\ i.op = "confirmExpense" /\ i.id \in DOMAIN expenses
        /\ expenses[i.id].status = "confirmed"
    BY <1>4, <2>1 DEF AlreadyMade, Notifying
  <2>3. PICK past \in committed : past.intent.op = "confirmExpense" /\ past.id = i.id
    BY <2>2 DEF RequestsInv, HistoryTrue
  <2>4. past.row = expenses[i.id]
    BY <2>3 DEF RequestsInv, HistoryTrue, EventTrue
  <2>5. event.row = expenses[i.id]
    BY <1>5, <2>2 DEF Event, Rows
  <2> QED
    BY <1>6, <2>2, <2>3, <2>4, <2>5 DEF Told
<1>11. JobsTrue'
  <2>1. PICK job : job = [todo |-> w.todo, intent |-> w.intent, call |-> "done",
                          event |-> event, to |-> w.to, answer |-> w.answer]
    OBVIOUS
  <2>2. i.op \in Notifying => Told(event)'
    BY <1>7, <1>10, ToldKept
  <2>3. Known(w.intent)' /\ Recorded(w.intent)'
    BY <1>3, <1>9
  <2>4. JobTrue(job)'
    BY <1>2, <1>3, <1>6, <2>1, <2>2, <2>3, CarriedTrue
  <2>5. Carried(s, event)
    BY <1>1, <1>3, <1>5 DEF Repeat
  <2>6. work' = [work EXCEPT ![s] = job]
    BY <1>1, <1>2, <2>1, <2>5, CarriedJob
  <2> QED
    BY <1>7, <2>4, <2>6, JobsKept DEF RequestsInv, Repeat
<1>12. OutboxTrue'
  BY <1>7, OutboxKept DEF RequestsInv, Repeat
<1> QED
  BY <1>7, <1>11, <1>12 DEF RequestsInv

LEMMA ReplyInv ==
  ASSUME RequestsInv, NEW s \in Slots, Reply(s)
  PROVE  RequestsInv'
<1>1. PICK w : w = work[s]
  OBVIOUS
<1>2. /\ JobTrue(w) /\ w.call = "done" /\ w.todo # <<>> /\ w.intent \in Intents
      /\ w = [todo |-> w.todo, intent |-> w.intent, call |-> w.call,
              event |-> w.event, to |-> w.to, answer |-> w.answer]
  BY <1>1, AtStep, JobOf DEF Reply
<1>3. /\ w.event # NoEvent /\ w.event.intent = w.intent
      /\ w.intent.op \in Notifying => Told(w.event)
      /\ w.to = {}
  BY <1>1, <1>2, AtStep DEF JobTrue, TellingTrue, Reply
<1>4. PICK event : event = Reread(w.event)
  OBVIOUS
<1>5. /\ event # NoEvent /\ event.intent = w.intent
      /\ w.intent.op \in Notifying => Told(event)
  <2>1. CASE w.intent.op \in {"confirmExpense", "cancelExpense"}
    <3>1. event = [intent |-> w.intent, id |-> w.event.id, row |-> expenses[w.event.id]]
      BY <1>3, <1>4, <2>1 DEF Reread, Event, Rows
    <3>2. event # NoEvent /\ event.intent = w.intent /\ event.id = w.event.id
      BY <3>1 DEF NoEvent
    <3>3. w.intent.op \in Notifying => w.intent.op = "confirmExpense"
      BY <2>1 DEF Notifying
    <3>4. ASSUME w.intent.op = "confirmExpense"
          PROVE  Told(event)
      <4>1. PICK past \in committed :
              past.intent.op = "confirmExpense" /\ past.id = w.event.id
        BY <1>3, <3>4 DEF Told, Notifying
      <4>2. past.row = expenses[w.event.id]
        BY <4>1 DEF RequestsInv, HistoryTrue, EventTrue
      <4> QED
        BY <3>1, <3>4, <4>1, <4>2 DEF Told
    <3> QED
      BY <3>2, <3>3, <3>4
  <2>2. CASE w.intent.op \notin {"confirmExpense", "cancelExpense"}
    BY <1>3, <1>4, <2>2 DEF Reread
  <2> QED
    BY <2>1, <2>2
<1>6. PICK job : job = [todo |-> w.todo, intent |-> w.intent, call |-> w.call,
                        event |-> event, to |-> w.to, answer |-> w.answer]
  OBVIOUS
<1>7. job = [w EXCEPT !.event = Reread(@)]
  BY <1>2, <1>4, <1>6
<1>8. JobTrue(job)
  <2>1. JobWellFormed(job) /\ JobOnItsWay(job) /\ AnswerTrue(job)
    BY <1>2, <1>6 DEF JobTrue, JobWellFormed, JobOnItsWay, AnswerTrue, WithTodo
  <2>2. TellingTrue(job)
    BY <1>2, <1>3, <1>5, <1>6 DEF TellingTrue
  <2> QED
    BY <2>1, <2>2 DEF JobTrue
<1>9. Continue(s, job) /\ job.todo # <<>> /\ job.call = "done"
  BY <1>1, <1>2, <1>6, <1>7 DEF Reply
<1> QED
  BY <1>8, <1>9, ContinueStep DEF Reply

LEMMA DroppedInv ==
  ASSUME RequestsInv, NEW s \in Slots, CutOff(s) \/ End(s)
  PROVE  RequestsInv'
<1>1. PICK w : w = work[s]
  OBVIOUS
<1>2. /\ JobTrue(w)
      /\ w = [todo |-> w.todo, intent |-> w.intent, call |-> w.call,
              event |-> w.event, to |-> w.to, answer |-> w.answer]
  BY <1>1, AtStep, JobOf
<1>3. CASE CutOff(s)
  <2>1. PICK job : job = [todo |-> <<>>, intent |-> w.intent, call |-> w.call,
                          event |-> NoEvent, to |-> {}, answer |-> w.answer]
    OBVIOUS
  <2>2. PICK r1 : r1 = [w EXCEPT !.todo = <<>>]
    OBVIOUS
  <2>3. PICK r2 : r2 = [r1 EXCEPT !.to = {}]
    OBVIOUS
  <2>4. PICK r3 : r3 = [r2 EXCEPT !.event = NoEvent]
    OBVIOUS
  <2>5. work' = [work EXCEPT ![s] = r3]
    BY <1>1, <1>3, <2>2, <2>3, <2>4 DEF CutOff
  <2>6. r1 = [todo |-> <<>>, intent |-> w.intent, call |-> w.call,
              event |-> w.event, to |-> w.to, answer |-> w.answer]
    BY <1>2, <2>2
  <2>7. r2 = [todo |-> <<>>, intent |-> w.intent, call |-> w.call,
              event |-> w.event, to |-> {}, answer |-> w.answer]
    BY <2>3, <2>6
  <2>8. r3 = job
    <3>1. r3 = [todo |-> <<>>, intent |-> w.intent, call |-> w.call,
                event |-> NoEvent, to |-> {}, answer |-> w.answer]
      BY <2>4, <2>7
    <3> QED
      BY <2>1, <3>1
  <2>9. JobTrue(job)
    <3>1. JobWellFormed(job) /\ JobOnItsWay(job)
      BY <1>2, <2>1, Empty DEF JobTrue, JobWellFormed, JobOnItsWay, WithTodo
    <3>2. AnswerTrue(job) /\ TellingTrue(job)
      BY <1>2, <2>1 DEF JobTrue, AnswerTrue, TellingTrue
    <3> QED
      BY <3>1, <3>2 DEF JobTrue
  <2> QED
    BY <1>3, <2>5, <2>8, <2>9, SlotStep DEF CutOff
<1>4. CASE End(s)
  <2>1. JobTrue(Free)
    BY Empty DEF JobTrue, JobWellFormed, JobOnItsWay, AnswerTrue, TellingTrue, Free, WithTodo
  <2> QED
    BY <1>4, <2>1, SlotStep DEF End
<1> QED
  BY <1>3, <1>4

LEMMA NamedInv ==
  ASSUME RequestsInv, NEW s \in Slots, Named(s) \/ Nameless(s) \/ Unlisted(s)
  PROVE  RequestsInv'
<1>1. /\ JobTrue(work[s]) /\ work[s].todo # <<>>
      /\ Head(work[s].todo).step \in {"name", "notify"}
  BY AtStep DEF Named, Nameless, Unlisted
<1>2. CASE Named(s) \/ Unlisted(s)
  BY <1>1, <1>2, ContinueStep DEF Named, Unlisted
<1>3. CASE Nameless(s)
  <2>1. PICK w : w = work[s]
    OBVIOUS
  <2>2. PICK job : job = WithTodo(w, Tail(w.todo))
    OBVIOUS
  <2>3. JobTrue(job)
    BY <1>1, <2>1, <2>2, Advance
  <2>4. /\ job.todo # <<>>
        /\ job.intent = NoIntent \/ job.call = "done"
    <3>1. /\ Tail(w.todo) # <<>>
          /\ w.intent = NoIntent \/ w.call = "done"
      BY <1>1, <2>1, Whereabouts DEF Telling
    <3> QED
      BY <2>2, <3>1 DEF WithTodo
  <2>5. job = [w EXCEPT !.todo = Tail(@)]
    BY <1>1, <2>1, <2>2, JobFields DEF JobTrue, JobWellFormed
  <2>6. Continue(s, job)
    BY <1>3, <2>1, <2>5 DEF Nameless
  <2> QED
    BY <1>3, <2>3, <2>4, <2>6, ContinueStep DEF Nameless
<1> QED
  BY <1>2, <1>3

LEMMA ListedInv ==
  ASSUME RequestsInv, NEW s \in Slots, Listed(s)
  PROVE  RequestsInv'
<1>1. PICK w : w = work[s]
  OBVIOUS
<1>2. /\ JobTrue(w) /\ w.todo # <<>> /\ Head(w.todo).step = "notify"
      /\ w = [todo |-> w.todo, intent |-> w.intent, call |-> w.call,
              event |-> w.event, to |-> w.to, answer |-> w.answer]
  BY <1>1, AtStep, JobOf DEF Listed
<1>3. w.intent # NoIntent /\ w.intent.op \in Notifying /\ w.call = "done"
  BY <1>2, Whereabouts DEF Telling
<1>4. PICK rest : rest = Tail(w.todo)
  OBVIOUS
<1>5. PICK told : told = members[w.event.row.group] \cap Subscribers
  OBVIOUS
<1>6. PICK next : next = WithTodo(w, rest)
  OBVIOUS
<1>7. JobTrue(next)
  BY <1>2, <1>4, <1>6, Advance
<1>8. PICK job : job = [todo |-> rest, intent |-> w.intent, call |-> w.call,
                        event |-> w.event, to |-> told, answer |-> w.answer]
  OBVIOUS
<1>9. work' = [work EXCEPT ![s] = job]
  <2>1. PICK r1 : r1 = [w EXCEPT !.to = told]
    OBVIOUS
  <2>2. PICK r2 : r2 = [r1 EXCEPT !.todo = rest]
    OBVIOUS
  <2>3. r1 = [todo |-> w.todo, intent |-> w.intent, call |-> w.call,
              event |-> w.event, to |-> told, answer |-> w.answer]
    BY <1>2, <2>1
  <2>4. r2 = job
    BY <1>8, <2>2, <2>3
  <2>5. work' = [work EXCEPT ![s] = r2]
    BY <1>1, <1>4, <1>5, <2>1, <2>2 DEF Listed
  <2> QED
    BY <2>4, <2>5
<1>10. JobTrue(job)
  <2>1. JobWellFormed(job) /\ JobOnItsWay(job) /\ AnswerTrue(job)
    BY <1>6, <1>7, <1>8
    DEF JobTrue, JobWellFormed, JobOnItsWay, AnswerTrue, WithTodo
  <2>2. TellingTrue(job)
    BY <1>2, <1>3, <1>5, <1>8 DEF JobTrue, TellingTrue
  <2> QED
    BY <2>1, <2>2 DEF JobTrue
<1> QED
  BY <1>9, <1>10, SlotStep DEF Listed

LEMMA EnqueuedInv ==
  ASSUME RequestsInv, NEW s \in Slots, NEW u \in work[s].to,
         Enqueue(s, u) \/ EnqueueFails(s, u)
  PROVE  RequestsInv'
<1>1. PICK w : w = work[s]
  OBVIOUS
<1>2. /\ JobTrue(w) /\ u \in w.to
      /\ w = [todo |-> w.todo, intent |-> w.intent, call |-> w.call,
              event |-> w.event, to |-> w.to, answer |-> w.answer]
  BY <1>1, AtStep, JobOf
<1>3. PICK job : job = [todo |-> w.todo, intent |-> w.intent, call |-> w.call,
                        event |-> w.event, to |-> w.to \ {u}, answer |-> w.answer]
  OBVIOUS
<1>4. JobTrue(job)
  <2>1. JobWellFormed(job) /\ JobOnItsWay(job) /\ AnswerTrue(job)
    BY <1>2, <1>3 DEF JobTrue, JobWellFormed, JobOnItsWay, AnswerTrue, WithTodo
  <2>2. TellingTrue(job)
    BY <1>2, <1>3 DEF JobTrue, TellingTrue
  <2> QED
    BY <2>1, <2>2 DEF JobTrue
<1>5. work' = [work EXCEPT ![s] = job]
  <2>1. job = [w EXCEPT !.to = @ \ {u}]
    BY <1>2, <1>3
  <2>2. work' = [work EXCEPT ![s] = [w EXCEPT !.to = @ \ {u}]]
    BY <1>1 DEF Enqueue, EnqueueFails
  <2> QED
    BY <2>1, <2>2
<1>6. CASE EnqueueFails(s, u)
  BY <1>4, <1>5, <1>6, SlotStep DEF EnqueueFails
<1>7. CASE Enqueue(s, u)
  <2>1. RecordsTrue' /\ HistoryTrue' /\ Grow
    BY <1>7, HistoryKept DEF RequestsInv, Enqueue
  <2>2. JobsTrue'
    <3>1. JobTrue(job)'
      BY <1>4, <2>1, JobKept DEF RequestsInv
    <3> QED
      BY <1>5, <1>7, <2>1, <3>1, JobsKept DEF RequestsInv, Enqueue
  <2>3. OutboxTrue'
    <3>1. PICK key : key = <<DedupeKey(w.event), u>>
      OBVIOUS
    <3>2. outbox' = IF key \in DOMAIN outbox THEN outbox ELSE Put(outbox, key, w.event.row)
      BY <1>1, <1>7, <3>1 DEF Enqueue
    <3>3. members' = members /\ committed' = committed
      BY <1>7 DEF Enqueue, records
    <3>4. CASE key \in DOMAIN outbox
      BY <3>2, <3>3, <3>4 DEF RequestsInv, OutboxTrue
    <3>5. CASE key \notin DOMAIN outbox
      <4>1. PICK past \in committed :
              /\ past.intent.op = w.event.intent.op /\ past.id = w.event.id
              /\ past.row = w.event.row /\ past.intent.op \in Notifying
        BY <1>2 DEF JobTrue, TellingTrue, Told
      <4>2. DedupeKey(past) = DedupeKey(w.event)
        BY <4>1 DEF DedupeKey
      <4>3. u \in members[past.row.group]
        BY <1>2, <4>1 DEF JobTrue, TellingTrue
      <4>4. DedupeKey(past) = key[1] /\ key[2] = u
        BY <3>1, <4>2
      <4>5. /\ DOMAIN outbox' = DOMAIN outbox \cup {key} /\ outbox'[key] = past.row
            /\ \A k \in DOMAIN outbox : outbox'[k] = outbox[k]
            /\ outbox' = [k \in DOMAIN outbox' |-> outbox'[k]]
        BY <3>2, <3>5, <4>1 DEF Put
      <4>6. \A k \in DOMAIN outbox' :
              \E event \in committed :
                /\ event.intent.op \in Notifying /\ DedupeKey(event) = k[1]
                /\ outbox'[k] = event.row /\ k[2] \in members[event.row.group]
        BY <4>1, <4>3, <4>4, <4>5 DEF RequestsInv, OutboxTrue
      <4> QED
        BY <3>3, <4>5, <4>6 DEF OutboxTrue
    <3> QED
      BY <3>4, <3>5
  <2> QED
    BY <2>1, <2>2, <2>3 DEF RequestsInv
<1> QED
  BY <1>6, <1>7

-----------------------------------------------------------------------------
(* The invariant, and what follows from it *)

LEMMA RequestsInitInv == RequestsInit => RequestsInv
<1> SUFFICES ASSUME RequestsInit PROVE RequestsInv
  OBVIOUS
<1>1. RecordsTrue
  BY DEF RequestsInit, Init, RecordsTrue
<1>2. HistoryTrue
  BY DEF RequestsInit, Init, HistoryTrue
<1>3. JobsTrue
  <2>1. JobTrue(Free)
    BY Empty DEF JobTrue, JobWellFormed, JobOnItsWay, AnswerTrue, TellingTrue, Free, WithTodo
  <2> QED
    BY <2>1, RequestsAssumption DEF RequestsInit, JobsTrue
<1>4. OutboxTrue
  BY DEF RequestsInit, OutboxTrue
<1> QED
  BY <1>1, <1>2, <1>3, <1>4 DEF RequestsInv

LEMMA RequestsStepInv == RequestsInv /\ [RequestsNext]_vars => RequestsInv'
<1> SUFFICES ASSUME RequestsInv, [RequestsNext]_vars
             PROVE  RequestsInv'
  OBVIOUS
<1>1. CASE UNCHANGED vars
  <2>1. RecordsTrue' /\ HistoryTrue' /\ Grow
    BY <1>1, HistoryKept DEF vars, RequestsInv
  <2>2. OutboxTrue'
    BY <1>1, <2>1, OutboxKept DEF vars, RequestsInv
  <2>3. JobsTrue'
    <3>1. ASSUME NEW s \in Slots
          PROVE  JobTrue(work[s])'
      <4>1. PICK job : job = work[s]
        OBVIOUS
      <4>2. JobTrue(job)'
        BY <2>1, <4>1, JobKept DEF RequestsInv, JobsTrue
      <4>3. work'[s] = job
        BY <1>1, <4>1 DEF vars
      <4> QED
        BY <4>2, <4>3
    <3> QED
      BY <1>1, <3>1 DEF vars, RequestsInv, JobsTrue
  <2> QED
    BY <2>1, <2>2, <2>3 DEF RequestsInv
<1>2. ASSUME NEW s \in Slots,
             \/ Receive(s) \/ Press(s) \/ Asked(s) \/ AskFailed(s) \/ Answer(s)
             \/ CutOff(s) \/ End(s) \/ CallNext(s) \/ NotifyNext(s)
      PROVE  RequestsInv'
  <2>1. CASE \/ Receive(s) \/ Press(s) \/ Asked(s) \/ AskFailed(s) \/ Answer(s)
             \/ CutOff(s) \/ End(s)
    BY <2>1, ReceiveInv, PressInv, AskedInv, AnswerInv, DroppedInv
  <2>2. CASE CallNext(s)
    BY <2>2, SentInv, CommitInv, RepeatInv, ReplyInv, RepliedInv DEF CallNext
  <2>3. CASE NotifyNext(s)
    BY <2>3, NamedInv, ListedInv, EnqueuedInv DEF NotifyNext
  <2> QED
    BY <1>2, <2>1, <2>2, <2>3
<1> QED
  BY <1>1, <1>2 DEF RequestsNext

\* The inductive invariant of the requests: the records are well formed, the history
\* of commits agrees with them, every slot's answer agrees with both, and what has been
\* queued repeats the history.
THEOREM RequestsInvariant == RequestsSpec => []RequestsInv
BY RequestsInitInv, RequestsStepInv, PTL DEF RequestsSpec

\* Whatever is lost, late, repeated or refused between the client, the Gateway and
\* Core, no client is deceived: after a success what it asked for is recorded, after
\* a refusal it has not been done and will not be.
THEOREM AnswersAlwaysTrue == RequestsSpec => []AnswersTrue
<1>1. RequestsInv => AnswersTrue
  BY DEF RequestsInv, JobsTrue, JobTrue, AnswerTrue, AnswersTrue
<1> QED
  BY <1>1, RequestsInvariant, PTL

\* Every notification tells a member of the group the event that Core committed under
\* its key.
THEOREM NotificationsAlwaysTrue == RequestsSpec => []NotifiedAsCommitted
<1>1. RequestsInv => NotifiedAsCommitted
  <2> SUFFICES ASSUME RequestsInv, NEW key \in DOMAIN outbox
               PROVE  /\ \E event \in committed : DedupeKey(event) = key[1]
                      /\ \A event \in committed : DedupeKey(event) = key[1] =>
                           /\ outbox[key] = event.row
                           /\ key[2] \in members[event.row.group]
    BY DEF NotifiedAsCommitted
  <2>1. PICK past \in committed :
          /\ past.intent.op \in Notifying /\ DedupeKey(past) = key[1]
          /\ outbox[key] = past.row /\ key[2] \in members[past.row.group]
    BY DEF RequestsInv, OutboxTrue
  <2>2. \A event \in committed : DedupeKey(event) = key[1] => event = past
    BY <2>1 DEF RequestsInv, HistoryTrue, OnMoney
  <2> QED
    BY <2>1, <2>2
<1> QED
  BY <1>1, RequestsInvariant, PTL

\* However often clients ask, one version of an expense is replaced at most once, and
\* an expense or a settlement is confirmed or cancelled at most once.
THEOREM RetriesTakeEffectOnce == RequestsSpec => []RetryTakesEffectOnce
<1>1. RequestsInv => RetryTakesEffectOnce
  <2> SUFFICES ASSUME RequestsInv, NEW one \in committed, NEW other \in committed,
                      one.intent.op = other.intent.op, one.id = other.id,
                      \/ /\ one.intent.op = "updateExpense"
                         /\ one.intent.version = other.intent.version
                      \/ one.intent.op \in {"confirmExpense", "cancelExpense",
                                            "confirmSettlement"}
               PROVE  one = other
    BY DEF RetryTakesEffectOnce
  <2>1. one.intent.op = "updateExpense" => one.row.version = other.row.version
    <3> SUFFICES ASSUME one.intent.op = "updateExpense"
                 PROVE  one.row.version = other.row.version
      OBVIOUS
    <3>1. EventTrue(one) /\ EventTrue(other)
      BY DEF RequestsInv, HistoryTrue
    <3>2. one.row.version = one.intent.version + 1
      BY <3>1 DEF EventTrue
    <3>3. other.row.version = other.intent.version + 1
      BY <3>1 DEF EventTrue
    <3> QED
      BY <3>2, <3>3
  <2>2. DedupeKey(one) = DedupeKey(other)
    BY <2>1 DEF DedupeKey
  <2> QED
    BY <2>2 DEF RequestsInv, HistoryTrue, OnMoney, Notifying
<1> QED
  BY <1>1, RequestsInvariant, PTL

=============================================================================
