-------------------------- MODULE GuardedMapProofs --------------------------
(***************************************************************************)
(* Proofs about the two classes that are an unordered_map behind a mutex.  *)
(*                                                                         *)
(* rate_limiter, for any clients, costs, rates, capacities and idle        *)
(* durations: all rests on how a step changes Level(id), what is in a      *)
(* bucket now (LevelTick, LevelConsume, LevelClean), and Credit(id), what  *)
(* it would hold at the rate of Gain (CreditTick, CreditConsume,           *)
(* CreditClean).                                                           *)
(*                                                                         *)
(* thread_safe_unordered_map, for any threads, keys and values: a          *)
(* locked_value is stable, and ThreadSafeMap takes only steps of           *)
(* MapContract.                                                            *)
(***************************************************************************)
EXTENDS RateLimiter, ThreadSafeMap, TLAPS

-----------------------------------------------------------------------------
(* The rate_limiter. *)

(***************************************************************************)
(* No bucket has been refilled in the future.                              *)
(***************************************************************************)
PastOnly == window <= now /\ \A id \in DOMAIN requests : requests[id].last_refill <= now

(***************************************************************************)
(* Refilling for one more unit of time adds refill_rate.                   *)
(***************************************************************************)
LEMMA OneMoreUnit ==
    ASSUME NEW a \in Int, NEW b \in Int, NEW r \in Int
    PROVE  ((a + 1) - b) * r = (a - b) * r + r
OBVIOUS

(***************************************************************************)
(* With CleanupRefills, who has been idle for longer than                  *)
(* cleanup_after_idle_duration has a full bucket.                          *)
(***************************************************************************)
LEMMA IdleIsFull ==
    ASSUME NEW idle \in Int, cleanup_after_idle_duration \in Int, CleanupRefills,
           idle > cleanup_after_idle_duration
    PROVE  idle * refill_rate >= max_tokens
<1>1. idle * refill_rate >= cleanup_after_idle_duration * refill_rate
  BY LimiterAssumption
<1> QED BY <1>1, LimiterAssumption DEF CleanupRefills

(***************************************************************************)
(* The product of an elapsed time and the rate is not negative.            *)
(***************************************************************************)
LEMMA ElapsedRefill ==
    ASSUME NEW a \in Int, NEW b \in Int, b <= a
    PROVE  (a - b) * refill_rate \in Nat
BY LimiterAssumption

(***************************************************************************)
(* A bucket holds between no and max_tokens tokens.                        *)
(***************************************************************************)
LEMMA LevelType ==
    ASSUME TypeOK, PastOnly, NEW id \in Identifiers
    PROVE  Level(id) \in 0 .. max_tokens
<1>1. CASE id \in DOMAIN requests
  <2>1. requests[id].tokens \in 0 .. max_tokens /\ requests[id].last_refill \in Nat
    BY <1>1 DEF TypeOK, Entry
  <2>2. (now - requests[id].last_refill) * refill_rate \in Nat
    <3>1. now \in Int /\ requests[id].last_refill \in Int /\ requests[id].last_refill <= now
      BY <1>1, <2>1 DEF TypeOK, PastOnly
    <3> QED BY <3>1, ElapsedRefill, Zenon
  <2> QED BY <1>1, <2>1, <2>2, LimiterAssumption DEF Level, Refilled, Least
<1>2. CASE id \notin DOMAIN requests
  BY <1>2, LimiterAssumption DEF Level
<1> QED BY <1>1, <1>2

(***************************************************************************)
(* As time passes, a bucket gains refill_rate tokens up to max_tokens,     *)
(* though only consume() computes it.                                      *)
(***************************************************************************)
LEMMA LevelTick ==
    ASSUME TypeOK, PastOnly, Tick, NEW id \in Identifiers
    PROVE  Level(id)' = Least(max_tokens, Level(id) + refill_rate)
<1>0. now' = now + 1 /\ requests' = requests
  BY DEF Tick, buckets
<1>1. CASE id \in DOMAIN requests
  <2> DEFINE t == requests[id].tokens
             s == requests[id].last_refill
  <2>1. t \in 0 .. max_tokens /\ s \in Nat /\ now \in Nat
    BY <1>1 DEF TypeOK, Entry
  <2>a. now \in Int /\ s \in Int /\ s <= now /\ refill_rate \in Int
    BY <1>1, <2>1, LimiterAssumption DEF PastOnly
  <2>2. (now - s) * refill_rate \in Nat
    BY <2>a, ElapsedRefill, Zenon
  <2>3. ((now + 1) - s) * refill_rate = (now - s) * refill_rate + refill_rate
    BY <2>a, OneMoreUnit, Zenon
  <2>4. Level(id)' = Least(max_tokens, t + ((now + 1) - s) * refill_rate)
    BY <1>0, <1>1 DEF Level, Refilled
  <2>5. Level(id) = Least(max_tokens, t + (now - s) * refill_rate)
    BY <1>1 DEF Level, Refilled
  <2> HIDE DEF t, s
  <2> DEFINE e == (now - s) * refill_rate
  <2> HIDE DEF e
  <2>6. Least(max_tokens, t + (e + refill_rate)) =
            Least(max_tokens, Least(max_tokens, t + e) + refill_rate)
    BY <2>1, <2>2, LimiterAssumption DEF Least, e
  <2> QED BY <2>3, <2>4, <2>5, <2>6 DEF e
<1>2. CASE id \notin DOMAIN requests
  BY <1>0, <1>2, LimiterAssumption DEF Level, Least
<1> QED BY <1>1, <1>2

(***************************************************************************)
(* consume() takes the cost from the bucket it finds, or leaves all the    *)
(* buckets as full as they are.                                            *)
(***************************************************************************)
LEMMA LevelConsume ==
    ASSUME TypeOK, PastOnly, NEW id \in Identifiers, NEW cost \in Costs, consume(id, cost)
    PROVE  /\ \A other \in Identifiers \ {id} : Level(other)' = Level(other)
           /\ \/ /\ cost <= Level(id)
                 /\ Level(id)' = Level(id) - cost
                 /\ granted' = [granted EXCEPT ![id] = @ + cost]
              \/ Level(id)' = Level(id) /\ granted' = granted
           /\ TypeOK' /\ PastOnly'
           /\ UNCHANGED <<now, window, cleanup_after_idle_duration>>
           /\ DOMAIN requests' = DOMAIN requests \cup {id}
           /\ requests'[id] = [tokens |-> Level(id)', last_refill |-> now]
           /\ \A i \in DOMAIN requests \ {id} : requests'[i] = requests[i]
<1> DEFINE t == Level(id)
           u == IF t < cost THEN t ELSE t - cost
<1>1. /\ cost \in Nat \ {0} /\ now' = now /\ window' = window /\ UNCHANGED thread
      /\ cleanup_after_idle_duration' = cleanup_after_idle_duration
      /\ t \in 0 .. max_tokens
  BY LimiterAssumption, LevelType DEF consume
<1>2. /\ Store(id, u)
      /\ granted' = IF t < cost THEN granted ELSE [granted EXCEPT ![id] = @ + cost]
  BY DEF consume, Level
<1> HIDE DEF t
<1>3. u \in 0 .. max_tokens
  BY <1>1, LimiterAssumption
<1> HIDE DEF u
<1>4. /\ DOMAIN requests' = DOMAIN requests \cup {id}
      /\ requests'[id] = [tokens |-> u, last_refill |-> now]
      /\ \A i \in DOMAIN requests \ {id} : requests'[i] = requests[i]
  BY <1>2 DEF Store
<1>5. \A other \in Identifiers \ {id} : Level(other)' = Level(other)
  BY <1>1, <1>4 DEF Level, Refilled
<1>6. Level(id)' = u
  <2>1. Level(id)' = Least(max_tokens, u + (now - now) * refill_rate)
    BY <1>1, <1>4 DEF Level, Refilled
  <2>2. (now - now) * refill_rate = 0
    BY LimiterAssumption DEF TypeOK
  <2> QED BY <1>3, <2>1, <2>2, LimiterAssumption DEF Least
<1>7. granted' \in [Identifiers -> Nat]
  BY <1>1, <1>2 DEF TypeOK
<1>8. TypeOK'
  <2>1. \A i \in DOMAIN requests' : i \in Identifiers /\ requests'[i] \in Entry
    BY <1>3, <1>4 DEF TypeOK, Entry
  <2> QED BY <1>1, <1>7, <2>1 DEF TypeOK, Entry, thread
<1>9. PastOnly'
  BY <1>1, <1>4 DEF PastOnly, TypeOK
<1> QED BY <1>1, <1>2, <1>4, <1>5, <1>6, <1>8, <1>9 DEF u, t

(***************************************************************************)
(* With CleanupRefills, cleanup() drops full buckets only: a client that   *)
(* comes back gets what it would have got.                                 *)
(***************************************************************************)
LEMMA LevelClean ==
    ASSUME TypeOK, PastOnly, CleanupRefills, cleanup, now' = now, NEW id \in Identifiers
    PROVE  Level(id)' = Level(id)
<1> DEFINE Kept == {i \in DOMAIN requests :
                       now - requests[i].last_refill <= cleanup_after_idle_duration}
<1>1. DOMAIN requests' = Kept /\ \A i \in Kept : requests'[i] = requests[i]
  BY DEF cleanup
<1>2. CASE id \in Kept
  BY <1>1, <1>2 DEF Level, Refilled
<1>3. CASE id \notin DOMAIN requests
  BY <1>1, <1>3 DEF Level
<1>4. CASE id \in DOMAIN requests \ Kept
  <2> DEFINE idle == now - requests[id].last_refill
  <2>1. /\ idle \in Int /\ idle > cleanup_after_idle_duration
        /\ requests[id].tokens \in 0 .. max_tokens
    <3>1. requests[id] \in Entry /\ now \in Nat
      BY <1>4 DEF TypeOK
    <3> QED BY <1>4, <3>1, LimiterAssumption DEF Entry, TypeOK
  <2>2. idle * refill_rate >= max_tokens /\ idle * refill_rate \in Int
    <3> HIDE DEF idle
    <3>1. idle * refill_rate >= max_tokens
      <4>1. cleanup_after_idle_duration \in Int
        BY DEF TypeOK
      <4> QED BY <2>1, <4>1, IdleIsFull, Zenon
    <3>2. idle * refill_rate \in Int
      BY <2>1, LimiterAssumption
    <3> QED BY <3>1, <3>2
  <2>3. Level(id) = Least(max_tokens, requests[id].tokens + idle * refill_rate)
    BY <1>4 DEF Level, Refilled
  <2>4. Level(id)' = max_tokens
    BY <1>1, <1>4 DEF Level
  <2> HIDE DEF idle
  <2> QED BY <2>1, <2>2, <2>3, <2>4, LimiterAssumption DEF Least
<1> QED BY <1>2, <1>3, <1>4

-----------------------------------------------------------------------------
(***************************************************************************)
(* What a client can have by now, in tokens times                          *)
(* cleanup_after_idle_duration: its bucket refilled at the rate of Gain, a *)
(* full one if none is stored.                                             *)
(***************************************************************************)
Full == max_tokens * cleanup_after_idle_duration

Credit(id) ==
    IF id \in DOMAIN requests
    THEN Least(Full, requests[id].tokens * cleanup_after_idle_duration
                         + (now - requests[id].last_refill) * Gain)
    ELSE Full

(***************************************************************************)
(* Products of numbers in order are in order.                              *)
(***************************************************************************)
LEMMA ProductOrder ==
    ASSUME NEW a \in Int, NEW b \in Int, a <= b, NEW c \in Nat
    PROVE  a * c <= b * c /\ a * c \in Int /\ b * c \in Int
OBVIOUS

(***************************************************************************)
(* The product of natural numbers is one.                                  *)
(***************************************************************************)
LEMMA ProductNat ==
    ASSUME NEW a \in Nat, NEW b \in Nat
    PROVE  a * b \in Nat
OBVIOUS

(***************************************************************************)
(* A product with a sum.                                                   *)
(***************************************************************************)
LEMMA TimesSum ==
    ASSUME NEW a \in Int, NEW b \in Int, NEW c \in Int
    PROVE  (a + b) * c = a * c + b * c
OBVIOUS

(***************************************************************************)
(* A product with a difference.                                            *)
(***************************************************************************)
LEMMA TimesDifference ==
    ASSUME NEW a \in Int, NEW b \in Int, NEW c \in Int
    PROVE  (a - b) * c = a * c - b * c
OBVIOUS

(***************************************************************************)
(* The factors of a product, exchanged.                                    *)
(***************************************************************************)
LEMMA Exchange ==
    ASSUME NEW a \in Int, NEW b \in Int
    PROVE  a * b = b * a
OBVIOUS

(***************************************************************************)
(* The factors of three, regrouped.                                        *)
(***************************************************************************)
LEMMA Regroup ==
    ASSUME NEW a \in Int, NEW b \in Int, NEW c \in Int
    PROVE  (a * b) * c = a * (c * b)
OBVIOUS

(***************************************************************************)
(* Gain is at least a full bucket, and at least the refill of the idle     *)
(* duration.                                                               *)
(***************************************************************************)
LEMMA GainFacts ==
    ASSUME cleanup_after_idle_duration \in Nat
    PROVE  /\ Gain \in Nat /\ max_tokens <= Gain
           /\ cleanup_after_idle_duration * refill_rate \in Nat
           /\ cleanup_after_idle_duration * refill_rate <= Gain
           /\ Full \in Nat
<1>1. cleanup_after_idle_duration * refill_rate \in Nat /\ max_tokens \in Nat
  BY LimiterAssumption
<1>2. Full \in Nat
  BY LimiterAssumption, <1>1, ProductNat DEF Full
<1> DEFINE x == cleanup_after_idle_duration * refill_rate
<1> HIDE DEF x
<1>3. Gain = IF x <= max_tokens THEN max_tokens ELSE x
  BY DEF Gain, Greatest, x
<1>4. x \in Nat /\ max_tokens \in Nat
  BY <1>1 DEF x
<1>5. Gain \in Nat /\ max_tokens <= Gain /\ x <= Gain
  BY <1>3, <1>4
<1> QED BY <1>2, <1>4, <1>5 DEF x

(***************************************************************************)
(* A credit is between nothing and a full bucket, and the tokens in the    *)
(* bucket are within it.                                                   *)
(***************************************************************************)
LEMMA CreditType ==
    ASSUME TypeOK, PastOnly, cleanup_after_idle_duration > 0, NEW id \in Identifiers
    PROVE  /\ Credit(id) \in 0 .. Full
           /\ Level(id) * cleanup_after_idle_duration \in Int
           /\ Level(id) * cleanup_after_idle_duration <= Credit(id)
<1> DEFINE D == cleanup_after_idle_duration
<1>0. D \in Nat /\ D \in Int /\ max_tokens \in Nat /\ refill_rate \in Nat
  BY LimiterAssumption DEF TypeOK
<1>1. /\ Gain \in Nat /\ D * refill_rate <= Gain /\ D * refill_rate \in Nat
      /\ Full \in Nat
  BY <1>0, GainFacts
<1>2. CASE id \in DOMAIN requests
  <2> DEFINE t == requests[id].tokens
             e == now - requests[id].last_refill
  <2>1. t \in 0 .. max_tokens /\ e \in Nat
    BY <1>2 DEF TypeOK, Entry, PastOnly
  <2>2. Credit(id) = Least(Full, t * D + e * Gain)
    BY <1>2 DEF Credit
  <2>3. Level(id) = Least(max_tokens, t + e * refill_rate)
    BY <1>2 DEF Level, Refilled
  <2> HIDE DEF t, e, D
  <2>4. t \in Nat /\ t \in Int /\ e \in Int /\ refill_rate \in Int /\ Gain \in Int
    BY <1>0, <1>1, <2>1
  <2>5. t * D \in Nat /\ e * Gain \in Nat /\ e * refill_rate \in Nat
    BY <1>0, <1>1, <2>1, <2>4, ProductNat, Zenon
  <2>6. (D * refill_rate) * e <= Gain * e
    <3>1. D * refill_rate \in Int
      BY <1>1
    <3> QED BY <1>1, <2>1, <2>4, <3>1, ProductOrder, Zenon
  <2>7. (t + e * refill_rate) * D <= t * D + e * Gain
    <3>1. (t + e * refill_rate) * D = t * D + (e * refill_rate) * D
      <4>1. e * refill_rate \in Int
        BY <2>5
      <4> DEFINE y == e * refill_rate
      <4>2. t \in Int /\ y \in Int /\ D \in Int
        BY <1>0, <2>4, <4>1
      <4> HIDE DEF y
      <4>3. (t + y) * D = t * D + y * D
        BY <4>2, TimesSum, Zenon
      <4> QED BY <4>3 DEF y
    <3>2. (e * refill_rate) * D = e * (D * refill_rate)
      BY <1>0, <2>4, Regroup, Zenon
    <3>3. e * (D * refill_rate) = (D * refill_rate) * e /\ e * Gain = Gain * e
      <4>1. D * refill_rate \in Int
        BY <1>1
      <4> QED BY <1>0, <2>4, <4>1, Exchange, Zenon
    <3>4. (e * refill_rate) * D <= e * Gain
      BY <2>6, <3>2, <3>3
    <3>5. (e * refill_rate) * D \in Int
      BY <1>1, <2>1, <2>5, <3>2, ProductNat
    <3> DEFINE x == (e * refill_rate) * D
               y == e * Gain
               z == t * D
    <3>6. x \in Int /\ y \in Nat /\ z \in Nat /\ x <= y
      BY <2>5, <3>4, <3>5
    <3>7. (t + e * refill_rate) * D = z + x
      BY <3>1
    <3> HIDE DEF x, y, z
    <3>8. z + x <= z + y
      BY <3>6
    <3> QED BY <3>7, <3>8 DEF y, z
  <2>8. Level(id) \in Nat /\ Level(id) <= max_tokens /\ Level(id) <= t + e * refill_rate
    <3> DEFINE y == e * refill_rate
    <3>1. y \in Nat /\ Level(id) = Least(max_tokens, t + y)
      BY <2>3, <2>5
    <3> HIDE DEF y
    <3>2. Level(id) \in Nat /\ Level(id) <= max_tokens /\ Level(id) <= t + y
      BY <1>0, <2>4, <3>1 DEF Least
    <3> QED BY <3>2 DEF y
  <2>9. Level(id) * D <= Full /\ Level(id) * D \in Int
    BY <1>0, <2>8, ProductOrder DEF Full, D
  <2>10. Level(id) * D <= (t + e * refill_rate) * D /\ (t + e * refill_rate) * D \in Int
    <3>1. t + e * refill_rate \in Int /\ Level(id) \in Int
      BY <2>4, <2>5, <2>8
    <3> QED BY <1>0, <2>8, <3>1, ProductOrder, Zenon
  <2> DEFINE L == Level(id) * D
             m == (t + e * refill_rate) * D
             a == t * D
             b == e * Gain
  <2>11. /\ L \in Int /\ L <= Full /\ L <= m /\ m \in Int /\ m <= a + b
         /\ a \in Nat /\ b \in Nat /\ Credit(id) = Least(Full, a + b)
    BY <2>2, <2>5, <2>7, <2>9, <2>10
  <2> HIDE DEF L, m, a, b
  <2>12. Credit(id) \in 0 .. Full /\ L \in Int /\ L <= Credit(id)
    BY <1>1, <2>11 DEF Least
  <2> QED BY <2>12 DEF L, D
<1>3. CASE id \notin DOMAIN requests
  BY <1>0, <1>1, <1>3, ProductNat DEF Credit, Level, Full
<1> QED BY <1>2, <1>3

(***************************************************************************)
(* In a unit of time the credit grows by Gain at most.                     *)
(***************************************************************************)
LEMMA CreditTick ==
    ASSUME TypeOK, PastOnly, cleanup_after_idle_duration > 0, Tick, NEW id \in Identifiers
    PROVE  Credit(id)' \in 0 .. Full /\ Credit(id)' <= Credit(id) + Gain
<1>0. /\ now' = now + 1 /\ requests' = requests
      /\ cleanup_after_idle_duration' = cleanup_after_idle_duration
  BY DEF Tick, buckets
<1>1. Gain \in Nat /\ Full \in Nat /\ cleanup_after_idle_duration \in Nat
  BY GainFacts DEF TypeOK
<1>2. CASE id \in DOMAIN requests
  <2> DEFINE a == requests[id].tokens * cleanup_after_idle_duration
             s == requests[id].last_refill
             b == (now - s) * Gain
  <2>1. requests[id].tokens \in Nat /\ s \in Int /\ now \in Int /\ s <= now
    BY <1>2 DEF TypeOK, Entry, PastOnly
  <2>2. a \in Nat
    BY <1>1, <2>1, ProductNat, Zenon
  <2>3. b \in Nat
    <3>1. now - s \in Nat
      BY <2>1
    <3> QED BY <1>1, <3>1, ProductNat, Zenon
  <2>4. ((now + 1) - s) * Gain = b + Gain
    <3>1. Gain \in Int
      BY <1>1
    <3> QED BY <2>1, <3>1, OneMoreUnit, Zenon
  <2>5. Credit(id)' = Least(Full, a + ((now + 1) - s) * Gain)
    BY <1>0, <1>2 DEF Credit, Full, Gain
  <2>6. Credit(id) = Least(Full, a + b)
    BY <1>2 DEF Credit
  <2>7. Credit(id)' = Least(Full, a + (b + Gain))
    BY <2>4, <2>5
  <2> HIDE DEF a, b
  <2> QED BY <1>1, <2>2, <2>3, <2>6, <2>7 DEF Least
<1>3. CASE id \notin DOMAIN requests
  BY <1>0, <1>1, <1>3 DEF Credit, Full
<1> QED BY <1>2, <1>3

(***************************************************************************)
(* consume() takes from the credit what it grants, or more.                *)
(***************************************************************************)
LEMMA CreditConsume ==
    ASSUME TypeOK, PastOnly, cleanup_after_idle_duration > 0,
           NEW i \in Identifiers, NEW cost \in Costs, consume(i, cost), NEW id \in Identifiers
    PROVE  /\ Credit(id)' \in Nat
           /\ granted'[id] * cleanup_after_idle_duration + Credit(id)'
                <= granted[id] * cleanup_after_idle_duration + Credit(id)
<1> DEFINE D == cleanup_after_idle_duration
<1>0. /\ D \in Nat /\ D \in Int /\ cost \in Nat /\ D' = D /\ now' = now /\ now \in Nat
      /\ granted[id] \in Nat /\ granted \in [Identifiers -> Nat]
  BY LevelConsume, LimiterAssumption DEF TypeOK, consume
<1>1. Gain \in Nat /\ Full \in Nat /\ Gain' = Gain /\ Full' = Full
  BY <1>0, GainFacts DEF Gain, Full
<1>2. CASE i # id
  <2>1. granted'[id] = granted[id]
    BY <1>2, LevelConsume DEF TypeOK
  <2>2. Credit(id)' = Credit(id)
    <3>1. id \in DOMAIN requests' <=> id \in DOMAIN requests
      BY <1>2, LevelConsume
    <3>2. id \in DOMAIN requests => requests'[id] = requests[id]
      BY <1>2, LevelConsume
    <3> QED BY <1>0, <1>1, <3>1, <3>2 DEF Credit
  <2>3. granted[id] * D \in Int /\ Credit(id) \in Nat
    <3>1. granted[id] * D \in Nat
      BY <1>0, ProductNat, Zenon
    <3>2. Credit(id) \in Nat
      BY <1>1, CreditType
    <3> QED BY <3>1, <3>2
  <2> QED BY <2>1, <2>2, <2>3
<1>3. CASE i = id
  <2>1. Level(id) \in Nat /\ Level(id)' \in Nat
    <3>1. Level(id) \in Nat
      BY LevelType, LimiterAssumption
    <3>2. Level(id)' = Level(id) \/ (cost <= Level(id) /\ Level(id)' = Level(id) - cost)
      BY <1>3, LevelConsume, Zenon
    <3> QED BY <1>0, <3>1, <3>2
  <2>2. Credit(id)' = Least(Full, Level(id)' * D + (now - now) * Gain)
    <3>1. id \in DOMAIN requests' /\ requests'[id] = [tokens |-> Level(id)', last_refill |-> now]
      BY <1>3, LevelConsume
    <3> QED BY <1>0, <1>1, <3>1 DEF Credit
  <2>3. (now - now) * Gain = 0
    BY <1>0, <1>1
  <2>4. /\ Level(id)' * D \in Nat /\ Level(id) * D \in Nat /\ granted[id] * D \in Nat
        /\ Credit(id) \in Nat /\ Level(id) * D <= Credit(id)
    BY <1>0, <1>1, <2>1, ProductNat, CreditType
  <2>5. Credit(id)' <= Level(id)' * D /\ Credit(id)' \in Nat
    <3> DEFINE x == Level(id)' * D
    <3>1. x \in Nat /\ Credit(id)' = Least(Full, x + 0)
      BY <2>2, <2>3, <2>4
    <3> HIDE DEF x
    <3>2. Credit(id)' <= x /\ Credit(id)' \in Nat
      BY <1>1, <3>1 DEF Least
    <3> QED BY <3>2 DEF x
  <2>6. CASE granted' = granted /\ Level(id)' = Level(id)
    <3> DEFINE x == Level(id) * D
               g == granted[id] * D
    <3>1. /\ x \in Nat /\ g \in Nat /\ x <= Credit(id) /\ Credit(id)' <= x
          /\ granted'[id] * D = g
      BY <2>4, <2>5, <2>6
    <3> HIDE DEF x, g
    <3>2. g + Credit(id)' <= g + Credit(id)
      BY <2>4, <2>5, <3>1
    <3> QED BY <2>5, <3>1, <3>2 DEF g
  <2>7. CASE /\ cost <= Level(id) /\ Level(id)' = Level(id) - cost
             /\ granted' = [granted EXCEPT ![id] = @ + cost]
    <3>1. granted'[id] * D = granted[id] * D + cost * D
      <4>1. granted[id] \in Int /\ cost \in Int /\ granted'[id] = granted[id] + cost
        BY <1>0, <2>7
      <4>2. (granted[id] + cost) * D = granted[id] * D + cost * D
        BY <1>0, <4>1, TimesSum, Zenon
      <4> QED BY <4>1, <4>2
    <3>2. Level(id)' * D = Level(id) * D - cost * D
      <4>1. Level(id) \in Int /\ cost \in Int
        BY <1>0, <2>1
      <4>2. (Level(id) - cost) * D = Level(id) * D - cost * D
        BY <1>0, <4>1, TimesDifference, Zenon
      <4> QED BY <2>7, <4>2
    <3>3. cost * D \in Nat
      BY <1>0, ProductNat
    <3> DEFINE x == Level(id) * D
               g == granted[id] * D
               c == cost * D
    <3>4. /\ x \in Nat /\ g \in Nat /\ c \in Nat /\ x <= Credit(id)
          /\ Credit(id)' <= x - c /\ granted'[id] * D = g + c
      BY <2>4, <2>5, <3>1, <3>2, <3>3
    <3> HIDE DEF x, g, c
    <3>5. (g + c) + Credit(id)' <= g + Credit(id)
      BY <2>4, <2>5, <3>4
    <3> QED BY <2>5, <3>4, <3>5 DEF g
  <2> QED BY <1>3, <2>6, <2>7, LevelConsume
<1> QED BY <1>2, <1>3

(***************************************************************************)
(* Who has been idle for longer than cleanup_after_idle_duration has full  *)
(* credit: cleanup() changes no credit.                                    *)
(***************************************************************************)
LEMMA CreditClean ==
    ASSUME TypeOK, PastOnly, cleanup_after_idle_duration > 0, cleanup,
           UNCHANGED <<now, cleanup_after_idle_duration>>, NEW id \in Identifiers
    PROVE  Credit(id)' = Credit(id)
<1> DEFINE Kept == {i \in DOMAIN requests :
                       now - requests[i].last_refill <= cleanup_after_idle_duration}
<1>1. DOMAIN requests' = Kept /\ \A i \in Kept : requests'[i] = requests[i]
  BY DEF cleanup
<1>0. Full' = Full /\ Gain' = Gain
  BY DEF Full, Gain
<1>2. CASE id \in Kept
  BY <1>0, <1>1, <1>2 DEF Credit
<1>3. CASE id \notin DOMAIN requests
  BY <1>0, <1>1, <1>3 DEF Credit
<1>4. CASE id \in DOMAIN requests \ Kept
  <2> DEFINE idle == now - requests[id].last_refill
             D == cleanup_after_idle_duration
             a == requests[id].tokens * D
             b == idle * Gain
  <2>1. /\ idle \in Nat /\ idle > D /\ D \in Nat /\ requests[id].tokens \in Nat
        /\ max_tokens \in Nat
    <3>1. requests[id] \in Entry /\ now \in Nat /\ D \in Int
      BY <1>4 DEF TypeOK
    <3>2. requests[id].last_refill <= now
      BY <1>4 DEF PastOnly
    <3> QED BY <1>4, <3>1, <3>2, LimiterAssumption DEF Entry
  <2>2. Gain \in Nat /\ max_tokens <= Gain /\ Full \in Nat
    BY <2>1, GainFacts
  <2>3. Credit(id) = Least(Full, a + b) /\ Credit(id)' = Full
    BY <1>0, <1>1, <1>4 DEF Credit
  <2> HIDE DEF idle, D
  <2>4. a \in Nat /\ b \in Nat
    BY <2>1, <2>2, ProductNat, Zenon
  <2>5. max_tokens * D <= Gain * D
    <3>1. max_tokens \in Int /\ Gain \in Int
      BY <2>1, <2>2
    <3> QED BY <2>1, <2>2, <3>1, ProductOrder, Zenon
  <2>6. D * Gain <= idle * Gain
    <3>1. D \in Int /\ idle \in Int /\ D <= idle
      BY <2>1
    <3> QED BY <2>2, <3>1, ProductOrder, Zenon
  <2>7. Gain * D = D * Gain
    <3>1. D \in Int /\ Gain \in Int
      BY <2>1, <2>2
    <3> QED BY <3>1, Exchange, Zenon
  <2>8. Full <= b
    <3>1. Full <= D * Gain
      BY <2>5, <2>7 DEF Full, D
    <3>2. D * Gain \in Nat
      BY <2>1, <2>2, ProductNat, Zenon
    <3> DEFINE c == D * Gain
    <3>3. c \in Nat /\ Full <= c /\ c <= b
      BY <2>6, <3>1, <3>2
    <3> HIDE DEF c, b
    <3> QED BY <2>2, <2>4, <3>3
  <2> HIDE DEF a, b
  <2> QED BY <2>2, <2>3, <2>4, <2>8 DEF Least
<1> QED BY <1>2, <1>3, <1>4

-----------------------------------------------------------------------------
(***************************************************************************)
(* How the steps change what the invariants and the refinement see: time   *)
(* passes, a consume() succeeds or not, the count starts anew, or only the *)
(* cleanup thread and the destructor move.                                 *)
(***************************************************************************)
LEMMA StepKinds ==
    ASSUME TypeOK, PastOnly, [Next]_vars
    PROVE  /\ TypeOK' /\ PastOnly'
           /\ cleanup_after_idle_duration' = cleanup_after_idle_duration
           /\ \/ Tick
              \/ \E id \in Identifiers, cost \in Costs : consume(id, cost)
              \/ OpenWindow
              \/ /\ now' = now /\ window' = window /\ granted' = granted
                 /\ \A id \in Identifiers :
                       /\ CleanupRefills => Level(id)' = Level(id)
                       /\ cleanup_after_idle_duration > 0 => Credit(id)' = Credit(id)
<1> USE DEF buckets, thread
<1>1. CASE Tick
  <2>1. now' = now + 1 /\ UNCHANGED <<buckets, thread>>
    BY <1>1 DEF Tick
  <2> QED BY <1>1, <2>1 DEF TypeOK, PastOnly, Entry
<1>2. ASSUME NEW id \in Identifiers, NEW cost \in Costs, consume(id, cost)
      PROVE  /\ TypeOK' /\ PastOnly'
             /\ cleanup_after_idle_duration' = cleanup_after_idle_duration
  BY <1>2, LevelConsume
<1>3. CASE OpenWindow
  BY <1>3 DEF OpenWindow, TypeOK, PastOnly, Entry
<1>4. CASE Clean
  <2>1. /\ now' = now /\ window' = window /\ granted' = granted /\ cleanup
        /\ cleanup_after_idle_duration' = cleanup_after_idle_duration
    BY <1>4 DEF Clean
  <2>2. \A id \in Identifiers :
           /\ CleanupRefills => Level(id)' = Level(id)
           /\ cleanup_after_idle_duration > 0 => Credit(id)' = Credit(id)
    BY <2>1, LevelClean, CreditClean
  <2>3. \A i \in DOMAIN requests' : i \in DOMAIN requests /\ requests'[i] = requests[i]
    BY <2>1 DEF cleanup
  <2>4. TypeOK' /\ PastOnly'
    BY <1>4, <2>1, <2>3 DEF Clean, TypeOK, PastOnly, Entry
  <2> QED BY <2>1, <2>2, <2>4
<1>5. CASE \/ Check \/ Sleep \/ SpuriousWakeup \/ Timeout
           \/ SetStop \/ Notify \/ Join \/ UNCHANGED vars
  <2>1. UNCHANGED <<buckets, now>>
    BY <1>5 DEF Check, Sleep, SpuriousWakeup, Timeout, SetStop, Notify, Join, vars
  <2>2. \A id \in Identifiers : Level(id)' = Level(id) /\ Credit(id)' = Credit(id)
    BY <2>1 DEF Level, Refilled, Credit, Full, Gain
  <2>3. /\ loop' \in {"checking", "falling_asleep", "asleep", "cleaning", "exited"}
        /\ stop' \in BOOLEAN
        /\ dtor' \in {"alive", "stop_set", "notified", "destroyed"}
    BY <1>5 DEF Check, Sleep, SpuriousWakeup, Timeout, SetStop, Notify, Join, vars, TypeOK
  <2>4. TypeOK' /\ PastOnly'
    BY <2>1, <2>3 DEF TypeOK, PastOnly, Entry
  <2> QED BY <2>1, <2>2, <2>4
<1> QED BY <1>1, <1>2, <1>3, <1>4, <1>5 DEF Next, CleanupThread, Destructor

(***************************************************************************)
(* The limiter starts with no bucket stored, which is to say full ones.    *)
(***************************************************************************)
LEMMA InitFacts ==
    Init => /\ TypeOK /\ PastOnly /\ now = 0 /\ window = 0
            /\ \A id \in Identifiers : Level(id) = max_tokens /\ granted[id] = 0
<1> SUFFICES ASSUME Init
             PROVE  /\ TypeOK /\ PastOnly /\ now = 0 /\ window = 0
                    /\ \A id \in Identifiers : Level(id) = max_tokens /\ granted[id] = 0
  OBVIOUS
<1>1. DOMAIN requests = {}
  BY DEF Init
<1>2. granted \in [Identifiers -> Nat] /\ \A id \in Identifiers : granted[id] = 0
  BY DEF Init
<1>3. /\ now = 0 /\ window = 0 /\ stop = FALSE
      /\ loop = "checking" /\ dtor = "alive"
      /\ cleanup_after_idle_duration \in Int
  BY LimiterAssumption DEF Init
<1>4. TypeOK
  BY <1>1, <1>2, <1>3 DEF TypeOK
<1>5. PastOnly
  BY <1>1, <1>3 DEF PastOnly
<1>6. \A id \in Identifiers : Level(id) = max_tokens
  BY <1>1 DEF Level
<1> QED BY <1>2, <1>3, <1>4, <1>5, <1>6

(***************************************************************************)
(* Every bucket, the clock and the two threads keep their types; no stored *)
(* bucket holds more than max_tokens.                                      *)
(***************************************************************************)
THEOREM TypeCorrect == Spec => []TypeOK
<1> DEFINE Inv == TypeOK /\ PastOnly
<1>1. Init => Inv
  BY InitFacts
<1>2. Inv /\ [Next]_vars => Inv'
  BY StepKinds
<1> QED BY <1>1, <1>2, PTL DEF Spec

(***************************************************************************)
(* AdmissionBounded is inductive once what is left of the credit counts.   *)
(***************************************************************************)
Admitted ==
    cleanup_after_idle_duration > 0 =>
        \A id \in Identifiers :
            granted[id] * cleanup_after_idle_duration + Credit(id)
                <= Full + (now - window) * Gain

(***************************************************************************)
(* In any stretch of time consume() admits at most a full bucket and what  *)
(* is gained meanwhile, whatever the idle duration: the refill, or a full  *)
(* bucket for each bucket that cleanup() drops before it is full.          *)
(***************************************************************************)
THEOREM AdmissionLimited == Spec => []AdmissionBounded
<1> DEFINE Inv == TypeOK /\ PastOnly /\ Admitted
           D == cleanup_after_idle_duration
<1>1. Init => Inv
  <2> SUFFICES ASSUME Init, D > 0, NEW id \in Identifiers
               PROVE  granted[id] * D + Credit(id) <= Full + (now - window) * Gain
    BY InitFacts DEF Admitted
  <2>1. D \in Nat
    BY InitFacts DEF TypeOK
  <2>2. Gain \in Nat /\ Full \in Nat
    BY <2>1, GainFacts
  <2>3. (now - window) * Gain = 0 /\ granted[id] * D = 0
    BY <2>1, <2>2, InitFacts
  <2>4. Credit(id) = Full
    BY DEF Init, Credit
  <2> QED BY <2>2, <2>3, <2>4
<1>2. Inv /\ [Next]_vars => Inv'
  <2> SUFFICES ASSUME TypeOK, PastOnly, Admitted, [Next]_vars, D > 0, NEW id \in Identifiers
               PROVE  granted'[id] * D + Credit(id)' <= Full + (now' - window') * Gain
    <3>1. ASSUME Inv, [Next]_vars
          PROVE  TypeOK' /\ PastOnly' /\ D' = D /\ Full' = Full /\ Gain' = Gain
      BY <3>1, StepKinds DEF Full, Gain
    <3> QED BY <3>1 DEF Admitted
  <2> DEFINE r == (now - window) * Gain
             g == granted[id] * D
             c == Credit(id)
  <2>1. /\ now \in Int /\ window \in Int /\ now - window \in Nat
        /\ D \in Nat /\ granted[id] \in Nat
    BY DEF TypeOK, PastOnly
  <2>2. Gain \in Nat /\ Full \in Nat /\ Gain \in Int
    BY <2>1, GainFacts
  <2>3. r \in Nat /\ g \in Nat
    BY <2>1, <2>2, ProductNat, Zenon
  <2>4. c \in 0 .. Full /\ g + c <= Full + r
    BY CreditType DEF Admitted
  <2>a. TypeOK' /\ PastOnly' /\ D' = D
    BY StepKinds
  <2>5. CASE Tick
    <3>1. now' = now + 1 /\ window' = window /\ granted' = granted
      BY <2>5 DEF Tick, buckets
    <3>2. Credit(id)' \in 0 .. Full /\ Credit(id)' <= c + Gain
      BY <2>5, CreditTick
    <3>3. ((now + 1) - window) * Gain = r + Gain
      BY <2>1, <2>2, OneMoreUnit, Zenon
    <3> HIDE DEF r, c, g
    <3>4. g + Credit(id)' <= Full + (r + Gain)
      BY <2>2, <2>3, <2>4, <3>2
    <3> QED BY <3>1, <3>3, <3>4 DEF g
  <2>6. ASSUME NEW i \in Identifiers, NEW cost \in Costs, consume(i, cost)
        PROVE  granted'[id] * D + Credit(id)' <= Full + (now' - window') * Gain
    <3>1. now' = now /\ window' = window
      BY <2>6 DEF consume
    <3>2. Credit(id)' \in Nat /\ granted'[id] * D + Credit(id)' <= g + c
      BY <2>6, CreditConsume
    <3>3. granted'[id] * D \in Nat
      <4>1. granted'[id] \in Nat
        BY <2>a DEF TypeOK
      <4> QED BY <2>1, <4>1, ProductNat, Zenon
    <3> DEFINE h == granted'[id] * D
    <3>4. h \in Nat /\ Credit(id)' \in Nat /\ h + Credit(id)' <= g + c
      BY <3>2, <3>3
    <3> HIDE DEF r, c, g, h
    <3>5. h + Credit(id)' <= Full + r
      BY <2>2, <2>3, <2>4, <3>4
    <3> QED BY <3>1, <3>5 DEF h, r
  <2>7. CASE OpenWindow
    <3>1. now' = now /\ window' = now /\ granted'[id] = 0
      BY <2>7 DEF OpenWindow
    <3>2. (now - now) * Gain = 0 /\ 0 * D = 0
      BY <2>1, <2>2
    <3>3. Credit(id)' = Credit(id)
      BY <2>7 DEF OpenWindow, Credit, Full, Gain
    <3> QED BY <2>2, <2>4, <3>1, <3>2, <3>3
  <2>8. CASE /\ now' = now /\ window' = window /\ granted' = granted
             /\ Credit(id)' = Credit(id)
    BY <2>4, <2>8
  <2> QED BY <2>5, <2>6, <2>7, <2>8, StepKinds
<1>3. Inv => AdmissionBounded
  <2> SUFFICES ASSUME Inv, D > 0, NEW id \in Identifiers
               PROVE  (granted[id] - max_tokens) * D <= (now - window) * Gain
    BY DEF AdmissionBounded
  <2> DEFINE r == (now - window) * Gain
             g == granted[id] * D
  <2>1. /\ now - window \in Nat /\ D \in Nat /\ D \in Int /\ granted[id] \in Nat
        /\ granted[id] \in Int /\ max_tokens \in Int
    BY LimiterAssumption DEF TypeOK, PastOnly
  <2>2. Gain \in Nat /\ Full \in Nat
    BY <2>1, GainFacts
  <2>3. r \in Nat /\ g \in Nat
    BY <2>1, <2>2, ProductNat, Zenon
  <2>4. Credit(id) \in 0 .. Full /\ g + Credit(id) <= Full + r
    BY CreditType DEF Admitted
  <2>5. (granted[id] - max_tokens) * D = g - Full
    <3>1. (granted[id] - max_tokens) * D = granted[id] * D - max_tokens * D
      BY <2>1, TimesDifference, Zenon
    <3> QED BY <3>1 DEF Full
  <2> HIDE DEF r, g
  <2>6. g - Full <= r
    BY <2>2, <2>3, <2>4
  <2> QED BY <2>5, <2>6 DEF r
<1> QED BY <1>1, <1>2, <1>3, PTL DEF Spec

(***************************************************************************)
(* If an idle bucket is full before cleanup() drops it, as it is with the  *)
(* defaults, consume() admits at most a full bucket and refill_rate for    *)
(* every unit of time.                                                     *)
(***************************************************************************)
THEOREM AdmittedAtRate ==
    Spec => [](CleanupRefills =>
                  \A id \in Identifiers :
                      granted[id] <= max_tokens + (now - window) * refill_rate)
<1> DEFINE Rated == CleanupRefills =>
                       \A id \in Identifiers :
                           granted[id] <= max_tokens + (now - window) * refill_rate
           Inv == TypeOK /\ PastOnly
           D == cleanup_after_idle_duration
<1>1. Init => Inv
  BY InitFacts
<1>2. Inv /\ [Next]_vars => Inv'
  BY StepKinds
<1>3. Inv /\ AdmissionBounded => Rated
  <2> SUFFICES ASSUME TypeOK, PastOnly, AdmissionBounded, CleanupRefills,
                      NEW id \in Identifiers
               PROVE  granted[id] <= max_tokens + (now - window) * refill_rate
    OBVIOUS
  <2> DEFINE e == now - window
             r == e * refill_rate
             g == granted[id] - max_tokens
  <2>1. /\ e \in Nat /\ e \in Int /\ D \in Int /\ g \in Int /\ refill_rate \in Nat \ {0}
        /\ refill_rate \in Int /\ max_tokens \in Nat \ {0} /\ granted[id] \in Nat
    BY LimiterAssumption DEF TypeOK, PastOnly
  <2>2. D > 0 /\ D \in Nat
    <3>1. D <= 0 => D * refill_rate <= 0 * refill_rate
      <4>1. D \in Int /\ 0 \in Int /\ refill_rate \in Nat
        BY <2>1
      <4> HIDE DEF D
      <4> QED BY <4>1, ProductOrder
    <3>2. 0 * refill_rate = 0 /\ D * refill_rate \in Int
      BY <2>1
    <3> QED BY <2>1, <3>1, <3>2 DEF CleanupRefills
  <2>3. Gain = D * refill_rate
    <3> DEFINE x == D * refill_rate
    <3>1. x \in Int /\ x >= max_tokens
      BY <2>1 DEF CleanupRefills
    <3>2. Gain = IF x <= max_tokens THEN max_tokens ELSE x
      BY DEF Gain, Greatest
    <3> HIDE DEF x
    <3>3. Gain = x
      BY <2>1, <3>1, <3>2
    <3> QED BY <3>3 DEF x
  <2>4. g * D <= e * (D * refill_rate)
    BY <2>2, <2>3 DEF AdmissionBounded
  <2> HIDE DEF D, e, g
  <2>5. (e * refill_rate) * D = e * (D * refill_rate)
    BY <2>1, Regroup, Zenon
  <2>6. r \in Nat /\ r * D \in Nat
    <3>1. r \in Nat
      BY <2>1, ProductNat
    <3> QED BY <2>2, <3>1, ProductNat, Zenon
  <2>7. g * D <= r * D
    BY <2>4, <2>5
  <2> HIDE DEF r
  <2>8. g <= r
    <3> SUFFICES ASSUME ~(g <= r) PROVE FALSE
      OBVIOUS
    <3>1. r + 1 <= g /\ r + 1 \in Int
      BY <2>1, <2>6
    <3>2. (r + 1) * D <= g * D /\ g * D \in Int
      BY <2>1, <2>2, <3>1, ProductOrder, Zenon
    <3>3. (r + 1) * D = r * D + D
      BY <2>2, <2>6
    <3> DEFINE x == r * D
               y == g * D
    <3>4. x \in Nat /\ y \in Int /\ x + D <= y /\ y <= x
      BY <2>6, <2>7, <3>2, <3>3
    <3> HIDE DEF x, y
    <3> QED BY <2>2, <3>4
  <2> QED BY <2>1, <2>6, <2>8 DEF g, r, e
<1> QED BY <1>1, <1>2, <1>3, AdmissionLimited, PTL DEF Spec

(***************************************************************************)
(* With CleanupRefills, consume() and cleanup() implement buckets that are *)
(* refilled at every unit of time and never dropped.                       *)
(***************************************************************************)
THEOREM RefinesTokenBucket == Spec => ImplementsTokenBucket
<1> DEFINE Inv == TypeOK /\ PastOnly
           lev == [id \in Identifiers |-> Level(id)]
<1>1. Init => Inv /\ Ideal!Init
  BY InitFacts DEF Ideal!Init, Init
<1>2. Inv /\ [Next]_vars => Inv'
  BY StepKinds
<1>3. Inv /\ [Next]_vars => [CleanupRefills => Ideal!Next]_(Ideal!vars)
  <2> SUFFICES ASSUME TypeOK, PastOnly, CleanupRefills, [Next]_vars
               PROVE  [Ideal!Next]_(Ideal!vars)
    OBVIOUS
  <2>1. CASE Tick
    <3>1. lev' = [id \in Identifiers |-> Least(max_tokens, Level(id) + refill_rate)]
      BY <2>1, LevelTick
    <3>2. granted' = granted
      BY <2>1 DEF Tick, buckets
    <3> QED BY <3>1, <3>2 DEF Ideal!Next, Ideal!Refill, Ideal!Least, Least
  <2>2. ASSUME NEW id \in Identifiers, NEW cost \in Costs, consume(id, cost)
        PROVE  [Ideal!Next]_(Ideal!vars)
    <3>1. 0 < cost
      BY <2>2 DEF consume
    <3>2. CASE /\ cost <= Level(id) /\ Level(id)' = Level(id) - cost
               /\ granted' = [granted EXCEPT ![id] = @ + cost]
      <4>1. lev' = [lev EXCEPT ![id] = @ - cost]
        BY <2>2, <3>2, LevelConsume
      <4> QED BY <3>1, <3>2, <4>1 DEF Ideal!Next, Ideal!Grant
    <3>3. CASE Level(id)' = Level(id) /\ granted' = granted
      <4>1. lev' = lev
        BY <2>2, <3>3, LevelConsume
      <4> QED BY <3>3, <4>1 DEF Ideal!vars
    <3> QED BY <2>2, <3>2, <3>3, LevelConsume
  <2>3. CASE OpenWindow
    <3>1. lev' = lev /\ granted' = [id \in Identifiers |-> 0]
      BY <2>3 DEF OpenWindow, Level, Refilled
    <3> QED BY <3>1 DEF Ideal!Next, Ideal!StartCounting
  <2>4. CASE granted' = granted /\ \A id \in Identifiers : Level(id)' = Level(id)
    <3>1. lev' = lev
      BY <2>4
    <3> QED BY <2>4, <3>1 DEF Ideal!vars
  <2> QED BY <2>1, <2>2, <2>3, <2>4, StepKinds
<1> QED BY <1>1, <1>2, <1>3, PTL DEF Spec, ImplementsTokenBucket

(***************************************************************************)
(* The destructor joins the cleanup thread: it has left cleanup_loop when  *)
(* the members are destroyed.                                              *)
(***************************************************************************)
THEOREM ThreadJoined == Spec => []NoThreadOutlives
<1>1. Init => NoThreadOutlives
  BY DEF Init, NoThreadOutlives
<1>2. NoThreadOutlives /\ [Next]_vars => NoThreadOutlives'
  BY DEF NoThreadOutlives, Next, vars, thread, buckets, Tick, consume, OpenWindow,
         CleanupThread, Check, Sleep, Timeout, Clean, SpuriousWakeup, SetStop,
         Destructor, Notify, Join
<1> QED BY <1>1, <1>2, PTL DEF Spec

-----------------------------------------------------------------------------
(* The thread_safe_unordered_map. *)

USE DEF Slots, Empty, Present

\* The map while t holds a locked_value: the one it found, perhaps with a new
\* element, and with the change it has written.
HoldsValue(t) ==
    /\ key[t] \in Keys
    /\ \E v \in Values :
          LET m == Emplaced(before, key[t], v)
          IN  map = IF pc[t] = "written" THEN [m EXCEPT ![key[t]] = Changed[m[key[t]]]] ELSE m
    /\ pc[t] = "read" => seen[t] = map[key[t]]

\* The map while t is in for_each: the elements it has come to are changed.
InForEach(t) ==
    /\ todo[t] \subseteq Present(before)
    /\ map = [k \in Keys |-> IF k \in Present(before) \ todo[t]
                             THEN Changed[before[k]] ELSE before[k]]

\* One thread at a time is inside, and it alone has changed the map since.
MapInv ==
    /\ MapTypeOK
    /\ \A t \in Threads : pc[t] # "idle" => mutex = {t}
    /\ \A t \in mutex : pc[t] # "idle"
    /\ \A t \in Threads : pc[t] \in {"locked", "read", "written"} => HoldsValue(t)
    /\ \A t \in Threads : pc[t] = "each" => InForEach(t)

-----------------------------------------------------------------------------
(***************************************************************************)
(* try_emplace keeps the map a map and leaves the key with a value.        *)
(***************************************************************************)
LEMMA EmplacedType ==
    ASSUME NEW m \in [Keys -> Slots], NEW k \in Keys, NEW v \in Values
    PROVE  Emplaced(m, k, v) \in [Keys -> Slots] /\ Emplaced(m, k, v)[k] \in Values
BY MapAssumption DEF Emplaced

(***************************************************************************)
(* No method leaves anything but values in the map.                        *)
(***************************************************************************)
LEMMA MethodType ==
    ASSUME map \in [Keys -> Slots], Method
    PROVE  map' \in [Keys -> Slots]
<1>1. ASSUME NEW k \in Keys, NEW v \in Values, insert(k, v) \/ emplace(k, v)
      PROVE  map' \in [Keys -> Slots]
  <2>1. CASE insert(k, v)
    BY <2>1 DEF insert
  <2>2. CASE emplace(k, v)
    BY <2>2, EmplacedType DEF emplace
  <2> QED BY <1>1, <2>1, <2>2
<1>2. ASSUME NEW k \in Keys,
             get(k) \/ try_get(k) \/ contains(k) \/ erase(k) \/ extract(k)
      PROVE  map' \in [Keys -> Slots]
  BY <1>2 DEF get, try_get, contains, erase, extract
<1>3. CASE clear \/ empty \/ snapshot
  BY <1>3 DEF clear, empty, snapshot
<1> QED BY <1>1, <1>2, <1>3 DEF Method

(***************************************************************************)
(* The element of a locked_value has a value.                              *)
(***************************************************************************)
LEMMA HeldValue ==
    ASSUME MapTypeOK, NEW t \in Threads, HoldsValue(t)
    PROVE  map[key[t]] \in Values
<1>1. PICK v \in Values :
        LET m == Emplaced(before, key[t], v)
        IN  map = IF pc[t] = "written" THEN [m EXCEPT ![key[t]] = Changed[m[key[t]]]] ELSE m
  BY DEF HoldsValue
<1>2. key[t] \in Keys /\ before \in [Keys -> Slots]
  BY DEF HoldsValue, MapTypeOK
<1>3. /\ Emplaced(before, key[t], v) \in [Keys -> Slots]
      /\ Emplaced(before, key[t], v)[key[t]] \in Values
  BY <1>2, EmplacedType
<1> QED BY <1>1, <1>2, <1>3, MapAssumption

-----------------------------------------------------------------------------
(***************************************************************************)
(* Between two calls nobody holds the mutex.                               *)
(***************************************************************************)
LEMMA FreeMeansIdle ==
    ASSUME MapInv, mutex = {}, NEW t \in Threads PROVE pc[t] = "idle"
BY DEF MapInv

(***************************************************************************)
(* Whoever is inside is there alone.                                       *)
(***************************************************************************)
LEMMA OneInside ==
    ASSUME MapInv, NEW t \in Threads, pc[t] # "idle"
    PROVE  mutex = {t} /\ \A u \in Threads \ {t} : pc[u] = "idle"
BY DEF MapInv

(***************************************************************************)
(* Initially.                                                              *)
(***************************************************************************)
LEMMA InvInit == MapInit => MapInv
BY MapAssumption DEF MapInit, DataInit, MapInv, MapTypeOK

(***************************************************************************)
(* A thread that takes the mutex for several steps.                        *)
(***************************************************************************)
LEMMA InvLock ==
    ASSUME MapInv, NEW t \in Threads, get_locked(t) \/ try_emplace_locked(t) \/ for_each(t)
    PROVE  MapInv'
<1>1. /\ MapTypeOK /\ mutex = {} /\ pc[t] = "idle"
      /\ \A u \in Threads : pc[u] = "idle"
  BY FreeMeansIdle DEF MapInv, get_locked, try_emplace_locked, for_each, Calling
<1>2. CASE get_locked(t)
  <2>1. PICK k \in Keys :
          IF map[k] = Absent
          THEN get(k) /\ UNCHANGED <<mutex, pc, key, before>>
          ELSE /\ Lock(t, "locked")
               /\ key' = [key EXCEPT ![t] = k]
               /\ UNCHANGED <<map, result>>
    BY <1>2 DEF get_locked
  <2>2. UNCHANGED <<map, seen, todo>>
    BY <1>2, <2>1 DEF get_locked, get
  <2>3. CASE map[k] = Absent
    BY <1>1, <2>1, <2>2, <2>3 DEF MapInv, MapTypeOK, HoldsValue, InForEach
  <2>4. CASE map[k] # Absent
    <3>1. /\ mutex' = {t} /\ before' = map /\ pc' = [pc EXCEPT ![t] = "locked"]
          /\ key' = [key EXCEPT ![t] = k]
      BY <2>1, <2>4 DEF Lock, Goto
    <3>2. MapTypeOK'
      BY <1>1, <2>2, <3>1 DEF MapTypeOK
    <3>3. pc'[t] = "locked" /\ key'[t] = k /\ \A u \in Threads \ {t} : pc'[u] = "idle"
      BY <1>1, <3>1 DEF MapTypeOK
    <3>4. map[k] \in Values
      BY <1>1, <2>4 DEF MapTypeOK
    <3>5. HoldsValue(t)'
      <4>1. map' = Emplaced(before', k, map[k])
        BY <2>2, <2>4, <3>1 DEF Emplaced
      <4> QED BY <3>3, <3>4, <4>1 DEF HoldsValue
    <3> QED BY <3>1, <3>2, <3>3, <3>5 DEF MapInv
  <2> QED BY <2>3, <2>4
<1>3. CASE try_emplace_locked(t)
  <2>1. PICK k \in Keys, v \in Values :
          map' = Emplaced(map, k, v) /\ key' = [key EXCEPT ![t] = k]
    BY <1>3 DEF try_emplace_locked, emplace
  <2>2. /\ mutex' = {t} /\ before' = map /\ pc' = [pc EXCEPT ![t] = "locked"]
        /\ UNCHANGED <<seen, todo>>
    BY <1>3 DEF try_emplace_locked, Lock, Goto
  <2>3. MapTypeOK'
    BY <1>1, <2>1, <2>2, EmplacedType DEF MapTypeOK
  <2>4. pc'[t] = "locked" /\ key'[t] = k /\ \A u \in Threads \ {t} : pc'[u] = "idle"
    BY <1>1, <2>1, <2>2 DEF MapTypeOK
  <2>5. HoldsValue(t)'
    BY <2>1, <2>2, <2>4 DEF HoldsValue
  <2> QED BY <2>2, <2>3, <2>4, <2>5 DEF MapInv
<1>4. CASE for_each(t)
  <2>1. /\ mutex' = {t} /\ before' = map /\ pc' = [pc EXCEPT ![t] = "each"]
        /\ todo' = [todo EXCEPT ![t] = Present(map)]
        /\ UNCHANGED <<map, key, seen>>
    BY <1>4 DEF for_each, Lock, Goto
  <2>2. MapTypeOK'
    BY <1>1, <2>1 DEF MapTypeOK
  <2>3. /\ pc'[t] = "each" /\ todo'[t] = Present(map)
        /\ \A u \in Threads \ {t} : pc'[u] = "idle"
    BY <1>1, <2>1 DEF MapTypeOK
  <2>4. InForEach(t)'
    BY <1>1, <2>1, <2>3 DEF InForEach, MapTypeOK
  <2> QED BY <2>1, <2>2, <2>3, <2>4 DEF MapInv
<1> QED BY <1>2, <1>3, <1>4

(***************************************************************************)
(* A thread that has a locked_value.                                       *)
(***************************************************************************)
LEMMA InvUse ==
    ASSUME MapInv, NEW t \in Threads, Read(t) \/ Write(t) \/ Destroy(t)
    PROVE  MapInv'
<1>1. pc[t] \in {"locked", "read", "written"}
  BY DEF Read, Write, Destroy
<1>2. /\ MapTypeOK /\ HoldsValue(t) /\ mutex = {t} /\ key[t] \in Keys
      /\ \A u \in Threads \ {t} : pc[u] = "idle"
  BY <1>1, OneInside DEF MapInv, HoldsValue
<1>3. map[key[t]] \in Values
  BY <1>2, HeldValue
<1>4. CASE Read(t)
  <2>1. /\ pc[t] = "locked" /\ pc' = [pc EXCEPT ![t] = "read"]
        /\ seen' = [seen EXCEPT ![t] = map[key[t]]]
        /\ UNCHANGED <<map, mutex, key, todo, before>>
    BY <1>4 DEF Read, Goto
  <2>2. MapTypeOK'
    BY <1>2, <1>3, <2>1 DEF MapTypeOK
  <2>3. /\ pc'[t] = "read" /\ seen'[t] = map[key[t]]
        /\ \A u \in Threads \ {t} : pc'[u] = "idle"
    BY <1>2, <2>1 DEF MapTypeOK
  <2>4. HoldsValue(t)'
    BY <1>2, <2>1, <2>3 DEF HoldsValue
  <2> QED BY <1>2, <2>1, <2>2, <2>3, <2>4 DEF MapInv
<1>5. CASE Write(t)
  <2>1. /\ pc[t] = "read" /\ pc' = [pc EXCEPT ![t] = "written"]
        /\ map' = [map EXCEPT ![key[t]] = Changed[seen[t]]]
        /\ UNCHANGED <<mutex, key, seen, todo, before>>
    BY <1>5 DEF Write, Goto, local
  <2>2. seen[t] = map[key[t]]
    BY <1>2, <2>1 DEF HoldsValue
  <2>3. MapTypeOK'
    BY <1>2, <1>3, <2>1, <2>2, MapAssumption DEF MapTypeOK
  <2>4. pc'[t] = "written" /\ \A u \in Threads \ {t} : pc'[u] = "idle"
    BY <1>2, <2>1 DEF MapTypeOK
  <2>5. HoldsValue(t)'
    <3>1. PICK v \in Values : map = Emplaced(before, key[t], v)
      BY <1>2, <2>1 DEF HoldsValue
    <3>2. map' = [Emplaced(before, key[t], v)
                    EXCEPT ![key[t]] = Changed[Emplaced(before, key[t], v)[key[t]]]]
      BY <2>1, <2>2, <3>1
    <3> QED BY <1>2, <2>1, <2>4, <3>2 DEF HoldsValue
  <2> QED BY <1>2, <2>1, <2>3, <2>4, <2>5 DEF MapInv
<1>6. CASE Destroy(t)
  <2>1. /\ mutex' = {} /\ before' = Empty /\ pc' = [pc EXCEPT ![t] = "idle"]
        /\ key' = [key EXCEPT ![t] = Absent] /\ seen' = [seen EXCEPT ![t] = Absent]
        /\ UNCHANGED <<map, todo>>
    BY <1>2, <1>6 DEF Destroy, Unlock, Goto
  <2>2. MapTypeOK' /\ \A u \in Threads : pc'[u] = "idle"
    BY <1>2, <2>1 DEF MapTypeOK
  <2> QED BY <2>1, <2>2 DEF MapInv
<1> QED BY <1>4, <1>5, <1>6

(***************************************************************************)
(* A thread that is in for_each.                                           *)
(***************************************************************************)
LEMMA InvForEach ==
    ASSUME MapInv, NEW t \in Threads, Callback(t) \/ ForEachReturns(t)
    PROVE  MapInv'
<1>1. pc[t] = "each"
  BY DEF Callback, ForEachReturns
<1>2. /\ MapTypeOK /\ InForEach(t) /\ mutex = {t}
      /\ \A u \in Threads \ {t} : pc[u] = "idle"
  BY <1>1, OneInside DEF MapInv
<1>3. CASE Callback(t)
  <2>1. PICK k \in todo[t] :
          /\ map' = [map EXCEPT ![k] = Changed[map[k]]]
          /\ todo' = [todo EXCEPT ![t] = todo[t] \ {k}]
    BY <1>3 DEF Callback
  <2>2. UNCHANGED <<mutex, pc, key, seen, before>>
    BY <1>3 DEF Callback
  <2>3. k \in Present(before) /\ map[k] = before[k] /\ before[k] \in Values
    BY <1>2, <2>1 DEF InForEach, MapTypeOK
  <2>4. MapTypeOK'
    BY <1>2, <2>1, <2>2, <2>3, MapAssumption DEF MapTypeOK
  <2>5. todo'[t] = todo[t] \ {k}
    BY <1>2, <2>1 DEF MapTypeOK
  <2>6. InForEach(t)'
    BY <1>2, <2>1, <2>2, <2>3, <2>5 DEF InForEach, MapTypeOK
  <2> QED BY <1>1, <1>2, <2>2, <2>4, <2>6 DEF MapInv
<1>4. CASE ForEachReturns(t)
  <2>1. /\ mutex' = {} /\ before' = Empty /\ pc' = [pc EXCEPT ![t] = "idle"]
        /\ todo' = [todo EXCEPT ![t] = {}]
        /\ UNCHANGED <<map, key, seen>>
    BY <1>2, <1>4 DEF ForEachReturns, Unlock, Goto
  <2>2. MapTypeOK' /\ \A u \in Threads : pc'[u] = "idle"
    BY <1>2, <2>1 DEF MapTypeOK
  <2> QED BY <2>1, <2>2 DEF MapInv
<1> QED BY <1>3, <1>4

(***************************************************************************)
(* Every step keeps the invariant.                                         *)
(***************************************************************************)
LEMMA InvStep ==
    ASSUME MapInv, [MapNext]_mapVars PROVE MapInv'
<1>1. ASSUME NEW t \in Threads, Call(t) PROVE MapInv'
  <2>1. /\ MapTypeOK /\ mutex = {} /\ Method /\ UNCHANGED <<mutex, pc, key, seen, todo, before>>
        /\ \A u \in Threads : pc[u] = "idle"
    BY <1>1, FreeMeansIdle DEF MapInv, Call, Calling, local
  <2>2. map' \in [Keys -> Slots]
    BY <2>1, MethodType DEF MapTypeOK
  <2>3. MapTypeOK'
    BY <2>1, <2>2 DEF MapTypeOK
  <2> QED BY <2>1, <2>3 DEF MapInv
<1>2. CASE UNCHANGED mapVars
  <2>1. UNCHANGED <<map, mutex, pc, key, seen, todo, before>>
    BY <1>2 DEF mapVars, local
  <2> QED BY <2>1 DEF MapInv, MapTypeOK, HoldsValue, InForEach
<1> QED BY <1>1, <1>2, InvLock, InvUse, InvForEach DEF MapNext, Inside

(***************************************************************************)
(* The inductive invariant holds in every reachable state.                 *)
(***************************************************************************)
THEOREM MapInvariant == MapSpec => []MapInv
<1>1. MapInv /\ [MapNext]_mapVars => MapInv'
  BY InvStep
<1> QED BY InvInit, <1>1, PTL DEF MapSpec

(***************************************************************************)
(* The pointer of a locked_value is good until it is destroyed, and what   *)
(* has been read through it is still the value when it is written.         *)
(***************************************************************************)
THEOREM ValueStable == MapSpec => []LockedValueStable
<1>1. MapInv => LockedValueStable
  <2> SUFFICES ASSUME MapInv, NEW t \in Threads, pc[t] \in {"locked", "read", "written"}
               PROVE  map[key[t]] # Absent /\ (pc[t] = "read" => map[key[t]] = seen[t])
    BY DEF LockedValueStable
  <2>1. MapTypeOK /\ HoldsValue(t)
    BY DEF MapInv
  <2>2. map[key[t]] \in Values
    BY <2>1, HeldValue
  <2> QED BY <2>1, <2>2, MapAssumption DEF HoldsValue
<1> QED BY <1>1, MapInvariant, PTL

-----------------------------------------------------------------------------
(***************************************************************************)
(* While the mutex is free, a method is that method of the contract.       *)
(***************************************************************************)
LEMMA SameMethod ==
    ASSUME mutex = {}, mutex' = {}, Method PROVE Contract!Method
<1> USE DEF Returns, Contract!Returns, Nothing, Contract!Nothing, At, Contract!At
<1>1. ASSUME NEW k \in Keys, NEW v \in Values, insert(k, v) \/ emplace(k, v)
      PROVE  Contract!insert(k, v) \/ Contract!emplace(k, v)
  BY <1>1 DEF insert, emplace, Emplaced, Contract!insert, Contract!emplace, Contract!Emplaced
<1>2. ASSUME NEW k \in Keys,
             get(k) \/ try_get(k) \/ contains(k) \/ erase(k) \/ extract(k)
      PROVE  \/ Contract!get(k) \/ Contract!contains(k)
             \/ Contract!erase(k) \/ Contract!extract(k)
  BY <1>2 DEF get, try_get, contains, erase, extract,
              Contract!get, Contract!contains, Contract!erase, Contract!extract
<1>3. CASE clear \/ empty \/ snapshot
  BY <1>3 DEF clear, empty, snapshot, Empty,
              Contract!clear, Contract!empty, Contract!snapshot, Contract!Empty, Contract!Method
<1> QED BY <1>1, <1>2, <1>3 DEF Method, Contract!Method

(***************************************************************************)
(* A thread that destroys its locked_value takes the step Use.             *)
(***************************************************************************)
LEMMA DestroyIsUse ==
    ASSUME MapInv, NEW t \in Threads, Destroy(t) PROVE Contract!Use
<1>1. /\ HoldsValue(t) /\ key[t] \in Keys
      /\ mutex = {t} /\ mutex' = {} /\ map' = map
      /\ Returns(pc[t] = "written", Nothing)
  BY OneInside DEF MapInv, HoldsValue, Destroy, Unlock
<1>2. PICK v \in Values :
        LET m == Emplaced(before, key[t], v)
        IN  map = IF pc[t] = "written" THEN [m EXCEPT ![key[t]] = Changed[m[key[t]]]] ELSE m
  BY <1>1 DEF HoldsValue
<1> DEFINE wrote == pc[t] = "written"
<1>3. wrote \in BOOLEAN
  OBVIOUS
<1>4. LET m == Contract!Emplaced(before, key[t], v)
      IN  map' = IF wrote THEN [m EXCEPT ![key[t]] = Changed[m[key[t]]]] ELSE m
  BY <1>1, <1>2 DEF Emplaced, Contract!Emplaced
<1>5. Contract!Returns(wrote, Contract!Nothing)
  BY <1>1 DEF Returns, Nothing, Contract!Returns, Contract!Nothing
<1> HIDE DEF wrote
<1> QED BY <1>1, <1>3, <1>4, <1>5 DEF Contract!Use

(***************************************************************************)
(* A thread that leaves for_each takes the step ForEach.                   *)
(***************************************************************************)
LEMMA ReturnIsForEach ==
    ASSUME MapInv, NEW t \in Threads, ForEachReturns(t) PROVE Contract!ForEach
<1>1. InForEach(t) /\ mutex = {t} /\ mutex' = {} /\ map' = map
  BY OneInside DEF MapInv, ForEachReturns, Unlock
<1>2. PICK ok \in BOOLEAN : (ok => todo[t] = {}) /\ Returns(ok, Nothing)
  BY DEF ForEachReturns
<1> DEFINE done == Present(before) \ todo[t]
<1>3. done \in SUBSET Contract!Present(before)
  BY DEF Contract!Present
<1>4. ok => done = Contract!Present(before)
  BY <1>2 DEF Contract!Present
<1>5. map' = [k \in Keys |-> IF k \in done THEN Changed[before[k]] ELSE before[k]]
  BY <1>1 DEF InForEach
<1>6. Contract!Returns(ok, Contract!Nothing)
  BY <1>2 DEF Returns, Nothing, Contract!Returns, Contract!Nothing
<1> HIDE DEF done
<1> QED BY <1>1, <1>3, <1>4, <1>5, <1>6 DEF Contract!ForEach

(***************************************************************************)
(* Every step of a thread is a step of the contract or leaves it alone.    *)
(***************************************************************************)
LEMMA RefineStep ==
    ASSUME MapInv, [MapNext]_mapVars PROVE [Contract!Next]_(Contract!vars)
<1>1. ASSUME NEW t \in Threads, Call(t) PROVE Contract!Next
  BY <1>1, SameMethod DEF Call, Calling, Contract!Next
<1>2. ASSUME NEW t \in Threads, get_locked(t) PROVE [Contract!Next]_(Contract!vars)
  <2>1. PICK k \in Keys :
          IF map[k] = Absent
          THEN get(k) /\ UNCHANGED <<mutex, pc, key, before>>
          ELSE /\ Lock(t, "locked")
               /\ key' = [key EXCEPT ![t] = k]
               /\ UNCHANGED <<map, result>>
    BY <1>2 DEF get_locked
  <2>2. mutex = {}
    BY <1>2 DEF get_locked, Calling
  <2>3. CASE map[k] = Absent
    <3>1. Method /\ mutex' = {}
      BY <2>1, <2>2, <2>3 DEF Method
    <3> QED BY <2>2, <3>1, SameMethod DEF Contract!Next
  <2>4. CASE map[k] # Absent
    BY <2>1, <2>2, <2>4 DEF Lock, Contract!vars
  <2> QED BY <2>3, <2>4
<1>3. ASSUME NEW t \in Threads, for_each(t)
      PROVE  UNCHANGED Contract!vars
  BY <1>3 DEF for_each, Calling, Lock, Contract!vars
<1>6. ASSUME NEW t \in Threads, try_emplace_locked(t)
      PROVE  Contract!Inserted
  <2>1. PICK k \in Keys, v \in Values : emplace(k, v)
    BY <1>6 DEF try_emplace_locked
  <2>2. mutex = {} /\ mutex' = {t} /\ before' = map
    BY <1>6 DEF try_emplace_locked, Calling, Lock
  <2>3. result' = [ok |-> map[k] = Absent, values |-> Nothing]
    BY <2>1 DEF emplace, Returns
  <2> QED BY <2>2, <2>3 DEF Contract!Inserted, Contract!Returns, Contract!Nothing, Nothing
<1>4. ASSUME NEW t \in Threads, Read(t) \/ Write(t) \/ Callback(t)
      PROVE  UNCHANGED Contract!vars
  <2>1. mutex = {t}
    BY <1>4, OneInside DEF Read, Write, Callback
  <2>2. UNCHANGED <<mutex, before, result>>
    BY <1>4 DEF Read, Write, Callback
  <2> QED BY <2>1, <2>2 DEF Contract!vars
<1>5. CASE UNCHANGED mapVars
  BY <1>5 DEF mapVars, Contract!vars
<1> QED BY <1>1, <1>2, <1>3, <1>4, <1>5, <1>6, DestroyIsUse, ReturnIsForEach
        DEF MapNext, Inside, Contract!Next

(***************************************************************************)
(* Every behaviour of the map is one the contract allows: methods, uses of *)
(* a locked_value and loops of for_each take effect at once.               *)
(***************************************************************************)
THEOREM RefinesContract == MapSpec => ImplementsContract
<1>1. MapInit => Contract!Init
  BY DEF MapInit, DataInit, Nothing, Contract!Init, Contract!DataInit, Contract!Empty,
         Contract!Nothing
<1>2. MapInv /\ [MapNext]_mapVars => [Contract!Next]_(Contract!vars)
  BY RefineStep
<1> QED BY <1>1, <1>2, MapInvariant, PTL DEF MapSpec, ImplementsContract, Contract!Spec
=============================================================================
