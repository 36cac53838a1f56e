--------------------------- MODULE RateLimiterProofs ---------------------------
(***************************************************************************)
(* A theorem about RateLimiter, for every number of callers and keys and   *)
(* every limit that validate accepts.                                      *)
(***************************************************************************)
EXTENDS RateLimiter, TLAPS

\* What a key may have been granted x after its first request, under a limit.
Allowance(lim, x) ==
    LET purged == IF lim.capacity <= lim.refill * (IdleTTL - MaxStale) THEN 0
                  ELSE x \div (IdleTTL + 1 - MaxStale)
    IN  lim.capacity * (1 + purged) + lim.refill * x

\* A key with a bucket: what it was granted and what it still has do not
\* exceed the allowance at the time of its last refill.
Held(k) ==
    /\ since[k] # Idle /\ since[k] <= buckets[k].last
    /\ granted[k] + buckets[k].tokens <= Allowance(limit, buckets[k].last - since[k])

\* A key whose bucket was purged: it was last used, at some time l, longer
\* ago than bucketIdleTTL, and had not got more than its allowance by then.
Away(k) ==
    since[k] # Idle =>
        \E l \in 0..now : /\ since[k] <= l /\ l + IdleTTL + 1 <= now
                          /\ granted[k] <= Allowance(limit, l - since[k])

\* The types, and that callers are at most MaxStale late.
RateTypes ==
    /\ limit \in [capacity: Nat, refill: Nat] /\ limit.capacity >= One
    /\ now \in Nat
    /\ seen \in [Callers -> Nat \cup {Idle}]
    /\ \A c \in Callers : seen[c] # Idle => seen[c] <= now /\ now <= seen[c] + MaxStale
    /\ Live \subseteq Keys
    /\ buckets \in [Live -> [tokens: Nat, last: Nat]]
    /\ \A k \in Live : buckets[k].last <= now
    /\ granted \in [Keys -> Nat]
    /\ since \in [Keys -> Nat \cup {Idle}]
    /\ \A k \in Keys : since[k] = Idle => granted[k] = 0

\* RateIsBounded counts from now, but a bucket knows only the time of its
\* last refill, and a purged one is not there at all.
RateInv ==
    /\ RateTypes
    /\ \A k \in Live : Held(k)
    /\ \A k \in Keys \ Live : Away(k)

-----------------------------------------------------------------------------
(* The allowance                                                           *)

\* Limits as newRateLimiter makes them.
Limits == [capacity: Nat, refill: Nat]

\* Products and quotients the allowance is made of.
LEMMA Arithmetic ==
    /\ \A r, a, b \in Nat : r * (a + b) = r * a + r * b
    /\ \A r, a, b \in Nat : a <= b => r * a <= r * b
    /\ \A a, b \in Nat : a * b \in Nat
    /\ \A a \in Nat, d \in Nat \ {0} : a \div d \in Nat /\ (a + d) \div d = (a \div d) + 1
    /\ \A a, b \in Nat, d \in Nat \ {0} : a <= b => a \div d <= b \div d
  OBVIOUS

\* The allowance grows by at least the refill, and when a bucket was away
\* long enough to be purged, by at least a burst.
LEMMA AllowanceGrows ==
    ASSUME NEW lim \in Limits, NEW x \in Nat, NEW d \in Nat
    PROVE  /\ Allowance(lim, x) \in Nat
           /\ Allowance(lim, 0) >= lim.capacity
           /\ Allowance(lim, x) + lim.refill * d <= Allowance(lim, x + d)
           /\ d >= IdleTTL + 1 - MaxStale =>
                 Allowance(lim, x) + lim.capacity <= Allowance(lim, x + d)
<1> DEFINE C == lim.capacity
<1> DEFINE R == lim.refill
<1> DEFINE W == IdleTTL + 1 - MaxStale
<1> DEFINE P(y) == IF C <= R * (IdleTTL - MaxStale) THEN 0 ELSE y \div W
<1>1. C \in Nat /\ R \in Nat /\ W \in Nat \ {0} /\ IdleTTL - MaxStale \in Nat /\ W = IdleTTL - MaxStale + 1
  BY LimiterAssumption DEF Limits, LimiterAssumption
<1>2. \A y : Allowance(lim, y) = C * (1 + P(y)) + R * y
  BY DEF Allowance
<1> HIDE DEF C, R, W
<1>3. P(0) \in Nat /\ P(x) \in Nat /\ P(x + d) \in Nat /\ P(x) <= P(x + d)
  <2> DEFINE q(y) == y \div W
  <2>1. x <= x + d /\ x + d \in Nat /\ 0 \in Nat
    OBVIOUS
  <2>2. q(0) \in Nat /\ q(x) \in Nat /\ q(x + d) \in Nat
    BY <1>1, <2>1, Arithmetic
  <2>3. q(x) <= q(x + d)
    BY <1>1, <2>1, Arithmetic
  <2> HIDE DEF q
  <2>4. \A y : P(y) = 0 \/ P(y) = q(y)
    BY DEF q
  <2>5. CASE C <= R * (IdleTTL - MaxStale)
    BY <2>5
  <2>6. CASE ~(C <= R * (IdleTTL - MaxStale))
    <3>1. P(0) = q(0) /\ P(x) = q(x) /\ P(x + d) = q(x + d)
      BY <2>6 DEF q
    <3> QED
      BY <2>2, <2>3, <3>1
  <2> QED
    BY <2>5, <2>6
<1>4. /\ C * (1 + P(0)) \in Nat /\ C * (1 + P(0)) >= C /\ R * 0 = 0
      /\ C * (1 + P(x)) \in Nat /\ C * (1 + P(x + d)) \in Nat
      /\ C * (1 + P(x)) <= C * (1 + P(x + d))
      /\ R * x \in Nat /\ R * d \in Nat /\ R * (x + d) = R * x + R * d
  <2> HIDE DEF P
  <2>1. /\ 1 + P(x) \in Nat /\ 1 + P(x + d) \in Nat /\ 1 + P(x) <= 1 + P(x + d)
        /\ 1 + P(0) \in Nat /\ 1 <= 1 + P(0)
    BY <1>1, <1>3
  <2>2. C * 1 = C /\ R * 0 = 0
    BY <1>1
  <2>3. C * (1 + P(0)) \in Nat /\ C * (1 + P(x)) \in Nat /\ C * (1 + P(x + d)) \in Nat
    BY <1>1, <2>1, Arithmetic
  <2>4. C * 1 <= C * (1 + P(0))
    BY <1>1, <2>1, Arithmetic
  <2>5. C * (1 + P(x)) <= C * (1 + P(x + d))
    BY <1>1, <2>1, Arithmetic
  <2>6. R * x \in Nat /\ R * d \in Nat /\ R * (x + d) = R * x + R * d
    BY <1>1, Arithmetic
  <2> QED
    BY <1>1, <2>2, <2>3, <2>4, <2>5, <2>6
<1>5. ASSUME d >= W
      PROVE  C * (1 + P(x)) + R * x + C <= C * (1 + P(x + d)) + R * x + R * d
  <2>1. CASE C <= R * (IdleTTL - MaxStale)
    <3> DEFINE z == IdleTTL - MaxStale
    <3>1. z \in Nat /\ z <= d
      BY <1>1, <1>5
    <3> HIDE DEF z
    <3>2. R * z <= R * d /\ R * z \in Nat
      BY <1>1, <3>1, Arithmetic
    <3>3. C <= R * d
      BY <1>1, <1>4, <2>1, <3>2 DEF z
    <3>4. P(x) = 0 /\ P(x + d) = 0
      BY <2>1
    <3>5. C * (1 + P(x)) = C * (1 + P(x + d))
      BY <3>4
    <3> HIDE DEF P
    <3> QED
      BY <1>1, <1>4, <3>3, <3>5
  <2>2. CASE ~(C <= R * (IdleTTL - MaxStale))
    <3>1. P(x) = x \div W /\ P(x + d) = (x + d) \div W
      BY <2>2
    <3>2. (x + W) \div W = (x \div W) + 1
      BY <1>1, Arithmetic
    <3>3. x + W <= x + d /\ x + W \in Nat /\ x + d \in Nat
      BY <1>1, <1>5
    <3>4. (x + W) \div W <= (x + d) \div W
      BY <1>1, <3>3, Arithmetic
    <3> HIDE DEF P
    <3>5. /\ 1 + P(x) \in Nat /\ 1 + P(x + d) \in Nat /\ (1 + P(x)) + 1 \in Nat
          /\ (1 + P(x)) + 1 <= 1 + P(x + d)
      BY <1>3, <3>1, <3>2, <3>4
    <3>6. C * ((1 + P(x)) + 1) <= C * (1 + P(x + d))
      BY <1>1, <3>5, Arithmetic
    <3>7. C * ((1 + P(x)) + 1) = C * (1 + P(x)) + C * 1 /\ C * 1 = C
      BY <1>1, <3>5, Arithmetic
    <3> QED
      BY <1>1, <1>4, <3>6, <3>7
  <2> QED
    BY <2>1, <2>2
<1> HIDE DEF P
<1>6. Allowance(lim, x) \in Nat /\ Allowance(lim, 0) >= C
  BY <1>1, <1>2, <1>4
<1>7. Allowance(lim, x) + R * d <= Allowance(lim, x + d)
  BY <1>1, <1>2, <1>4
<1>8. d >= W => Allowance(lim, x) + C <= Allowance(lim, x + d)
  BY <1>1, <1>2, <1>4, <1>5
<1> QED
  BY <1>6, <1>7, <1>8 DEF C, R, W

-----------------------------------------------------------------------------
(* Steps                                                                   *)

\* Buckets as the map holds them.
Bucket == [tokens: Nat, last: Nat]

\* What allow works on: a caller's time is of late, every bucket the purge
\* leaves is as it was, and every key without one is Away.
LEMMA AfterPurge ==
    ASSUME RateInv, NEW c \in Callers, seen[c] # Idle
    PROVE  LET t == seen[c]
               m == Purged(t)
           IN  /\ t \in Nat /\ t <= now /\ now <= t + MaxStale
               /\ DOMAIN m \subseteq Live
               /\ m \in [DOMAIN m -> Bucket]
               /\ \A k \in DOMAIN m : m[k] = buckets[k] /\ Held(k)
               /\ \A k \in Keys \ DOMAIN m : Away(k)
<1> DEFINE t == seen[c]
<1> DEFINE m == Purged(t)
<1>1. t \in Nat /\ t <= now /\ now <= t + MaxStale /\ now \in Nat
  BY DEF RateInv, RateTypes
<1>2. /\ DOMAIN m = {k \in Live : ~(t - buckets[k].last > IdleTTL)}
      /\ m = [k \in DOMAIN m |-> buckets[k]]
  BY DEF Purged, Restrict
<1>3. DOMAIN m \subseteq Live /\ \A k \in DOMAIN m : m[k] = buckets[k] /\ Held(k)
  BY <1>2 DEF RateInv
<1>4. m \in [DOMAIN m -> Bucket]
  BY <1>2, <1>3 DEF RateInv, RateTypes, Bucket
<1>5. ASSUME NEW k \in Keys \ DOMAIN m PROVE Away(k)
  <2>1. CASE k \notin Live
    BY <2>1 DEF RateInv
  <2>2. CASE k \in Live
    <3> DEFINE l == buckets[k].last
    <3> DEFINE x == buckets[k].tokens
    <3>1. l \in Nat /\ x \in Nat /\ t - l > IdleTTL
      BY <1>2, <2>2 DEF RateInv, RateTypes
    <3>2. since[k] # Idle /\ since[k] <= l /\ granted[k] + x <= Allowance(limit, l - since[k])
      BY <2>2 DEF RateInv, Held
    <3>3. granted[k] \in Nat /\ since[k] \in Nat
      BY <3>2 DEF RateInv, RateTypes
    <3>4. Allowance(limit, l - since[k]) \in Nat
      <4>1. l - since[k] \in Nat /\ limit \in Limits
        BY <3>1, <3>2, <3>3 DEF RateInv, RateTypes, Limits
      <4> QED
        BY <4>1, AllowanceGrows
    <3>5. IdleTTL \in Nat
      BY LimiterAssumption DEF LimiterAssumption
    <3> HIDE DEF l, x
    <3>6. l \in 0..now /\ l + IdleTTL + 1 <= now
      BY <1>1, <3>1, <3>5
    <3>7. granted[k] <= Allowance(limit, l - since[k])
      BY <3>1, <3>2, <3>3, <3>4
    <3> QED
      BY <3>2, <3>6, <3>7 DEF Away
  <2> QED
    BY <2>1, <2>2
<1> QED
  BY <1>1, <1>3, <1>4, <1>5

\* The refill of a bucket stays within the allowance at its new time.
LEMMA RefillHolds ==
    ASSUME RateInv, NEW c \in Callers, seen[c] # Idle, NEW k \in Live, Held(k)
    PROVE  LET b == Refilled(buckets[k], seen[c])
           IN  /\ b \in Bucket /\ since[k] <= b.last /\ b.last <= now
               /\ granted[k] + b.tokens <= Allowance(limit, b.last - since[k])
<1> DEFINE t == seen[c]
<1> DEFINE old == buckets[k]
<1> DEFINE b == Refilled(old, t)
<1> DEFINE s == since[k]
<1>1. /\ old \in Bucket /\ old.last <= now /\ old.tokens \in Nat /\ old.last \in Nat
      /\ s \in Nat /\ s <= old.last /\ granted[k] \in Nat
      /\ granted[k] + old.tokens <= Allowance(limit, old.last - s)
  BY DEF RateInv, RateTypes, Held, Bucket
<1>2. t \in Nat /\ t <= now /\ now \in Nat
  BY DEF RateInv, RateTypes
<1>3. limit \in Limits /\ limit.capacity \in Nat /\ limit.refill \in Nat
  BY DEF RateInv, RateTypes, Limits
<1>4. CASE t > old.last
  <2> DEFINE d == t - old.last
  <2> DEFINE r == limit.refill * d
  <2>1. d \in Nat /\ old.last - s \in Nat /\ (old.last - s) + d = t - s
    BY <1>1, <1>2, <1>4
  <2>2. b = [tokens |-> Least(limit.capacity, old.tokens + d * limit.refill), last |-> t]
    BY <1>4 DEF Refilled, Capacity, Refill
  <2> HIDE DEF d
  <2>3. r \in Nat /\ d * limit.refill = r
    BY <1>3, <2>1
  <2>4. Allowance(limit, old.last - s) + r <= Allowance(limit, t - s)
    BY <1>3, <2>1, AllowanceGrows
  <2>5. Allowance(limit, old.last - s) \in Nat /\ Allowance(limit, t - s) \in Nat
    BY <1>1, <1>2, <1>3, <1>4, <2>1, AllowanceGrows
  <2> HIDE DEF r, t, old
  <2>6. b.last = t /\ b.tokens \in Nat /\ b.tokens <= old.tokens + r /\ b \in Bucket
    BY <1>1, <1>2, <1>3, <2>2, <2>3 DEF Least, Bucket
  <2>7. granted[k] + b.tokens <= Allowance(limit, t - s)
    <3> HIDE DEF b, s
    <3> QED
      BY <1>1, <2>3, <2>4, <2>5, <2>6
  <2>8. s <= t
    BY <1>1, <1>2, <1>4
  <2> QED
    BY <1>2, <2>6, <2>7, <2>8 DEF t, old
<1>5. CASE ~(t > old.last)
  <2>1. b = old
    BY <1>5 DEF Refilled
  <2> QED
    BY <1>1, <2>1
<1> QED
  BY <1>4, <1>5

\* A call of allow for key k keeps RateInv if it does so for k, leaves the
\* buckets of other keys alone and ends the accounting of one it evicts.
LEMMA AllowStep ==
    ASSUME RateInv, NEW c \in Callers, seen[c] # Idle, NEW k \in Keys,
           limit' = limit, now' = now, seen' = [seen EXCEPT ![c] = Idle],
           Live' \subseteq Keys, buckets' \in [Live' -> Bucket],
           granted' \in [Keys -> Nat], since' \in [Keys -> Nat \cup {Idle}],
           k \in Live', buckets'[k].last <= now, Held(k)',
           \A j \in Keys \ {k} :
              \/ /\ granted'[j] = granted[j] /\ since'[j] = since[j]
                 /\ j \in Live' <=> j \in DOMAIN Purged(seen[c])
                 /\ j \in Live' => buckets'[j] = buckets[j]
              \/ j \notin Live' /\ granted'[j] = 0 /\ since'[j] = Idle
    PROVE  RateInv'
<1>1. /\ DOMAIN Purged(seen[c]) \subseteq Live
      /\ \A j \in DOMAIN Purged(seen[c]) : Held(j)
      /\ \A j \in Keys \ DOMAIN Purged(seen[c]) : Away(j)
  BY AfterPurge
<1>2. \A j \in Live' \ {k} : /\ j \in Keys /\ j \in Live /\ Held(j)
                            /\ granted'[j] = granted[j] /\ since'[j] = since[j]
                            /\ buckets'[j] = buckets[j]
  BY <1>1
<1>3. RateTypes'
  <2>1. \A j \in Live' : buckets'[j].last <= now'
    BY <1>2 DEF RateInv, RateTypes
  <2>2. \A j \in Keys : since'[j] = Idle => granted'[j] = 0
    <3>1. since'[k] # Idle
      BY DEF Held
    <3> QED
      BY <3>1 DEF RateInv, RateTypes
  <2>3. /\ seen' \in [Callers -> Nat \cup {Idle}]
        /\ \A d \in Callers : seen'[d] # Idle => seen'[d] <= now' /\ now' <= seen'[d] + MaxStale
    BY DEF RateInv, RateTypes
  <2> QED
    BY <2>1, <2>2, <2>3 DEF RateInv, RateTypes, Bucket
<1>4. ASSUME NEW j \in Live' PROVE Held(j)'
  <2>1. CASE j = k
    BY <2>1
  <2>2. CASE j # k
    BY <1>2, <2>2 DEF Held
  <2> QED
    BY <2>1, <2>2
<1>5. ASSUME NEW j \in Keys \ Live' PROVE Away(j)'
  <2>1. j # k
    OBVIOUS
  <2>2. CASE since'[j] = Idle
    BY <2>2 DEF Away
  <2>3. CASE since'[j] # Idle
    <3>1. granted'[j] = granted[j] /\ since'[j] = since[j] /\ Away(j)
      BY <1>1, <2>1, <2>3
    <3> QED
      BY <3>1 DEF Away
  <2> QED
    BY <2>2, <2>3
<1> QED
  BY <1>3, <1>4, <1>5 DEF RateInv

\* A bucket that is there is refilled, and what is taken from it is booked.
LEMMA ExistingStep ==
    ASSUME RateInv, NEW c \in Callers, NEW k \in Keys,
           AllowExisting(c, k) \/ Refuse(c, k)
    PROVE  RateInv'
<1> DEFINE t == seen[c]
<1> DEFINE m == Purged(t)
<1> DEFINE b == Refilled(m[k], t)
<1>1. /\ seen[c] # Idle /\ k \in DOMAIN m
      /\ seen' = [seen EXCEPT ![c] = Idle]
      /\ limit' = limit /\ now' = now /\ since' = since
      /\ \/ /\ b.tokens >= One
            /\ buckets' = [m EXCEPT ![k] = [b EXCEPT !.tokens = @ - One]]
            /\ granted' = [granted EXCEPT ![k] = @ + One]
         \/ buckets' = [m EXCEPT ![k] = b] /\ granted' = granted
  BY DEF AllowExisting, Refuse, Return
<1>2. /\ DOMAIN m \subseteq Live /\ m \in [DOMAIN m -> Bucket]
      /\ \A j \in DOMAIN m : m[j] = buckets[j] /\ Held(j)
  BY <1>1, AfterPurge
<1>3. /\ b \in Bucket /\ since[k] <= b.last /\ b.last <= now
      /\ granted[k] + b.tokens <= Allowance(limit, b.last - since[k])
  BY <1>1, <1>2, RefillHolds
<1>4. b.tokens \in Nat /\ b.last \in Nat /\ b = [tokens |-> b.tokens, last |-> b.last]
  BY <1>3 DEF Bucket
<1>5. One \in Nat /\ granted \in [Keys -> Nat] /\ since \in [Keys -> Nat \cup {Idle}] /\ Live \subseteq Keys
      /\ since[k] # Idle
  BY <1>1, <1>2, LimiterAssumption DEF LimiterAssumption, RateInv, RateTypes, Held
<1> HIDE DEF b, m
\* The bucket that is stored, with what the caller got from it.
<1>6. \E x, g \in Nat : /\ buckets' = [m EXCEPT ![k] = [tokens |-> x, last |-> b.last]]
                        /\ granted' = [granted EXCEPT ![k] = g]
                        /\ g + x = granted[k] + b.tokens
  <2>1. CASE /\ b.tokens >= One
             /\ buckets' = [m EXCEPT ![k] = [b EXCEPT !.tokens = @ - One]]
             /\ granted' = [granted EXCEPT ![k] = @ + One]
    <3>1. [b EXCEPT !.tokens = @ - One] = [tokens |-> b.tokens - One, last |-> b.last]
      BY <1>4
    <3>2. /\ b.tokens - One \in Nat /\ granted[k] + One \in Nat
          /\ (granted[k] + One) + (b.tokens - One) = granted[k] + b.tokens
      BY <1>4, <1>5, <2>1
    <3>3. /\ buckets' = [m EXCEPT ![k] = [tokens |-> b.tokens - One, last |-> b.last]]
          /\ granted' = [granted EXCEPT ![k] = granted[k] + One]
      BY <2>1, <3>1
    <3> QED
      BY <3>2, <3>3
  <2>2. CASE buckets' = [m EXCEPT ![k] = b] /\ granted' = granted
    <3>1. /\ granted[k] \in Nat /\ granted' = [granted EXCEPT ![k] = granted[k]]
          /\ buckets' = [m EXCEPT ![k] = [tokens |-> b.tokens, last |-> b.last]]
      BY <1>4, <1>5, <2>2
    <3> QED
      BY <1>4, <3>1
  <2> QED
    BY <1>1, <2>1, <2>2
<1>7. PICK x \in Nat, g \in Nat :
         /\ buckets' = [m EXCEPT ![k] = [tokens |-> x, last |-> b.last]]
         /\ granted' = [granted EXCEPT ![k] = g]
         /\ g + x = granted[k] + b.tokens
  BY <1>6
<1>8. /\ Live' = DOMAIN m /\ buckets' \in [DOMAIN m -> Bucket]
      /\ buckets'[k] = [tokens |-> x, last |-> b.last]
      /\ \A j \in DOMAIN m : j # k => buckets'[j] = buckets[j]
  <2>1. [tokens |-> x, last |-> b.last] \in Bucket
    BY <1>4 DEF Bucket
  <2> QED
    BY <1>1, <1>2, <1>7, <2>1 DEF Live
<1>9. granted' \in [Keys -> Nat] /\ granted'[k] = g /\ \A j \in Keys : j # k => granted'[j] = granted[j]
  BY <1>5, <1>7
<1>10. Held(k)'
  BY <1>1, <1>3, <1>5, <1>7, <1>8, <1>9 DEF Held
<1>11. \A j \in Keys \ {k} : /\ granted'[j] = granted[j] /\ since'[j] = since[j]
                             /\ (j \in Live' <=> j \in DOMAIN Purged(seen[c]))
                             /\ (j \in Live' => buckets'[j] = buckets[j])
  BY <1>1, <1>8, <1>9 DEF m
<1>12. k \in Live' /\ buckets'[k].last <= now /\ Live' \subseteq Keys /\ since' \in [Keys -> Nat \cup {Idle}]
  BY <1>1, <1>2, <1>3, <1>5, <1>8
<1> QED
  BY <1>1, <1>8, <1>9, <1>10, <1>11, <1>12, AllowStep

\* A key without a bucket gets a full one, less a token: it is either new, or
\* was away so long that its allowance has grown by a burst.
LEMMA FreshHolds ==
    ASSUME RateInv, NEW c \in Callers, seen[c] # Idle, NEW k \in Keys, Away(k)
    PROVE  LET t == seen[c]
               s == IF since[k] = Idle THEN t ELSE since[k]
           IN  /\ s \in Nat /\ s <= t
               /\ (granted[k] + One) + (limit.capacity - One) <= Allowance(limit, t - s)
<1> DEFINE t == seen[c]
<1> DEFINE g == granted[k]
<1>1. t \in Nat /\ t <= now /\ now <= t + MaxStale /\ now \in Nat
  BY DEF RateInv, RateTypes
<1>2. limit \in Limits /\ limit.capacity \in Nat /\ limit.capacity >= One
  BY DEF RateInv, RateTypes, Limits
<1>3. One \in Nat /\ MaxStale \in Nat /\ IdleTTL \in Nat /\ MaxStale <= IdleTTL
  BY LimiterAssumption DEF LimiterAssumption
<1>4. g \in Nat
  BY DEF RateInv, RateTypes
<1>5. CASE since[k] = Idle
  <2>1. g = 0
    BY <1>5 DEF RateInv, RateTypes
  <2>2. t - t = 0 /\ 0 \in Nat
    BY <1>1
  <2>3. limit.capacity <= Allowance(limit, 0) /\ Allowance(limit, 0) \in Nat
    BY <1>2, <2>2, AllowanceGrows
  <2> HIDE DEF t, g
  <2>4. (g + One) + (limit.capacity - One) <= Allowance(limit, t - t)
    BY <1>2, <1>3, <2>1, <2>2, <2>3
  <2> QED
    BY <1>1, <1>5, <2>4 DEF t, g
<1>6. CASE since[k] # Idle
  <2> DEFINE s == since[k]
  <2>1. s \in Nat
    BY <1>6 DEF RateInv, RateTypes
  <2>2. PICK l \in 0..now : /\ s <= l /\ l + IdleTTL + 1 <= now
                            /\ g <= Allowance(limit, l - s)
    BY <1>6 DEF Away
  <2> HIDE DEF t, g, s
  <2>3. /\ t - l \in Nat /\ l - s \in Nat /\ (l - s) + (t - l) = t - s
        /\ t - l >= IdleTTL + 1 - MaxStale /\ s <= t
    BY <1>1, <1>3, <2>1, <2>2
  <2>4. Allowance(limit, l - s) + limit.capacity <= Allowance(limit, t - s)
    BY <1>2, <2>3, AllowanceGrows
  <2>5. Allowance(limit, l - s) \in Nat /\ Allowance(limit, t - s) \in Nat
    <3>1. t - s \in Nat
      BY <1>1, <2>1, <2>3
    <3> QED
      BY <1>2, <2>3, <3>1, AllowanceGrows
  <2>6. (g + One) + (limit.capacity - One) <= Allowance(limit, t - s)
    BY <1>2, <1>3, <1>4, <2>2, <2>4, <2>5
  <2> QED
    BY <1>6, <2>1, <2>3, <2>6 DEF t, g, s
<1> QED
  BY <1>5, <1>6

\* A call that makes a bucket, with or without an eviction.
LEMMA NewStep ==
    ASSUME RateInv, NEW c \in Callers, NEW k \in Keys, AllowNew(c, k)
    PROVE  RateInv'
<1> DEFINE t == seen[c]
<1> DEFINE m == Purged(t)
<1> DEFINE s == IF since[k] = Idle THEN t ELSE since[k]
<1>1. /\ seen[c] # Idle /\ k \notin DOMAIN m
      /\ seen' = [seen EXCEPT ![c] = Idle]
      /\ limit' = limit /\ now' = now
  BY DEF AllowNew, Return
<1>2. /\ t \in Nat /\ t <= now
      /\ DOMAIN m \subseteq Live /\ m \in [DOMAIN m -> Bucket]
      /\ \A j \in DOMAIN m : m[j] = buckets[j]
      /\ Away(k)
  BY <1>1, AfterPurge
<1>3. /\ s \in Nat /\ s <= t
      /\ (granted[k] + One) + (limit.capacity - One) <= Allowance(limit, t - s)
  BY <1>1, <1>2, FreshHolds
<1>4. /\ One \in Nat /\ limit.capacity - One \in Nat
      /\ granted \in [Keys -> Nat] /\ since \in [Keys -> Nat \cup {Idle}] /\ Live \subseteq Keys
  <2>1. One \in Nat /\ limit.capacity \in Nat /\ limit.capacity >= One
    BY LimiterAssumption DEF LimiterAssumption, RateInv, RateTypes
  <2> QED
    BY <2>1 DEF RateInv, RateTypes
<1>5. Fresh(t) \in Bucket /\ Fresh(t).tokens = limit.capacity - One /\ Fresh(t).last = t
  BY <1>2, <1>4 DEF Fresh, Bucket, Capacity
\* The keys that keep their buckets: all, or all but the evicted one.
<1>6. \E gone \in SUBSET DOMAIN m :
         /\ buckets' = [j \in (DOMAIN m \ gone) \cup {k} |-> IF j = k THEN Fresh(t) ELSE m[j]]
         /\ granted' = [j \in Keys |-> IF j = k THEN granted[k] + One
                                       ELSE IF j \in gone THEN 0 ELSE granted[j]]
         /\ since' = [j \in Keys |-> IF j = k THEN s
                                     ELSE IF j \in gone THEN Idle ELSE since[j]]
  <2>1. CASE /\ buckets' = With(m, k, Fresh(t))
             /\ granted' = [granted EXCEPT ![k] = @ + One]
             /\ since' = [since EXCEPT ![k] = IF @ = Idle THEN t ELSE @]
    <3>1. buckets' = [j \in (DOMAIN m \ {}) \cup {k} |-> IF j = k THEN Fresh(t) ELSE m[j]]
      BY <2>1 DEF With
    <3>2. granted' = [j \in Keys |-> IF j = k THEN granted[k] + One
                                     ELSE IF j \in {} THEN 0 ELSE granted[j]]
      BY <1>4, <2>1
    <3>3. since' = [j \in Keys |-> IF j = k THEN s ELSE IF j \in {} THEN Idle ELSE since[j]]
      BY <1>4, <2>1
    <3>4. {} \in SUBSET DOMAIN m
      OBVIOUS
    <3> HIDE DEF m, s
    <3> QED
      BY <3>1, <3>2, <3>3, <3>4
  <2>2. CASE \E v \in Oldest(m) :
                /\ buckets' = With(Without(m, v), k, Fresh(t))
                /\ granted' = [granted EXCEPT ![v] = 0, ![k] = @ + One]
                /\ since' = [since EXCEPT ![v] = Idle,
                                          ![k] = IF @ = Idle THEN t ELSE @]
    <3>1. PICK v \in Oldest(m) :
                /\ buckets' = With(Without(m, v), k, Fresh(t))
                /\ granted' = [granted EXCEPT ![v] = 0, ![k] = @ + One]
                /\ since' = [since EXCEPT ![v] = Idle,
                                          ![k] = IF @ = Idle THEN t ELSE @]
      BY <2>2
    <3>2. v \in DOMAIN m /\ v # k /\ v \in Keys
      BY <1>1, <1>2, <1>4 DEF Oldest
    <3> HIDE DEF m
    <3>3. /\ DOMAIN Without(m, v) = DOMAIN m \ {v}
          /\ \A j \in DOMAIN m \ {v} : Without(m, v)[j] = m[j]
      BY DEF Without, Restrict
    <3>4. buckets' = [j \in (DOMAIN m \ {v}) \cup {k} |-> IF j = k THEN Fresh(t) ELSE m[j]]
      BY <3>1, <3>3 DEF With
    <3>5. granted' = [j \in Keys |-> IF j = k THEN granted[k] + One
                                     ELSE IF j \in {v} THEN 0 ELSE granted[j]]
      BY <1>4, <3>1, <3>2
    <3>6. since' = [j \in Keys |-> IF j = k THEN s ELSE IF j \in {v} THEN Idle ELSE since[j]]
      BY <1>4, <3>1, <3>2
    <3> HIDE DEF s
    <3> QED
      BY <3>2, <3>4, <3>5, <3>6
  <2> QED
    BY <2>1, <2>2 DEF AllowNew
<1> HIDE DEF m, s
<1>7. PICK gone \in SUBSET DOMAIN m :
         /\ buckets' = [j \in (DOMAIN m \ gone) \cup {k} |-> IF j = k THEN Fresh(t) ELSE m[j]]
         /\ granted' = [j \in Keys |-> IF j = k THEN granted[k] + One
                                       ELSE IF j \in gone THEN 0 ELSE granted[j]]
         /\ since' = [j \in Keys |-> IF j = k THEN s
                                     ELSE IF j \in gone THEN Idle ELSE since[j]]
  BY <1>6
<1>8. /\ Live' = (DOMAIN m \ gone) \cup {k} /\ Live' \subseteq Keys
      /\ buckets' \in [Live' -> Bucket] /\ buckets'[k] = Fresh(t)
  BY <1>2, <1>4, <1>5, <1>7 DEF Live
<1>9. granted' \in [Keys -> Nat] /\ granted'[k] = granted[k] + One
  BY <1>4, <1>7
<1>10. since' \in [Keys -> Nat \cup {Idle}] /\ since'[k] = s /\ s # Idle
  BY <1>3, <1>4, <1>7 DEF Idle
<1>11. Held(k)'
  BY <1>1, <1>3, <1>5, <1>8, <1>9, <1>10 DEF Held
<1>12. ASSUME NEW j \in Keys \ {k}
       PROVE  \/ /\ granted'[j] = granted[j] /\ since'[j] = since[j]
                 /\ j \in Live' <=> j \in DOMAIN Purged(seen[c])
                 /\ j \in Live' => buckets'[j] = buckets[j]
              \/ j \notin Live' /\ granted'[j] = 0 /\ since'[j] = Idle
  <2>0. DOMAIN m = DOMAIN Purged(seen[c])
    BY DEF m
  <2>1. CASE j \in gone
    BY <1>7, <1>8, <2>1
  <2>2. CASE j \notin gone
    <3>1. granted'[j] = granted[j] /\ since'[j] = since[j] /\ (j \in Live' <=> j \in DOMAIN m)
      BY <1>7, <1>8, <2>2
    <3>2. ASSUME j \in Live' PROVE buckets'[j] = buckets[j]
      BY <1>2, <1>7, <1>8, <3>1, <3>2
    <3> QED
      BY <2>0, <3>1, <3>2
  <2> QED
    BY <2>1, <2>2
<1>13. k \in Live' /\ buckets'[k].last <= now
  BY <1>2, <1>5, <1>8
<1> QED
  BY <1>1, <1>8, <1>9, <1>10, <1>11, <1>12, <1>13, AllowStep

\* Every step keeps the invariant.
LEMMA RateInvStep ==
    ASSUME RateInv, [Next]_vars
    PROVE  RateInv'
<1>1. ASSUME NEW c \in Callers, Arrive(c) PROVE RateInv'
  <2>1. /\ limit' = limit /\ buckets' = buckets /\ now' = now /\ granted' = granted /\ since' = since
        /\ seen' = [seen EXCEPT ![c] = now]
    BY <1>1 DEF Arrive
  <2>2. MaxStale \in Nat
    BY LimiterAssumption DEF LimiterAssumption
  <2>3. RateTypes'
    BY <2>1, <2>2 DEF RateInv, RateTypes, Live
  <2>4. \A k \in Live' : Held(k)'
    BY <2>1 DEF RateInv, Held, Live
  <2>5. \A k \in Keys \ Live' : Away(k)'
    BY <2>1 DEF RateInv, Away, Live
  <2> QED
    BY <2>3, <2>4, <2>5 DEF RateInv
<1>2. ASSUME Tick PROVE RateInv'
  <2>1. /\ limit' = limit /\ buckets' = buckets /\ now' = now + 1 /\ granted' = granted /\ since' = since
        /\ seen' = seen
        /\ \A c \in Callers : seen[c] = Idle \/ now + 1 - seen[c] <= MaxStale
    BY <1>2 DEF Tick
  <2>2. MaxStale \in Nat /\ IdleTTL \in Nat
    BY LimiterAssumption DEF LimiterAssumption
  <2>3. RateTypes'
    BY <2>1, <2>2 DEF RateInv, RateTypes, Live
  <2>4. \A k \in Live' : Held(k)'
    BY <2>1 DEF RateInv, Held, Live
  <2>5. ASSUME NEW k \in Keys \ Live' PROVE Away(k)'
    <3>1. Away(k) /\ now \in Nat
      BY <2>1 DEF RateInv, RateTypes, Live
    <3>2. \A l \in 0..now : l \in 0..(now + 1) /\ (l + IdleTTL + 1 <= now => l + IdleTTL + 1 <= now + 1)
      BY <2>2, <3>1
    <3> QED
      BY <2>1, <3>1, <3>2 DEF Away
  <2> QED
    BY <2>3, <2>4, <2>5 DEF RateInv
<1>3. CASE UNCHANGED vars
  BY <1>3 DEF vars, RateInv, RateTypes, Held, Away, Live
<1>4. CASE Next
  BY <1>1, <1>2, <1>4, NewStep, ExistingStep DEF Next
<1> QED
  BY <1>3, <1>4

\* The limits that WithDefaults and validate leave hold at least one token.
LEMMA RateInvInit == Init => RateInv
<1> SUFFICES ASSUME Init PROVE RateInv
  OBVIOUS
<1>1. PICK c \in [burst: Int, rate: Int] : Valid(c) /\ limit = NewLimiter(c)
  <2>1. PICK burst \in Bursts, rate \in Rates :
           Valid(WithDefaults([burst |-> burst, rate |-> rate]))
           /\ limit = NewLimiter(WithDefaults([burst |-> burst, rate |-> rate]))
    BY DEF Init
  <2>2. burst \in Int /\ rate \in Int /\ Default.burst \in Int /\ Default.rate \in Int
    BY LimiterAssumption DEF LimiterAssumption
  <2>3. WithDefaults([burst |-> burst, rate |-> rate]) \in [burst: Int, rate: Int]
    BY <2>2 DEF WithDefaults
  <2> QED
    BY <2>1, <2>3
<1>2. c.burst \in Nat /\ c.burst >= 1 /\ c.rate \in Nat /\ One \in Nat
  BY <1>1, LimiterAssumption DEF Valid, LimiterAssumption
<1>3. c.burst * One \in Nat /\ c.burst * One >= One
  BY <1>2
<1>4. limit \in Limits /\ limit.capacity >= One
  BY <1>1, <1>2, <1>3 DEF NewLimiter, Limits
<1>5. /\ DOMAIN buckets = {} /\ buckets \in [{} -> Bucket] /\ now = 0 /\ seen = [d \in Callers |-> Idle]
      /\ granted = [k \in Keys |-> 0] /\ since = [k \in Keys |-> Idle]
  BY DEF Init
<1>6. RateTypes
  BY <1>4, <1>5 DEF RateTypes, Live, Limits, Bucket
<1> QED
  BY <1>5, <1>6 DEF RateInv, Live, Away

\* The invariant says what RateIsBounded says.
LEMMA RateInvBounds == RateInv => RateIsBounded
<1> SUFFICES ASSUME RateInv, NEW k \in Keys, since[k] # Idle
             PROVE  granted[k] <= Allowance(limit, now - since[k])
  BY DEF RateIsBounded, PurgedBursts, Capacity, Refill, Allowance
<1> DEFINE s == since[k]
<1>1. now \in Nat /\ s \in Nat /\ granted[k] \in Nat /\ limit \in Limits /\ limit.refill \in Nat
  BY DEF RateInv, RateTypes, Limits
\* What the key got is within its allowance at an earlier time.
<1>2. \E l \in 0..now : s <= l /\ granted[k] <= Allowance(limit, l - s)
  <2>1. CASE k \in Live
    <3> DEFINE l == buckets[k].last
    <3>1. l \in Nat /\ l <= now /\ buckets[k].tokens \in Nat
      BY <2>1 DEF RateInv, RateTypes
    <3>2. s <= l /\ granted[k] + buckets[k].tokens <= Allowance(limit, l - s)
      BY <2>1 DEF RateInv, Held
    <3> HIDE DEF l, s
    <3>3. l - s \in Nat
      BY <1>1, <3>1, <3>2
    <3>4. Allowance(limit, l - s) \in Nat
      BY <1>1, <3>3, AllowanceGrows
    <3>5. l \in 0..now /\ granted[k] <= Allowance(limit, l - s)
      BY <1>1, <3>1, <3>2, <3>4
    <3> QED
      BY <3>2, <3>5
  <2>2. CASE k \notin Live
    BY <2>2 DEF RateInv, Away
  <2> QED
    BY <2>1, <2>2
<1> HIDE DEF s
<1>3. PICK l \in 0..now : s <= l /\ granted[k] <= Allowance(limit, l - s)
  BY <1>2
<1>4. l - s \in Nat /\ now - l \in Nat /\ (l - s) + (now - l) = now - s /\ now - s \in Nat
  BY <1>1, <1>3
<1>5. limit.refill * (now - l) \in Nat
  BY <1>1, <1>4, Arithmetic
<1>6. Allowance(limit, l - s) + limit.refill * (now - l) <= Allowance(limit, now - s)
  BY <1>1, <1>4, AllowanceGrows
<1>7. Allowance(limit, l - s) \in Nat /\ Allowance(limit, now - s) \in Nat
  BY <1>1, <1>4, AllowanceGrows
<1>8. granted[k] <= Allowance(limit, now - s)
  BY <1>1, <1>3, <1>5, <1>6, <1>7
<1> QED
  BY <1>8 DEF s

\* rateLimiter.allow (protect.go): whatever the order in which callers with
\* old clock readings get the mutex, and however buckets are purged and made
\* again, no key gets more than its bursts and its refill.
THEOREM RatesAreBounded == Spec => []RateIsBounded
<1>1. Init => RateInv
  BY RateInvInit
<1>2. RateInv /\ [Next]_vars => RateInv'
  BY RateInvStep
<1>3. RateInv => RateIsBounded
  BY RateInvBounds
<1> QED
  BY <1>1, <1>2, <1>3, PTL DEF Spec

=============================================================================
