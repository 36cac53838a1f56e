----------------------------- MODULE RateLimiter -----------------------------
(***************************************************************************)
(* The token buckets of server/protect.go: one bucket per key in a map of  *)
(* bounded size, idle buckets purged after bucketIdleTTL, the bucket that  *)
(* was used longest ago evicted when the map is full.                      *)
(*                                                                         *)
(* allow runs under the limiter's mutex, but with a time its caller read   *)
(* earlier: webhook reads the clock once and asks two of its limiters only *)
(* after it has read the body.  Callers therefore arrive with times out of *)
(* order, at most MaxStale (the server's ReadTimeout) old.                 *)
(*                                                                         *)
(* Tokens are counted in units of which One make a token, so that a refill *)
(* of less than a token per tick is an integer.                            *)
(***************************************************************************)
EXTENDS Integers, FiniteSets, Functions

CONSTANTS Callers,   \* concurrent requests
          Keys,      \* addresses or source|address pairs
          One,       \* units of one token
          Bursts,    \* values of burst a file may hold, in tokens
          Rates,     \* values of per_second, in units per tick
          Default,   \* the limiter's entry in WithDefaults
          MaxBurst,  \* largest burst that validate accepts
          MaxRate,   \* largest rate that validate accepts
          MaxKeys,   \* maxLimiterBuckets
          IdleTTL,   \* bucketIdleTTL
          MaxStale,  \* how old a caller's time may be
          MaxTime    \* bound: the clock stops here

ASSUME LimiterAssumption ==
    /\ {One, MaxBurst, MaxRate, MaxKeys, IdleTTL, MaxStale} \subseteq Nat \ {0}
    /\ Bursts \subseteq Int /\ Rates \subseteq Int
    /\ Default \in [burst: 1..MaxBurst, rate: 1..MaxRate]
    /\ MaxStale <= IdleTTL

\* RateLimitsConfig.WithDefaults: a zero is an omitted value.
WithDefaults(c) == [burst |-> IF c.burst = 0 THEN Default.burst ELSE c.burst,
                    rate |-> IF c.rate = 0 THEN Default.rate ELSE c.rate]

\* RateLimitsConfig.validate; the smallest rate is one unit per tick.
Valid(c) == c.burst \in 1..MaxBurst /\ c.rate \in 1..MaxRate

\* newRateLimiter, whose fallbacks no validated configuration reaches.
NewLimiter(c) == [capacity |-> c.burst * One, refill |-> c.rate]

VARIABLES
    limit,    \* the limiter's capacity and refill, fixed when it is made
    buckets,  \* the map: key -> [tokens, last]
    seen,     \* seen[c]: the time caller c read, Idle when it is not running
    now,
    granted,  \* history: units granted to a key since `since`
    since     \* history: `last` of the key's first bucket since an eviction

vars == <<limit, buckets, seen, now, granted, since>>

Capacity == limit.capacity
Refill == limit.refill

Idle == -1
Live == DOMAIN buckets

Init ==
    /\ \E burst \in Bursts, rate \in Rates :
          LET c == WithDefaults([burst |-> burst, rate |-> rate])
          IN  Valid(c) /\ limit = NewLimiter(c)
    /\ buckets = [k \in {} |-> 0]
    /\ seen = [c \in Callers |-> Idle]
    /\ now = 0
    /\ granted = [k \in Keys |-> 0]
    /\ since = [k \in Keys |-> Idle]

\* The caller reads the clock.
Arrive(c) ==
    /\ seen[c] = Idle
    /\ seen' = [seen EXCEPT ![c] = now]
    /\ UNCHANGED <<limit, buckets, now, granted, since>>

\* purge: what is left at time t.
Purged(t) == Restrict(buckets, {k \in Live : ~(t - buckets[k].last > IdleTTL)})

\* evictOne: some bucket of the map m that was used longest ago.
Oldest(m) == {k \in DOMAIN m : \A j \in DOMAIN m : m[k].last <= m[j].last}

Without(m, k) == Restrict(m, DOMAIN m \ {k})
With(m, k, b) == [j \in DOMAIN m \cup {k} |-> IF j = k THEN b ELSE m[j]]

Least(a, b) == IF a < b THEN a ELSE b

Refilled_Backwards(b, t) ==
    [tokens |-> IF t > b.last THEN Least(Capacity, b.tokens + (t - b.last) * Refill)
                              ELSE b.tokens,
     last |-> t]

\* The refill of an existing bucket; a time before its last one changes
\* nothing.
Refilled(b, t) ==
    IF t > b.last
    THEN [tokens |-> Least(Capacity, b.tokens + (t - b.last) * Refill), last |-> t]
    ELSE b

\* The caller returns; a grant is booked.
Return(c) == seen' = [seen EXCEPT ![c] = Idle]

Fresh(t) == [tokens |-> Capacity - One, last |-> t]

MustEvict(m) == Cardinality(DOMAIN m) >= MaxKeys

\* allow, no bucket for the key: a full bucket less one token, after an
\* eviction if the map is full.  The accounting of the evicted key ends.
AllowNew(c, k) ==
    LET t == seen[c]
        m == Purged(t)
    IN  /\ t # Idle
        /\ k \notin DOMAIN m
        /\ \/ /\ ~MustEvict(m)
              /\ buckets' = With(m, k, Fresh(t))
              /\ granted' = [granted EXCEPT ![k] = @ + One]
              /\ since' = [since EXCEPT ![k] = IF @ = Idle THEN t ELSE @]
           \/ /\ MustEvict(m)
              /\ \E v \in Oldest(m) :
                    /\ buckets' = With(Without(m, v), k, Fresh(t))
                    /\ granted' = [granted EXCEPT ![v] = 0, ![k] = @ + One]
                    /\ since' = [since EXCEPT ![v] = Idle,
                                              ![k] = IF @ = Idle THEN t ELSE @]
        /\ Return(c)
        /\ UNCHANGED <<limit, now>>

\* allow, the bucket is there: refill, then take a token.
AllowExisting(c, k) ==
    LET t == seen[c]
        m == Purged(t)
        b == Refilled(m[k], t)
    IN  /\ t # Idle
        /\ k \in DOMAIN m
        /\ b.tokens >= One
        /\ buckets' = [m EXCEPT ![k] = [b EXCEPT !.tokens = @ - One]]
        /\ granted' = [granted EXCEPT ![k] = @ + One]
        /\ Return(c)
        /\ UNCHANGED <<limit, now, since>>

\* allow returns false; the refill stays.
Refuse(c, k) ==
    LET t == seen[c]
        m == Purged(t)
        b == Refilled(m[k], t)
    IN  /\ t # Idle
        /\ k \in DOMAIN m
        /\ b.tokens < One
        /\ buckets' = [m EXCEPT ![k] = b]
        /\ Return(c)
        /\ UNCHANGED <<limit, now, granted, since>>

Tick ==
    /\ now < MaxTime
    /\ \A c \in Callers : seen[c] = Idle \/ now + 1 - seen[c] <= MaxStale
    /\ now' = now + 1
    /\ UNCHANGED <<limit, buckets, seen, granted, since>>

Next ==
    \/ \E c \in Callers :
          \/ Arrive(c)
          \/ \E k \in Keys : AllowNew(c, k) \/ AllowExisting(c, k) \/ Refuse(c, k)
    \/ Tick

Spec == Init /\ [][Next]_vars

-----------------------------------------------------------------------------
(* Properties                                                              *)

\* Bursts that purging hands out beyond the refill: none when a bucket that
\* was idle for IdleTTL has filled up anyway, as under the default limits;
\* under a slower configuration, one for every IdleTTL, less what the clock
\* readings of two callers may be apart.
PurgedBursts(t) ==
    IF Capacity <= Refill * (IdleTTL - MaxStale) THEN 0
    ELSE t \div (IdleTTL + 1 - MaxStale)

\* Whatever the order in which callers with old times get the mutex, and
\* although idle buckets are thrown away and made again full, a key gets at
\* most its burst, the refill for the time since its first request, and, if
\* the limits are slower to refill than bucketIdleTTL, a burst for each time
\* it stayed away that long.  (An eviction by other keys gives it a new burst;
\* the count starts over.)
RateIsBounded ==
    \A k \in Keys : since[k] # Idle =>
        LET t == now - since[k]
        IN  granted[k] <= Capacity * (1 + PurgedBursts(t)) + Refill * t

=============================================================================
