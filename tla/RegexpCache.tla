----------------------------- MODULE RegexpCache -----------------------------
(***************************************************************************)
(* The cache of compiled rule patterns (router/match.go), shared by all    *)
(* workers: a map of at most Size patterns and a ring that remembers the   *)
(* order in which they came.  compile runs under the cache's mutex, except *)
(* for patterns too long to be cached.  Filter says who calls it.          *)
(***************************************************************************)
EXTENDS Integers, FiniteSets

CONSTANTS Patterns,  \* patterns of the rules
          Invalid,   \* those of them that do not compile
          Long,      \* those of them that are too long to be cached
          Empty,     \* a slot of the ring that was never written
          Size       \* maxCachedRules

ASSUME CacheAssumption ==
    /\ Empty \notin Patterns
    /\ Invalid \subseteq Patterns /\ Long \subseteq Patterns
    /\ Size \in Nat \ {0}

Slots == 0..(Size - 1)

VARIABLES entries,  \* keys of the map
          order,    \* the ring
          next      \* the slot written next

cache == <<entries, order, next>>

CacheInit ==
    /\ entries = {}
    /\ order = [s \in Slots |-> Empty]
    /\ next = 0

\* The map is full: the pattern in the slot about to be written goes.
Evicted == IF Cardinality(entries) = Size THEN {order[next]} ELSE {}

NextSlot_Unwrapped(s) == IF s + 1 < Size THEN s + 1 ELSE s

NextSlot(s) == (s + 1) % Size

\* compile of a valid pattern that could be cached and is not.
Insert(p) ==
    /\ p \notin entries \cup Invalid \cup Long
    /\ entries' = (entries \ Evicted) \cup {p}
    /\ order' = [order EXCEPT ![next] = p]
    /\ next' = NextSlot(next)

\* compile of a cached pattern, of one that does not compile, or of a long one.
Lookup(p) ==
    /\ p \in entries \cup Invalid \cup Long
    /\ UNCHANGED cache

Compile(p) == Insert(p) \/ Lookup(p)

-----------------------------------------------------------------------------
(* What the cache promises                                                 *)

\* The map and the ring agree: the map holds exactly the patterns in the
\* ring, no pattern sits in two slots, and the ring fills up slot by slot, so
\* that the map is full exactly when no slot is empty.
RingMatchesMap ==
    /\ entries = {order[s] : s \in Slots} \ {Empty}
    /\ \A s, u \in Slots : order[s] = order[u] /\ order[s] # Empty => s = u
    /\ \A s \in Slots : order[s] = Empty <=>
          s >= next /\ \E u \in Slots : u >= next /\ order[u] = Empty

\* The patterns in the order in which they came, as the ring remembers them.
Queue ==
    IF order[next] = Empty
    THEN [i \in 1..next |-> order[i - 1]]
    ELSE [i \in 1..Size |-> order[(next + i - 1) % Size]]

Fifo == INSTANCE FifoCache WITH Members <- Patterns \ (Invalid \cup Long),
                                Bound <- Size, queue <- Queue

=============================================================================
