---------------------------- MODULE MCRateLimiter ----------------------------
(* An instance of RateLimiter for TLC.                                     *)
EXTENDS RateLimiter, TLC

\* A burst of one token that comes back in two ticks, within IdleTTL; with a
\* burst of two it takes longer than that.
DefaultLimit == [burst |-> 1, rate |-> 1]

Symmetry == Permutations(Callers) \cup Permutations(Keys)

=============================================================================
