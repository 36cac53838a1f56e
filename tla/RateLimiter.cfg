SPECIFICATION Spec
CONSTANTS
    Callers = {c1, c2}
    Keys = {k1, k2, k3}
    One = 2
    Bursts = {0, 2, 5}
    Rates = {0, 2}
    Default <- DefaultLimit
    MaxBurst = 3
    MaxRate = 2
    MaxKeys = 2
    IdleTTL = 3
    MaxStale = 1
    MaxTime = 7
SYMMETRY Symmetry
INVARIANTS
    RateIsBounded
CHECK_DEADLOCK FALSE
