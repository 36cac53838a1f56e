SPECIFICATION Spec
CONSTANTS
    Requests = {r1, r2, r3}
    Inputs <- MCInputs
    NoDelivery = "none"
    Bodies = {"b1", "b2"}
    MaxConns = 2
    MaxBytes = 3
    MaxBody = 2
    Skew = 1
    TTL = 2
    Retention = 1
    MaxTime = 3
    MaxCrashes = 1
SYMMETRY RequestSymmetry
INVARIANTS
    BudgetIsExact
    ConflictMeansStored
    SameBodyApart
CHECK_DEADLOCK FALSE
