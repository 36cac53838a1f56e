SPECIFICATION Spec
CONSTANTS
    Events = {e1}
    Workers = {w1}
    NoEv = NoEv
    NumActions = 1
    Lease = 2
    Retention = 9
    RetainPayload = FALSE
    MaxRetries = 0
    MaxRetryAge = 2
    Delays = {1}
    AcceptKinds = {"skip"}
    TimelyRenewal = TRUE
    MaxTime = 2
    AcceptUntil = 0
    MaxStarts = 2
    MaxFaults = 0
    FaultUntil = 3
    MaxReplays = 0
INVARIANTS
    SkippedPayloadCleared
