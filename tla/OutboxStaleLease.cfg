SPECIFICATION Spec
CONSTANTS
    Events = {e1}
    Workers = {w1, w2}
    NoEv = NoEv
    NumActions = 2
    Lease = 1
    Retention = 0
    RetainPayload = FALSE
    MaxRetries = 1
    MaxRetryAge = 3
    Delays = {1}
    AcceptKinds = {"deliver", "skip"}
    TimelyRenewal = FALSE
    MaxTime = 2
    AcceptUntil = 2
    MaxStarts = 1
    MaxFaults = 0
    FaultUntil = 0
    MaxReplays = 1
SYMMETRY WorkerSymmetry
INVARIANTS
    EventDoneMeansAllDone
    SucceededIsAudited
    RetryWithinAge
PROPERTIES
    DoneIsFinal
