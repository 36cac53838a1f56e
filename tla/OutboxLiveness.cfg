SPECIFICATION FairSpec
CONSTANTS
    Events = {e1}
    Workers = {w1, w2}
    NoEv = NoEv
    NumActions = 1
    Lease = 1
    Retention = 1
    RetainPayload = FALSE
    MaxRetries = 1
    MaxRetryAge = 2
    Delays = {1}
    AcceptKinds = {"deliver", "skip", "badrule", "badsnapshot"}
    TimelyRenewal = TRUE
    MaxTime = 4
    AcceptUntil = 0
    MaxStarts = 2
    MaxFaults = 1
    FaultUntil = 2
    MaxReplays = 1
PROPERTIES
    EventuallySettled
    ImplementsDelivery
