SPECIFICATION HSpec
CONSTANTS
    Events = {e1}
    Workers = {w1, w2}
    NoEv = NoEv
    NumActions = 2
    Lease = 1
    Retention = 1
    RetainPayload = FALSE
    MaxRetries = 1
    MaxRetryAge = 2
    Delays = {0, 1}
    AcceptKinds = {"deliver", "skip", "badsnapshot"}
    TimelyRenewal = TRUE
    MaxTime = 3
    AcceptUntil = 0
    MaxStarts = 2
    MaxFaults = 1
    FaultUntil = 1
    MaxReplays = 1
SYMMETRY WorkerSymmetry
INVARIANTS
    TypeOK
    OneWorkerPerEvent
    DispatchedIsRunning
    RunningIsUnderLease
    TerminalIsSettled
    InputIsKept
    CleanShutdown
    AttemptBound
    RetryingWakesInTime
    StartsAreBounded
    OneCallPastAge
