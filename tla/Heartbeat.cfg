SPECIFICATION MonitorFairSpec
CONSTANTS
    Targets = {t1, t2}
    MaxAttempts = 2
    MaxTime = 2
CHECK_DEADLOCK FALSE
INVARIANTS
    NoFalseDown
    AggregateCoversTargets
    FailuresAreReported
PROPERTIES
    StopReturns
