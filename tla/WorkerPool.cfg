SPECIFICATION FairSpec
CONSTANTS
    Events = {e1, e2}
    Workers = {w1, w2}
    NoEvent = NoEvent
    Buffer = 1
    MaxFaults = 1
INVARIANTS
    HintCoversNewEvents
    OneClaimAfterStop
PROPERTIES
    DueIsTaken
    WorkersLeave
CHECK_DEADLOCK FALSE
