SPECIFICATION Spec
CONSTANTS
    NumRows = 3
    Credentials = {token, short}
    Embedded = {short}
    Sizes = {1, 3}
    BatchRows = 2
    BatchBytes = 2
    MaxFaults = 2
INVARIANTS
    ServesScrubbed
    BatchIsBounded
PROPERTIES
    EventuallyServes
CHECK_DEADLOCK FALSE
