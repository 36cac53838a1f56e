SPECIFICATION Spec
CONSTANTS
    Patterns = {"p1", "p2", "p3", "long", "broken"}
    Invalid = {"broken"}
    Long = {"long"}
    Empty = Empty
    Size = 2
    Workers = {w1, w2}
    Events = {e1, e2, e3}
    Sources = {"alarms", "other"}
    Snapshot <- MCSnapshot
    Payloads <- MCPayloads
    Matches <- MCMatches
    Secrets = {"key"}
    Mask = "***"
    NoVars = NoVars
    Other = "other"
    MaxFaults = 1
    MaxStarts = 2
SYMMETRY Symmetry
CHECK_DEADLOCK FALSE
INVARIANTS
    FilteredAsConfigured
    DropsAreCommitted
PROPERTIES
    CacheIsFifo
