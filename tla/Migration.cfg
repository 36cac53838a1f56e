SPECIFICATION MigrationSpec
CONSTANTS
    EventRows = {e1, e2}
    LogRows = {l1}
    MaxDefects = 1
    MaxMishaps = 1

    
PROPERTIES
    EventuallyOpens
CHECK_DEADLOCK FALSE
