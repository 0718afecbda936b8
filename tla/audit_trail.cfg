SPECIFICATION Spec
CONSTANTS
    Payloads = {allowed, denied}
    Allowed = {allowed}
    MaxRecords = 3
    MaxSessions = 2
    MaxMishaps = 2
CHECK_DEADLOCK FALSE
INVARIANTS
    TypeOK
    NothingIsDoneOffTheRecord
    FaultlessSessionsAreExact
    LossIsVisible
    AlterationIsDetected
