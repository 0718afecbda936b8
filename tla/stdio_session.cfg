SPECIFICATION Spec
CONSTANTS
    Requests <- TwoRequests
    KindOf <- TwoKinds
    Capacity = 1
    Limits <- SessionLimits
CHECK_DEADLOCK FALSE
INVARIANTS
    TypeOK
    OneWriterAtATime
    AnsweredOnce
    ResultsAreKnown
PROPERTIES
    RequestsAreAnswered
    ClosingEndsTheProxy
    EscalationEndsTheChild
