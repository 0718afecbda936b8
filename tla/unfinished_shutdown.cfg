SPECIFICATION Spec
CONSTANTS
    Requests <- TwoRequests
    KindOf <- TwoKinds
    Capacity = 1
    Limits <- OneSignal
CHECK_DEADLOCK FALSE
PROPERTY ShutdownEndsTheChild
