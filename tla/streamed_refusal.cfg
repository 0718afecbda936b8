SPECIFICATION Spec
CONSTANTS
    None = None
    Ids = {1, 2, 3}
    Requests <- OneRequest
    BodyOf <- OneBodyOf
    Untouched <- NoneUntouched
CHECK_DEADLOCK FALSE
INVARIANT RefusalsAreReported
