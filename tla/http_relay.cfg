SPECIFICATION Spec
CONSTANTS
    None = None
    Ids = {1, 2, 3}
    Requests <- MCRequests
    BodyOf <- MCBodyOf
    Untouched <- MCUntouched
CHECK_DEADLOCK FALSE
INVARIANT TypeOK
INVARIANT AnswersReachTheirCaller
INVARIANT AnswersAreTaken
INVARIANT ResultsKeepTheirTool
INVARIANT OnlyAllowedReachTheServer
INVARIANT DropsAreNoted
PROPERTY EveryRequestIsAnswered
