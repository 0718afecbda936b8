SPECIFICATION Spec
CONSTANTS
    None = None
    Sources <- MCSources
    LabelOf <- MCLabelOf
    Values <- MCValues
    Kinds <- MCKinds
    Keys <- MCKeys
    Forms <- MCForms
    KindOf <- MCKindOf
    KeyOf <- MCKeyOf
    FormOf <- MCFormOf
    SplitsOf <- NoSplitsOf
    Quotable <- MCQuotable
    Paths <- MCPaths
    Contents <- EchoContents
    Parameters <- PathParameters
    MaxChars = 9
    MaxSteps = 3
CHECK_DEADLOCK FALSE
INVARIANT EchoChangesNothing
