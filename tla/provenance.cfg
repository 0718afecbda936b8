SPECIFICATION Spec
CONSTANTS
    None = None
    Sources <- MCSources
    LabelOf <- VouchedLabelOf
    Values <- MCValues
    Kinds <- MCKinds
    Keys <- MCKeys
    Forms <- MCForms
    KindOf <- MCKindOf
    KeyOf <- MCKeyOf
    FormOf <- MCFormOf
    SplitsOf <- MCSplitsOf
    Quotable <- MCQuotable
    Paths <- MCPaths
    Contents <- MCContents
    Parameters <- MCParameters
    MaxChars = 5
    MaxSteps = 4
CHECK_DEADLOCK FALSE
INVARIANTS
    TypeOK
    LedgerIsExact
    CachesAreCoherent
    NothingFromNobody
    DirectedMeansPrincipal
    PrincipalValuesStayUsable
    PayloadsAreTainted
PROPERTY HandlesAreStable
