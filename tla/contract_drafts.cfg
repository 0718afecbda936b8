SPECIFICATION Spec
CONSTANTS
    RegisteredKinds <- MCKinds
    Server <- MCServer
    Policy <- STRICT
    Composing = TRUE
    Handlers = {"pump"}
    Pages <- MCPages
    EffectChoices <- MCEffectChoices
    Exemptions <- MCExemptions
    Values <- MCValues
    MaxPages = 2
    MaxEdits = 3
    MaxStarts = 2
CHECK_DEADLOCK FALSE
INVARIANTS
    TypeOK
    HintsOnlyRestrict
    SheetIsWhatWasListed
    CleanServiceIsConfined
