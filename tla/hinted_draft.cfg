SPECIFICATION Spec
CONSTANTS
    RegisteredKinds <- MCKinds
    Server <- MCServer
    Policy <- STRICT
    Composing = TRUE
    Handlers = {"pump"}
    Pages <- MCPages
    EffectChoices <- MCEffectChoices
    Exemptions <- MCExemptions
    Values <- MCValues
    MaxPages = 2
    MaxEdits = 1
    MaxStarts = 2
CHECK_DEADLOCK FALSE
INVARIANT UnfinishedDraftsAreReported
