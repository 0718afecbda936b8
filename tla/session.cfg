SPECIFICATION Spec
CONSTANTS
    ana = ana
    bo = bo
    NaN = NaN
    Infinite = Infinite
    None = None
    Words = {ana, bo}
    Tools <- MCTools
    Params <- MCParams
    Known <- MCKnown
    EffectsOf <- MCEffectsOf
    Budgets <- MCBudgets
    BudgetOf <- MCBudgetOf
    Calls <- AnyCalls
    Policy <- MixedPolicy
    DenialBudget = 1
    MaxSteps = 4
    MaxApprovals = 2
CHECK_DEADLOCK FALSE
INVARIANTS
    TypeOK
    HaltIsExact
    NothingAdmittedAfterHalt
    EgressAfterDenialIsMarked
    ConfidentialEgressIsMarked
    ApprovalsAreOfEscalations
    BudgetsCountCommittedCalls
    LimitsHoldWithoutApprovals
PROPERTY ActsAsGate
