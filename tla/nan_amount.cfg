SPECIFICATION Spec
CONSTANTS
    ana = ana
    bo = bo
    NaN = NaN
    Infinite = Infinite
    None = None
    Words = {ana, bo}
    Tools <- MCTools
    Params <- MCParams
    Known <- MCKnown
    EffectsOf <- MCEffectsOf
    Budgets <- SpendOnly
    BudgetOf <- SpendOnlyOf
    Calls <- BudgetCalls
    Policy <- STRICT
    DenialBudget = 2
    MaxSteps = 4
    MaxApprovals = 0
CHECK_DEADLOCK FALSE
INVARIANT SumsAreEnforced
