SPECIFICATION Spec
CONSTANTS
    ana = ana
    bo = bo
    NaN = NaN
    Infinite = Infinite
    None = None
    Words = {ana, bo}
    Tools <- MCTools
    Params <- MCParams
    Known <- MCKnown
    EffectsOf <- MCEffectsOf
    Budgets <- MCBudgets
    BudgetOf <- MCBudgetOf
    Calls <- ApprovalCalls
    Policy <- AskingPolicy
    DenialBudget = 1
    MaxSteps = 3
    MaxApprovals = 2
CHECK_DEADLOCK FALSE
INVARIANT LimitsHold
