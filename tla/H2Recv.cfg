SPECIFICATION Spec
CONSTANTS
    Scenarios <- MCScenarios
    N = 2
    ConnWindow = 4
    RecvInit = 3
    StreamWindow = 1
    Pads = {0, 1}
    Threshold = 2
    BudgetMax = 2
    MaxEmpty = 1
    ResetMax = 1
    MaxErrors = 1
CHECK_DEADLOCK FALSE
INVARIANTS CreditLedgers SettledIsGone TrueEndTold
