SPECIFICATION Spec
CONSTANTS
    MaxLength = 4
    MaxTotal = 6
    Budgets <- SmallBudgets
INVARIANTS Tiles Fits NoNeedlessSplit
CHECK_DEADLOCK FALSE
