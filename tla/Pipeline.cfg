SPECIFICATION Spec
CONSTANTS
    f1 = f1
    f2 = f2
    c1 = c1
    MinAssumptions = 2
    MaxAssumptions = 3
    Cases = {f1, f2}
    Analogues = {c1}
    CallBudget = 8
    CostBudget = 1
    MaxPrice = 1
SYMMETRY Symmetry
INVARIANTS
    CitationsResolve
    HistoryOnlyContradicts
    CallsAccountedFor
    CallBudgetSuffices
    BudgetsHold
CHECK_DEADLOCK FALSE
