SPECIFICATION Spec
CONSTANTS
    f1 = f1
    f2 = f2
    c1 = c1
    MinAssumptions = 1
    MaxAssumptions = 1
    Cases = {f1, f2}
    Analogues = {c1}
    CallBudget = 5
    CostBudget = 1
    MaxPrice = 1
INVARIANT NoEvidenceIsInsufficient
CHECK_DEADLOCK FALSE
