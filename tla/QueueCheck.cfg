CONSTANTS
    Proc = {p1, p2, p3}
    NoProc = NoProc
    MaxLen = 3
    Budgets = {0, 2}
SPECIFICATION Spec
INVARIANTS
    ClosedForm
