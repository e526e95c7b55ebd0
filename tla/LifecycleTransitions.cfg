SPECIFICATION Spec
CONSTANTS
    j1 = j1
    w1 = w1
    c1 = c1
    Jobs = {j1}
    Workers = {w1}
    Cancellers = {c1}
    Infeasible = {}
    Capacity = 1
    MaxRestarts = 0
    None = None
PROPERTIES
    OnlyLegalTransitions
CHECK_DEADLOCK FALSE
