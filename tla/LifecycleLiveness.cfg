SPECIFICATION FairSpec
CONSTANTS
    j1 = j1
    j2 = j2
    w1 = w1
    c1 = c1
    Jobs = {j1, j2}
    Workers = {w1}
    Cancellers = {c1}
    Infeasible = {j2}
    Capacity = 1
    MaxRestarts = 2
    None = None
PROPERTIES
    InFlightCancelWins
    
CHECK_DEADLOCK FALSE
