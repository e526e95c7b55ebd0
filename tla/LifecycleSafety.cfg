SPECIFICATION Spec
CONSTANTS
    j1 = j1
    j2 = j2
    w1 = w1
    w2 = w2
    c1 = c1
    Jobs = {j1, j2}
    Workers = {w1, w2}
    Cancellers = {c1}
    Infeasible = {}
    Capacity = 2
    MaxRestarts = 1
    None = None
SYMMETRY Symmetry
INVARIANTS
    TypeOK
    ClaimsExact
    AtMostOneExecution
    CompletedHasEvidence
    InFlightAttended
PROPERTIES
    SettledForGood
    ImplementsJobService
CHECK_DEADLOCK FALSE
