SPECIFICATION Spec
CONSTANTS
    a1 = a1
    a2 = a2
    Jobs = {a1, a2}
    Scopes <- MCScopes
    Limit <- MCLimit
    Opening <- MCOpening
    JobCeiling = 2
    MaxConcurrency = 2
    Planned <- MCPlanned
    None = None
    Costs <- MCCosts
    MaxAttempts = 2
    AutoResumes = TRUE
    MaxRestarts = 1
PROPERTIES
    CancelledNeverResumes
CHECK_DEADLOCK FALSE
