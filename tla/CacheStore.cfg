CONSTANTS
    up = up
    mid = mid
    leaf = leaf
    old = old
    nodes = nodes
    results = results
    Threads = {t1, t2}
    Keys = {up, mid, leaf}
    Values = {old, new}
    Locks = {l1, l2}
    Absent = Absent
    Failed = Failed
    None = None
    Upstream <- ChainUpstream
    Family <- ChainFamily
    MaxFiles = 2
    Opened <- Populated
    PinnedAtPut = {up}
    Shared = {leaf}
    MaxCalls = 3
    MaxRestarts = 1
SPECIFICATION Spec
SYMMETRY Symmetry
INVARIANTS
    TypeOK
    SingleFlight
    IndexMatchesFiles
PROPERTIES
    EvictReachesBudget
    InvalidationClosed
    
