SPECIFICATION FairSpec
CONSTANTS
    heavy = heavy
    huge = huge
    excl = excl
    cheap = cheap
    mid = mid
    tiny = tiny
    bigSolver = bigSolver
    exclSolver = exclSolver
    smallSolver = smallSolver
    Jobs = {heavy, huge, cheap, mid}
    Solvers = {bigSolver, smallSolver}
    Memory <- StreamMemory
    Threads <- StreamThreads
    Solver <- StreamSolver
    Priority <- StreamPriority
    Exclusive = {}
    Recurring = {cheap, mid}
    Cap <- StreamCap
    Aggregate = 2
    MaxActive = 4
    MaxThreads = 4
    AgingAfterSkips = 2
PROPERTIES
    NoStarvation
