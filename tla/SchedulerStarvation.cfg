SPECIFICATION FairSpec
CONSTANTS
    heavy = heavy
    huge = huge
    excl = excl
    cheap = cheap
    mid = mid
    tiny = tiny
    bigSolver = bigSolver
    exclSolver = exclSolver
    smallSolver = smallSolver
    Jobs = {heavy, cheap, mid}
    Solvers = {bigSolver, smallSolver}
    Memory <- WideMemory
    Threads <- WideThreads
    Solver <- WideSolver
    Priority <- WidePriority
    Exclusive = {}
    Recurring = {cheap, mid}
    Cap <- StreamCap
    Aggregate = 4
    MaxActive = 4
    MaxThreads = 2
    AgingAfterSkips = 2
PROPERTIES
    PromotedNeverStarved
