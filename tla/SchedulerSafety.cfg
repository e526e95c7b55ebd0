SPECIFICATION Spec
CONSTANTS
    heavy = heavy
    huge = huge
    excl = excl
    cheap = cheap
    mid = mid
    tiny = tiny
    bigSolver = bigSolver
    exclSolver = exclSolver
    smallSolver = smallSolver
    Jobs = {heavy, excl, cheap, mid, tiny}
    Solvers = {bigSolver, exclSolver, smallSolver}
    Memory <- MixMemory
    Threads <- MixThreads
    Solver <- MixSolver
    Priority <- MixPriority
    Exclusive = {excl}
    Recurring = {heavy, mid}
    Cap <- MixCap
    Aggregate = 4
    MaxActive = 2
    MaxThreads = 4
    AgingAfterSkips = 2
INVARIANTS
    TypeOK
    CountersExact
    NeverOversubscribed
    ExclusiveRunsAlone
    IdleMachineServes
PROPERTIES
    HeadOfLine
    OvertakingHarmless
