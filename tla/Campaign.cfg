SPECIFICATION Spec
CONSTANTS
    Candidates <- MCCandidates
    Rejected <- MCRejected
    Position <- MCPosition
    Feature <- MCFeature
    Top = 2
    RungCost <- MCRungCost
    Outcomes <- MCOutcomes
    Specs <- MCSpecs
    MinPromote = 1
    BatchRows = 2
    None = None
    MaxRuns = 2
INVARIANTS TypeOK BudgetKept CostBounded EvidenceKept  FeasibleFirst OutcomeIsReference
PROPERTIES StoreImmutable RunEnds
