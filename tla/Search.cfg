SPECIFICATION Spec
CONSTANTS
    Parent <- MCParent
    PruneVisits = 1
    Probes = 3
    MaxTrees = 2
    Workers = 2
    Worlds = 6
    Results <- MCResults
INVARIANTS
    VerdictIsTruthful
    TreesAreAccountedFor
PROPERTY SearchReturns
CHECK_DEADLOCK FALSE
