SPECIFICATION ExecutorFairSpec
CONSTANTS
    Node = {n1, n2}
    Bindings = {{}, {n1}, {n1, n2}}
    Partitioning = {1, 2}
    PartitionLimit = 1
    NumFaults = 3
    MaxTime = 2
    MinWidth = 0
    MaxConcurrent = 2
INVARIANTS
    HealedMeansClean
    TrackedOrReported
PROPERTIES
    ImplementsPerturbation
    CanceledRunReturns
