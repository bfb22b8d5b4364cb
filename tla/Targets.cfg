SPECIFICATION Spec
CONSTANTS
    Drivers = {"redis", "rqlite", "etcd", "consul"}
    Nodes = 2
    Clients = 2
    Keys = 1
    Budget <- MCBudget
    DiskFails = {"etcd", "consul"}
    Probes = {"status", "etcd", "rqlite", "consul", "redis"}
    Members = 3
    MaxTerm = 2
    MaxAttempts = 2
INVARIANTS
    HistoryIsTrue
    TargetsAreAsNamed
PROPERTIES
    BeliefIsNotUndone
    DriverEnds
CHECK_DEADLOCK FALSE
