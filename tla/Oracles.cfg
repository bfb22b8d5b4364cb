CONSTANTS
    Node = {n1, n2}
    Op = {o1}
    Horizon = 2
    SLO = 1
    Convergence = 1
    MaxDeaths = 2
    MaxFaults = 1
    MaxProbes = 2
    Registrations <- MCRegistrations
    Assertable <- MCAssertable
SPECIFICATION Spec
CHECK_DEADLOCK FALSE
INVARIANTS
    BelievedOnlyWhole
    JudgementsAreEarned
PROPERTY EvaluationReturns
