SPECIFICATION Spec
CONSTANTS
    Node = {n1, n2, n3}
    Nobody = Nobody
    Cmd = {c1}
    Noop = Noop
    MaxTerm = 2
    MaxCrashes = 1
    MaxCalls = 5
    MaxReads = 1
    MaxEntries = 2
    TornTails = TRUE
SYMMETRY Symmetry
INVARIANTS StateMachinesAgree AckedIsDurable
PROPERTIES RefusalsAreTrue ReadsAreCurrent
CHECK_DEADLOCK FALSE
