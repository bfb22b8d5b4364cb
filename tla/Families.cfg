SPECIFICATION Spec
CONSTANTS
    Node <- MCNode
    Fault = {"f1", "f2"}
    Plans <- MCPlans
    KnownBaseline = {1}
    Slots = 2
    Flaky = TRUE
INVARIANTS
    NothingIsLeftUnseen
PROPERTIES
    WithdrawnMeansUndone
CHECK_DEADLOCK FALSE
