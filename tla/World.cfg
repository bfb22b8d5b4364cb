SPECIFICATION LiveSpec
CONSTANTS
    Effect = {f1, f2}
    Draining = TRUE
INVARIANTS
    OutcomeIsTruthful
    LeftoversAreReported
PROPERTIES
    WorldReturns
CHECK_DEADLOCK FALSE
