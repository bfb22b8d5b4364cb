SPECIFICATION ShrinkSpec
CONSTANTS
    Attempts <- MCAttempts
    ConfirmK = 2
    CalibrationProbes = 1
    Options <- MCOptions
    Windows <- MCWindows
    OpCount = 2
    Granularity = 1
    NarrowMaxProbes = 2
INVARIANTS
    ResultIsEarned
PROPERTY
    CorpusIsConfirmed
CHECK_DEADLOCK FALSE
