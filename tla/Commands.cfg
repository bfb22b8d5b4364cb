SPECIFICATION CommandsSpec
CONSTANTS
    N = 4
    Ks = {1, 2}
    Budgets = {0, 2}
    Corpora <- ShortCorpora
INVARIANTS
    ExitIsTruthful
    AnswerIsFirstBad
    TreeIsRestored
CHECK_DEADLOCK FALSE
