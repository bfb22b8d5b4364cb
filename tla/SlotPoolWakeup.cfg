SPECIFICATION PoolSpec
CONSTANTS
    Workers = 2
    Requests = 3
INVARIANT CancelWakesTheWaiter
CHECK_DEADLOCK FALSE
