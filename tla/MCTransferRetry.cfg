SPECIFICATION Spec
CONSTANTS
    Callers = {p1, p2}
    MaxBurns = 2
    MaxPending = 2
    MaxCalls = 2
    RetryAttempts = 2
INVARIANT
    RetryIsSafe
CHECK_DEADLOCK FALSE
