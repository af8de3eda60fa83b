SPECIFICATION Spec
CONSTANTS
    Callers = {t1, t2}
    Amounts = {2, 3}
    Balance = 4
    Allowances = {2}
    WaitChoices = {TRUE, FALSE}
    MaxCalls = 3
    MaxPending = 2
INVARIANT
    BurnIsSafe
CHECK_DEADLOCK FALSE
