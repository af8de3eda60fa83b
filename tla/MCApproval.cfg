SPECIFICATION FairSpec
CONSTANTS
    Callers = {t1, t2}
    Amounts = {2, 3}
    Balance = 4
    Allowances = {2}
    WaitChoices = {TRUE, FALSE}
    MaxCalls = 3
    MaxPending = 2
INVARIANTS
    TypeOK
    BurnRevertsOnlyIfDisturbed
    WaitingCallIsNotRefused
PROPERTY
    CallsReturn
CHECK_DEADLOCK FALSE
