SPECIFICATION FairSpec
CONSTANTS
    Callers = {p1, p2}
    MaxBurns = 2
    MaxPending = 2
    MaxCalls = 2
    RetryAttempts = 2
INVARIANTS
    TypeOK
    OneBurnPerPayment
PROPERTIES
    PaymentIsHonest
    OnlyTransferForgetsItsBurn
    CompleteLeadsToReceived
    CallsReturn
CHECK_DEADLOCK FALSE
