SPECIFICATION FairSpec
CONSTANTS
    Messages = {m1}
    Clients = {c1, c2}
    NoMessage = NoMessage
    Relayer = Relayer
    WaitLimits = {0, 2}
    MaxTxs = 3
    MaxCalls = 2
    HashKeyed = TRUE
INVARIANTS
    TypeOK
    SubmissionIsNotLost
    GasIsWastedOnlyInARace
    TimeoutIsHonest
PROPERTIES
    AnswersAreSettled
    MintedLeadsToReceived
    CallsReturn
CHECK_DEADLOCK FALSE
