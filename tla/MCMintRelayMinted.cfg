SPECIFICATION Spec
CONSTANTS
    Messages = {m1}
    Clients = {c1, c2}
    NoMessage = NoMessage
    Relayer = Relayer
    WaitLimits = {0, 2}
    MaxTxs = 3
    MaxCalls = 2
    HashKeyed = TRUE
INVARIANT
    MintedMeansWeMinted
CHECK_DEADLOCK FALSE
