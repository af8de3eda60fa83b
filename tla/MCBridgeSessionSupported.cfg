SPECIFICATION ProgramSpec
CONSTANTS
    OtherChains = {"Moonbeam"}
    U32Max = 5000
    U64Max = 30000
    U128Max = 200000000
    U256Max = 300000000
    SessionChains <- MCSupportedChains
    SessionModes = {}
    Amounts = {0, 2}
    FeeLevels = {130}
    Environments <- MCNoEnvironments
    Buffer = 20
    MaxFeeChanges = 0
INVARIANT
    SupportedChainsAreServed
