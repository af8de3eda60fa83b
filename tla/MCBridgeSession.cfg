SPECIFICATION ProgramSpec
CONSTANTS
    OtherChains = {"Moonbeam"}
    U32Max = 5000
    U64Max = 30000
    U128Max = 200000000
    U256Max = 300000000
    SessionChains <- MCChains
    SessionModes <- MCModes
    Amounts = {0, 2, 100000}
    FeeLevels = {130, 156}
    Environments <- MCEnvironments
    Buffer = 20
    MaxFeeChanges = 1
INVARIANTS
    TypeOK
    ValidatedRouteMints
    OnlyUncheckedBurnsRevert
    WireAgreesWithMode
    SummaryTellsTheMode
    QuoteSurvivesRise
    TemplateIsCompletedByIris
    ExtractionFindsOwnBurn
    WindowCoversFinality
    CodecAgrees
    AmountsAgree
    OfflineExamplesPass
    FundedSpendsOnlyOnDemand
    FundedBurnsUsdc
PROPERTIES
    FundedRunEnds
