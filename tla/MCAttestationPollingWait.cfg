SPECIFICATION Spec
CONSTANTS
    NumMessages = 2
    IrisEntries <- MCEntries
    PollingConfigs <- MCConfigs
    RateLimitSecs = 300
    U64Max = 1000000
INVARIANT
    WithinTotalTimeout
