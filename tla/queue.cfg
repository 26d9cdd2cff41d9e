SPECIFICATION MCSpec
CONSTANTS
    WeiPerSat = 2
    MaxSats = 3
    MaxU32 = 2
    MsgValue <- MCMsgValue
    MainFeeSats <- MCMainFeeSats
    MaxRequests = 3
    MaxHeight = 4
    MaxOutcomes = 2
    WordBytes = 4
    Base = 8
    Destinations <- MCDestinations
INVARIANTS
    TypeOK
    Conservation
    RefundedOnce
    BundleAtomic
    ReaderSeesQueue
PROPERTY
    RefinesLifecycle
