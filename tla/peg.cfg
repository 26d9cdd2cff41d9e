SPECIFICATION MCSpec
CONSTANTS
    WeiPerSat = 2
    MaxSats = 2
    MaxU32 = 9
    MsgValue <- MCMsgValue
    MainFeeSats <- MCMainFeeSats
    MaxRequests = 3
    MaxHeight = 6
    MaxOutcomes = 6
    Reserve = 8
    DepositSats <- MCDepositSats
    MaxDeposits = 3
    BundleCapacity = 2
    BaseFees <- MCBaseFees
    GasSuffices = TRUE
INVARIANTS
    PegTypeOK
    SupplyFixed
    Solvent
    VaultCovers
    RefundsGoThrough
