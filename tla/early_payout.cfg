SPECIFICATION MCSpec
CONSTANTS
    Faults = {"otherMiner"}
    MaxFaults = 1
    MaxLost = 1
    DepositKinds = {"none"}
    OutcomeStatus = {"Succeeded"}
    MaxRequests = 1
    BundleCapacity = 1
    OutOfGas = {}
    MaxMain = 5
    Window = 2
    MaxU32 = 100
INVARIANT
    SettledByNextBlock
