SPECIFICATION MCSpec
CONSTANTS
    Faults = {}
    MaxFaults = 0
    MaxLost = 1
    DepositKinds = {"none", "good", "malformed"}
    OutcomeStatus = {}
    MaxRequests = 0
    BundleCapacity = 1
    OutOfGas = {}
    MaxMain = 4
    Window = 2
    MaxU32 = 100
INVARIANT
    NextBlockCredits
