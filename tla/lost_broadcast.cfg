SPECIFICATION MCSpec
CONSTANTS
    Faults = {"lostBroadcast"}
    MaxFaults = 1
    MaxLost = 1
    DepositKinds = {"none"}
    OutcomeStatus = {"Succeeded"}
    MaxRequests = 1
    BundleCapacity = 1
    OutOfGas = {}
    MaxMain = 4
    Window = 2
    MaxU32 = 100
INVARIANT
    BundledIsKnown
