SPECIFICATION MCFairSpec
CONSTANTS
    Faults = {"crash"}
    MaxFaults = 1
    MaxLost = 1
    DepositKinds = {"none"}
    OutcomeStatus = {}
    MaxRequests = 0
    BundleCapacity = 1
    OutOfGas = {}
    MaxMain = 6
    Window = 2
    MaxU32 = 100
PROPERTY
    KeepsProducing
