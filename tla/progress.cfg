SPECIFICATION MCFairSpec
CONSTANTS
    Faults = {"otherMiner", "rpcFails"}
    MaxFaults = 2
    MaxLost = 1
    DepositKinds = {"none"}
    OutcomeStatus = {}
    MaxRequests = 1
    BundleCapacity = 1
    OutOfGas = {}
    MaxMain = 8
    Window = 2
    MaxU32 = 100
INVARIANTS
    NoDoublePayout
    BundledIsKnown
PROPERTY
    KeepsProducing
