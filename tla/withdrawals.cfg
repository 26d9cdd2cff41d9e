SPECIFICATION MCSpec
CONSTANTS
    Faults = {"otherMiner", "lostBroadcast", "crash"}
    MaxFaults = 2
    MaxLost = 1
    DepositKinds = {"none"}
    OutcomeStatus = {"Succeeded", "Failed"}
    MaxRequests = 2
    BundleCapacity = 1
    OutOfGas = {"settling"}
    MaxMain = 6
    Window = 2
    MaxU32 = 100
INVARIANTS
    TypeOK
    StatusFollowsMainchain
    NoDoublePayout
