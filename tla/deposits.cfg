SPECIFICATION MCSpec
CONSTANTS
    Faults = {"otherMiner", "lag", "crash", "nodeCrash", "stall"}
    MaxFaults = 3
    MaxLost = 2
    DepositKinds = {"none", "good"}
    OutcomeStatus = {}
    MaxRequests = 0
    BundleCapacity = 1
    OutOfGas = {}
    MaxMain = 6
    Window = 2
    MaxU32 = 100
INVARIANTS
    DepositsOnce
    CommittedAfterAnchor
