SPECIFICATION Spec
CONSTANTS
    Destination = {1, 2, 3}
    SpkSize <- MCSpkSize
    ValueSats = {1, 2}
    MainFeeSats = {0, 1}
    MaxU64 = 100
    MaxU32 = 2
    MaxWeight <- MCMaxWeight
    MaxRequests = 3
INVARIANTS
    TypeOK
    Canonical
    WeightBound
    PaysWhatItConsumes
    FeePriority
