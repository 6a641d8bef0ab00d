CONSTANTS
    Subnets = {s1, s2}
    Data = {d1, d2}
    MaxEpoch = 2
    MaxTime = 2
    BundleValues = {0, 1}
    CircInit = 1
    NoCheck = NoCheck
SPECIFICATION Spec
CHECK_DEADLOCK FALSE
INVARIANTS
    EpochsStrictlyIncrease
