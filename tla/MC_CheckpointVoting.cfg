CONSTANTS
    Validators = {v1, v2, v3}
    User = u
    MinStake = 2
    FEE = 1
    JoinAmounts = {1, 2}
    FundValues = {2}
    InitBal = 3
    NoSubnet = NoSubnet
    MaxEpoch = 2
    Data = {d1, d2}
SPECIFICATION Spec
CHECK_DEADLOCK FALSE
INVARIANTS
    TypeOK
