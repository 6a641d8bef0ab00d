CONSTANTS
    Validators = {v1, v2}
    User = u
    MinStake = 2
    FEE = 1
    JoinAmounts = {1, 2}
    FundValues = {2}
    InitBal = 3
    NoSubnet = NoSubnet
SPECIFICATION Spec
CHECK_DEADLOCK FALSE
INVARIANTS
    ValidatorKeepsStake
