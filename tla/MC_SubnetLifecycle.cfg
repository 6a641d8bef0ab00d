CONSTANTS
    Validators = {v1, v2, v3}
    User = u
    MinStake = 2
    FEE = 2
    JoinAmounts = {1, 2}
    FundValues = {3}
    InitBal = 6
    NoSubnet = NoSubnet
SPECIFICATION Spec
CHECK_DEADLOCK FALSE
INVARIANTS
    TypeOK
    RegistryAgrees
    GatewayHoldsStakeAndSupply
