CONSTANTS
    Root <- MC_Root
    Nets <- MC_Nets
    Genesis <- MC_Genesis
    Users = {u}
    Actors = {}
    Values = {3}
    FEE = 1
    StakeAmt = 1
    MaxMsgs = 3
SPECIFICATION Spec
CHECK_DEADLOCK FALSE
INVARIANTS
    GatewaySolvent
