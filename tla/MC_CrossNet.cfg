CONSTANTS
    Root <- MC_Root
    Nets <- MC_TreeNets
    Genesis <- MC_Genesis
    Users = {u}
    Actors = {app}
    Values = {3}
    FEE = 1
    StakeAmt = 1
    MaxMsgs = 3
SPECIFICATION Spec
CHECK_DEADLOCK FALSE
INVARIANTS
    TypeOK
    DeliveredAtMostOnce
    RoutesFollowTree
