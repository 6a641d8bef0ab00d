CONSTANTS
    Root <- MC_Root
    Nets <- MC_Nets
    Genesis <- MC_RootGenesis
    Users = {u}
    Actors = {}
    Values = {2}
    FEE = 1
    StakeAmt = 1
    MaxMsgs = 3
SPECIFICATION FairSpec
CHECK_DEADLOCK FALSE
PROPERTIES
    NoMessageStuck
