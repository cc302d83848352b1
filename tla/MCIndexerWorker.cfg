CONSTANTS
    Proc = {p, q}
    Slot = {1}
    NoSnapshot = NoSnapshot
    Free = Free
    MaxFaults = 1
    Kinds = {"clean", "rejected", "divergent"}
    Sizes = {2}
    PageLimit = 2
    PackageVersion = "testnet-v0.1.0"
    Times = {1}
    MaxTx = 2
SPECIFICATION FairSpec

    
PROPERTIES
    
    CleanChainCheckpointed
    
CHECK_DEADLOCK FALSE
