CONSTANTS
    t1 = t1
    t2 = t2
    t3 = t3
    p1 = p1
    Txs <- MCTxs
    Tagged <- MCTagged
    Poison = {}
    MaxSrcHeight = 2
    MaxReorgs = 0
    MaxTxsInBlock = 1
    MaxCacheSize = 1
    ForceScanEvery = 2
    GenesisMainChainBlockHeight = 0
    MaxCrashes = 1
SPECIFICATION Spec
VIEW LivenessView
INVARIANT
    ScanCompleteness
PROPERTIES
    EventuallyIncluded
