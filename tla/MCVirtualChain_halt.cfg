CONSTANTS
    t1 = t1
    t2 = t2
    t3 = t3
    p1 = p1
    Txs <- MCTxsHalt
    Tagged = {t1}
    Poison = {p1}
    MaxSrcHeight = 2
    MaxReorgs = 0
    MaxTxsInBlock = 1
    MaxCacheSize = 1
    ForceScanEvery = 2
    GenesisMainChainBlockHeight = 0
    MaxCrashes = 1
SPECIFICATION Spec
VIEW LivenessView
PROPERTIES
    EventuallyIncluded
