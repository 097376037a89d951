CONSTANTS
    t1 = t1
    t2 = t2
    t3 = t3
    p1 = p1
    Txs <- MCTxsPoison
    Tagged <- MCTagged
    Poison = {p1}
    MaxSrcHeight = 2
    MaxReorgs = 1
    MaxTxsInBlock = 1
    MaxCacheSize = 0
    ForceScanEvery = 2
    GenesisMainChainBlockHeight = 0
    MaxCrashes = 1
SPECIFICATION Spec
CONSTRAINT HeightBound
INVARIANTS
    NoDuplicateTx
    RoundSizeBound
PROPERTIES
    StoreAppendsInOrder
