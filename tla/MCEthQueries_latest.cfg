CONSTANTS
    Nil = Nil
    a1 = a1
    a2 = a2
    t1 = t1
    h1 = h1
    h2 = h2
    hx = hx
    Addrs = {a1, a2}
    Topics = {t1}
    Txids <- MCTxids
    Hashes = {h1, hx}
    HashOf <- MCHashOf
    LogShapes <- MCLogShapes
    Numbers <- MCNumbersFew
    BlockNums <- MCBlockNumsTags
    WordBytes = 2
    UintWidth = 3
    IntWidth = 4
    MaxHead = 2
    MaxConf = 1
    MaxLogResults = 1
    MaxTopicPos = 1
SPECIFICATION Spec
INVARIANT BlockByNumberResolves
