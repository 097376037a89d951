CONSTANTS
    None = None
    Bytes = {1, 2}
    AddrWidth = 2
    TopicWidth = 3
    MaxPushes = 6
    OutShapes <- MCOutShapes
    InShapes <- MCInShapes
    MaxOuts = 3
    MaxIns = 2
    Prec = 10
    UnitsPerCoin = 100
    WeiPerUnit = 100
    AmountBits = 16
    MaxUnits = 255
    Nil = Nil
    a1 = a1
    a2 = a2
    t1 = t1
    h1 = h1
    h2 = h2
    hx = hx
    Addrs = {a1, a2}
    Topics = {t1}
    Txids <- MCTxids
    Hashes = {h1, hx}
    HashOf <- MCHashOf
    LogShapes <- MCLogShapes
    Numbers <- MCNumbers
    BlockNums <- MCBlockNums
    WordBytes = 2
    UintWidth = 3
    IntWidth = 4
    MaxHead = 2
    MaxConf = 1
    MaxLogResults = 1
    MaxTopicPos = 1
    c1 = c1
    r1 = r1
    r2 = r2
    Callers = {c1}
    RCTxids = {r1, r2}
    MaxRetry = 3
    MaxNetFails = 2
    MaxDepth = 2
SPECIFICATION DSpec
INVARIANTS
    PayloadAgrees
    TxConversionAgrees
    AmountLossBounded
    GetLogsAgrees
    RCTypeOK
    ConfirmationsLinearizable
    LogDataRoundTrip
    ConfirmationSlot
PROPERTIES
    CallReturns
