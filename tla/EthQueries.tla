----------------------------- MODULE EthQueries -----------------------------
(***************************************************************************)
(* The read path of the JSON-RPC API over the store: filterAPI.GetLogs of *)
(* src/rpc/api/filters/filter_api.go (the resolution of {fromBlock,       *)
(* toBlock, blockHash} into a height range, then the brute-force walk     *)
(* getLogsByBlockNumberRange when no address and no topic filter is given, *)
(* else the indexed query), through apiBackend (src/api/backend.go), which *)
(* rewrites each log's confirmations word (ConfirmationRewrite), to       *)
(* ChainLogDB (src/store/store.go); and ethAPI.GetBlockByNumber of        *)
(* src/rpc/api/eth_api.go.  The uint32 and uint64 widths are UintWidth    *)
(* and IntWidth bits so that the conversions wrap within reach.  The      *)
(* virtual chain holds blocks 1..head; a block holds at most one log.     *)
(***************************************************************************)
EXTENDS Integers, Sequences, SequencesExt, ConfirmationRewrite

CONSTANTS
    Nil,            \* an absent criterion field, a nil result
    Addrs, Topics,  \* log addresses and topics
    Txids,          \* source txids (display order) of the stored logs
    Hashes,         \* block hashes a criterion may name
    HashOf,         \* HashOf[h]: the hash of the block at height h (injective)
    LogShapes,      \* logs a block may hold: [addr, topics, txHash, data]
    Numbers,        \* block numbers a criterion may name (-1 latest, -2 pending)
    BlockNums,      \* block numbers asked of GetBlockByNumber
    UintWidth,      \* 32: width of uint32
    IntWidth,       \* 64: width of uint64 / int64
    MaxHead,        \* highest head height
    MaxConf,        \* deepest confirmation count the node reports
    MaxLogResults,  \* GetRpcMaxLogResults (2000)
    MaxTopicPos     \* topic positions in a criterion

\* The store holds blocks 1..head, storeLog[h] the log of block h or Nil;
\* node[t] is the depth the source node reports for txid t, -1 if unknown.
VARIABLES head, storeLog, node, crit, blockNum

vars == <<head, storeLog, node, crit, blockNum>>

Uint(x) == x % (2 ^ UintWidth)                     \* uint32(x) of an int64
Uint64(x) == x % (2 ^ IntWidth)                    \* uint64(x) of an int64
Int64(u) == IF u >= 2 ^ (IntWidth - 1) THEN u - 2 ^ IntWidth ELSE u

\* The match predicate of spec 4.5 (filterFunc is not under src/).
Match(l, c) ==
    /\ c.addresses = {} \/ l.addr \in c.addresses
    /\ \A i \in 1..Len(c.topics) :
          i <= Len(l.topics) => c.topics[i] = {} \/ l.topics[i] \in c.topics[i]

\* ChainLogDB.GetTxListByHeightWithRange: the logs of the block at that
\* height; none for a height without a block.
LogsAt(h) == IF 1 <= h /\ h <= head /\ storeLog[h] # Nil THEN <<storeLog[h]>> ELSE <<>>

\* apiBackend.GetTxListByHeight(WithRange): the store's list, each log
\* with its confirmations word rewritten.
BackendTxList(h) == [k \in DOMAIN LogsAt(h) |-> RewriteLog(node, LogsAt(h)[k])]

\* ChainLogDB.QueryLogs: the matching logs of heights start .. end-1.
QueryLogs(c, start, end) ==
    SelectSeq(FlattenSeq([k \in 1..(IF end > start THEN end - start ELSE 0) |->
                            LogsAt(start + k - 1)]),
              LAMBDA l : Match(l, c))

\* apiBackend.QueryLogs: the store's logs, each rewritten.
BackendQueryLogs(c, start, end) ==
    LET ls == QueryLogs(c, start, end)
    IN [err |-> FALSE, logs |-> [k \in DOMAIN ls |-> RewriteLog(node, ls[k])]]

\* Mutant: the cap check is >= instead of >.
getLogsByBlockNumberRangeCapOff(begin, end) ==
    LET RECURSIVE Walk(_, _)
        Walk(i, acc) ==
          IF i >= end THEN [err |-> FALSE, logs |-> acc]
          ELSE LET acc2 == acc \o BackendTxList(Uint(i)) IN
               IF Len(acc2) >= MaxLogResults THEN [err |-> TRUE]
               ELSE Walk(i + 1, acc2)
    IN Walk(begin, <<>>)

\* getLogsByBlockNumberRange: heights begin .. end-1 (int64), each read as
\* uint32(i); "too many potential results" once more than MaxLogResults.
getLogsByBlockNumberRange(begin, end) ==
    LET RECURSIVE Walk(_, _)
        Walk(i, acc) ==
          IF i >= end THEN [err |-> FALSE, logs |-> acc]
          ELSE LET acc2 == acc \o BackendTxList(Uint(i)) IN
               IF Len(acc2) > MaxLogResults THEN [err |-> TRUE]
               ELSE Walk(i + 1, acc2)
    IN Walk(begin, <<>>)

\* ChainLogDB.GetBlockByHash: the height of the stored block with that hash.
KnownHash(x) == \E h \in 1..head : HashOf[h] = x
HeightOfHash(x) == CHOOSE h \in 1..head : HashOf[h] = x

\* GetLogs: absent bounds are LatestBlockNumber (-1); a block hash sets
\* both (an unknown hash is an error); a negative bound is the head.
GetLogs(c) ==
    LET b0 == IF c.fromBlock = Nil THEN -1 ELSE c.fromBlock
        e0 == IF c.toBlock = Nil THEN -1 ELSE c.toBlock
        b1 == IF c.blockHash # Nil THEN HeightOfHash(c.blockHash) ELSE b0
        e1 == IF c.blockHash # Nil THEN HeightOfHash(c.blockHash) ELSE e0
        begin == IF b1 < 0 THEN head ELSE b1
        end == IF e1 < 0 THEN head ELSE e1
    IN IF c.blockHash # Nil /\ ~KnownHash(c.blockHash) THEN [err |-> TRUE]
       ELSE IF c.addresses = {} /\ c.topics = <<>>
       THEN getLogsByBlockNumberRange(begin, end + 1)
       ELSE BackendQueryLogs(c, Uint(begin), Uint(end + 1))

\* GetBlockByNumber: BlockByNumber(int64(blockNum)) asks the store for
\* height uint64(number), which GetBlockByHeight reads back as int64; a
\* missing block (ErrBlockNotFound) is a nil result without error.
GetBlockByNumber(n) ==
    LET h == Int64(Uint64(n)) IN
    IF 1 <= h /\ h <= head THEN h ELSE Nil

-----------------------------------------------------------------------------
(* Reference: spec 4.3, 4.5 and 8, and the JSON-RPC block tags            *)

\* A served log: its first word is the live depth of its tx, all ones when
\* the node does not know it, 31 zero bytes and the depth otherwise.
ServedRef(l) ==
    IF Len(l.data) < WordBytes THEN l
    ELSE LET c == node[l.txHash] IN
         [l EXCEPT !.data = (IF c = -1 THEN AllOnes ELSE Zeros(WordBytes - 1) \o <<c>>)
                            \o SubSeq(@, WordBytes + 1, Len(@))]

\* The resolved range is begin..end clipped to the chain; the result is its
\* matching logs in height order, each served live, an error past
\* MaxLogResults when no filter is given, an error for an unknown hash.
GetLogsRef(c) ==
    LET bound(x) == IF x = Nil \/ x < 0 THEN head ELSE x
        range == IF c.blockHash # Nil
                 THEN {h \in 1..head : HashOf[h] = c.blockHash}
                 ELSE {h \in 1..head : bound(c.fromBlock) <= h /\ h <= bound(c.toBlock)}
        stored == SelectSeq(FlattenSeq([k \in 1..head |->
                               IF k \in range THEN LogsAt(k) ELSE <<>>]),
                            LAMBDA l : Match(l, c))
        brute == c.addresses = {} /\ c.topics = <<>>
    IN IF c.blockHash # Nil /\ range = {} THEN [err |-> TRUE]
       ELSE IF brute /\ Len(stored) > MaxLogResults THEN [err |-> TRUE]
       ELSE [err |-> FALSE, logs |-> [k \in DOMAIN stored |-> ServedRef(stored[k])]]

\* "latest" (-1) is the head block; a height is that block, if stored.
BlockByNumberRef(n) ==
    LET h == IF n = -1 THEN head ELSE n IN
    IF 1 <= h /\ h <= head THEN h ELSE Nil

-----------------------------------------------------------------------------
(* Bounded exhaustive check: one store, node and pair of requests         *)

Crits == [fromBlock : {Nil} \cup Numbers, toBlock : {Nil} \cup Numbers,
          blockHash : {Nil} \cup Hashes, addresses : SUBSET Addrs,
          topics : BoundedSeq(SUBSET Topics, MaxTopicPos)]

Init == /\ head \in 0..MaxHead
        /\ storeLog \in [1..MaxHead -> {Nil} \cup LogShapes]
        /\ node \in [Txids -> {-1} \cup 0..MaxConf]
        /\ crit \in Crits
        /\ blockNum \in BlockNums
Next == UNCHANGED vars
Spec == Init /\ [][Next]_vars

\* GetLogs returns, for every criterion, what spec 4.5 says: the matching
\* logs of the resolved height range, each once and in height order, each
\* with the live confirmation word of spec 4.3/8 in its confirmations
\* slot; or the error for an unknown hash or an over-large unfiltered result.
GetLogsExact == GetLogs(crit) = GetLogsRef(crit)

\* eth_getBlockByNumber returns the head block for "latest" and the stored
\* block for a height (the eth_getBlockByNumber API cited by the handler).
BlockByNumberResolves == GetBlockByNumber(blockNum) = BlockByNumberRef(blockNum)

=============================================================================
