---------------------------- MODULE VirtualChain ----------------------------
(***************************************************************************)
(* VirtualChain of src/chains/adapter.go: Start (RecoveryFromDB and the   *)
(* first, forced, round), the ticker loop forcing a block scan every      *)
(* ForceScanEvery-th tick, GenerateNewBlock around the scanner's rounds,  *)
(* and the process crashing at any point and being restarted.  The       *)
(* scanner, the store and the source chain are the modules it extends.   *)
(* Time is not modelled: the sleep before the first block and the ticker  *)
(* period only delay steps.                                               *)
(***************************************************************************)
EXTENDS BchScanner

CONSTANTS
    ForceScanEvery,                 \* 12: tryGenerateBlockCount % 12 == 0
    GenesisMainChainBlockHeight,    \* first cursor of an empty store
    MaxCrashes                      \* bound on crashes in a behaviour

ASSUME /\ ForceScanEvery \in Nat \ {0}
       /\ GenesisMainChainBlockHeight \in Nat
       /\ MaxCrashes \in Nat

VARIABLES
    height,         \* v.CurrentBlockHeight
    curHash,        \* v.CurrentBlockHash
    prevHash,       \* v.PrevBlockHash
    tryCount,       \* tryGenerateBlockCount % ForceScanEvery
    crashes         \* crashes so far (bounds the model)

chainVars == <<height, curHash, prevHash, tryCount>>
vars == <<srcVars, storeVars, scanVars, chainVars, crashes>>

Init ==
    /\ SrcInit
    /\ StoreInit
    /\ pc = "stopped"
    /\ cursor = 0
    /\ known = {}
    /\ scanBlock = FALSE
    /\ newest = 0
    /\ scanH = 0
    /\ result = <<>>
    /\ txIndex = 0
    /\ snapshot = {}
    /\ height = 0
    /\ curHash = ZeroHash
    /\ prevHash = ZeroHash
    /\ tryCount = 0
    /\ crashes = 0

\* RecoveryFromDB: head height and hash and the scan cursor from the store;
\* cursor 0 means an empty store, which starts from the genesis height.
RecoveryFromDB ==
    /\ height' = LatestHeight
    /\ curHash' = LatestHash
    /\ prevHash' = LatestHash
    /\ cursor' = IF LatestScanHeight = 0 THEN GenesisMainChainBlockHeight
                                         ELSE LatestScanHeight

\* Start: RecoveryFromDB, then GenerateNewBlock(true) after the downtime
\* check (both branches force a scan); the tick counter starts at 0.
Start ==
    /\ pc = "stopped"
    /\ RecoveryFromDB
    /\ tryCount' = 0
    /\ scanBlock' = TRUE
    /\ pc' = "begin"
    /\ UNCHANGED <<known, roundVars>>

\* A tick of v.ticker: GenerateNewBlock(tryGenerateBlockCount % 12 == 0).
Tick ==
    /\ pc = "idle"
    /\ tryCount' = (tryCount + 1) % ForceScanEvery
    /\ scanBlock' = ((tryCount + 1) % ForceScanEvery = 0)
    /\ pc' = "begin"
    /\ UNCHANGED <<cursor, known, roundVars, height, curHash, prevHash>>

\* Mutant: the emptiness test of the round is dropped.
SkipRoundUnchecked ==
    /\ pc = "done"
    /\ ~scanBlock
    /\ pc' = "idle"
    /\ RoundReset
    /\ UNCHANGED <<cursor, known, scanBlock, chainVars>>

\* GenerateNewBlock after GetNewTxs: an opportunistic round without txs
\* returns without a block.
SkipEmptyRound ==
    /\ pc = "done"
    /\ result = <<>> /\ ~scanBlock
    /\ pc' = "idle"
    /\ RoundReset
    /\ UNCHANGED <<cursor, known, scanBlock, chainVars>>

\* Mutant: the hash is derived from the new height.
GenerateNewBlockHashAfter ==
    /\ pc = "done"
    /\ result # <<>> \/ scanBlock
    /\ height' = height + 1
    /\ curHash' = BlockHashOf(height + 1)
    /\ AddBlock(height + 1, BlockHashOf(height + 1), prevHash, cursor, result)
    /\ pc' = "idle"
    /\ RoundReset
    /\ UNCHANGED <<cursor, known, scanBlock, prevHash, tryCount>>

\* Otherwise: the height advances, the hash is derived from the previous
\* height, the parent is v.PrevBlockHash (never reassigned after
\* RecoveryFromDB), GasUsed carries the cursor, and the block is stored.
GenerateNewBlock ==
    /\ pc = "done"
    /\ result # <<>> \/ scanBlock
    /\ height' = height + 1
    /\ curHash' = BlockHashOf(height)
    /\ AddBlock(height + 1, BlockHashOf(height), prevHash, cursor, result)
    /\ pc' = "idle"
    /\ RoundReset
    /\ UNCHANGED <<cursor, known, scanBlock, prevHash, tryCount>>

\* The process dies (a panic on an RPC error, a kill): memory is lost,
\* only the store survives.
Crash ==
    /\ pc # "stopped"
    /\ crashes < MaxCrashes
    /\ crashes' = crashes + 1
    /\ Panic

\* The steps of the block-production task.
TaskStep ==
    \/ (Start \/ Tick \/ SkipEmptyRound) /\ UNCHANGED <<srcVars, storeVars, crashes>>
    \/ ScannerNext /\ UNCHANGED <<srcVars, storeVars, chainVars, crashes>>
    \/ GenerateNewBlock /\ UNCHANGED <<srcVars, crashes>>

Next ==
    \/ TaskStep
    \/ Crash /\ UNCHANGED <<srcVars, storeVars, chainVars>>
    \/ SrcNext /\ UNCHANGED <<storeVars, scanVars, chainVars, crashes>>

\* The ticker keeps firing and the task keeps running; a stopped process is
\* restarted by its supervisor.  Crashes and the source chain are not fair.
Spec == Init /\ [][Next]_vars /\ WF_vars(TaskStep)

-----------------------------------------------------------------------------
(* Invariants *)

\* No source transaction is ever stored in two virtual blocks (or twice in
\* one): the block scan does not cache what it converts and the cache
\* evicts arbitrarily and is lost on a crash, so between a tx seen in the
\* mempool and the same tx later mined, only IsTxMined stands in the way.
NoDuplicateTx ==
    \A i, j \in DOMAIN storeTxs : i # j => storeTxs[i].tx # storeTxs[j].tx

\* Every tagged tx of a source block at or below the cursor persisted in
\* the head block's GasUsed is in the virtual chain, whatever crashes
\* interrupted the rounds that scanned it (restart resumes from GasUsed).
ScanCompleteness ==
    \A h \in DOMAIN srcChain :
        GenesisMainChainBlockHeight < h /\ h <= storeCursor =>
            srcChain[h] \cap Tagged \subseteq StoredTxs

\* A round's txs exceed MaxTxsInBlock only when the excess comes from the
\* last source block scanned (comment of collectMainChainBlockTxs): no
\* mempool tx is added past the cap, and the txs of earlier source blocks
\* stay below it.
RoundSizeBound ==
    LET n == Len(result) IN
    n > MaxTxsInBlock =>
        /\ \A i \in 1..n : result[i].src # 0
        /\ Cardinality({i \in 1..n : result[i].src < result[n].src}) < MaxTxsInBlock

\* The txs of one virtual block carry distinct TransactionIndex values
\* (spec: a virtual tx records its index within its block).
TxIndexUnique ==
    \A i, j \in DOMAIN result : i # j => result[i].idx # result[j].idx

-----------------------------------------------------------------------------
(* Action properties *)

\* Every block written to the store, across restarts, is the next height
\* after the stored head and its hash is derived from the head's height.
StoreAppendsInOrder ==
    [][storeHeight' # storeHeight =>
          /\ storeHeight' = storeHeight + 1
          /\ storeHash' = BlockHashOf(storeHeight)]_storeVars

\* Every stored block's ParentHash is the hash of the block stored before it
\* (spec 4.4: parent hash = previous head hash).
ParentHashLinks ==
    [][storeHeight' # storeHeight => storeParent' = storeHash]_storeVars

-----------------------------------------------------------------------------
(* Liveness *)

\* A tagged tx that is pending or mined ends up in the virtual chain unless
\* it is dropped from the mempool first: forced ticks keep the cursor
\* moving and opportunistic ticks keep reading the mempool.
EventuallyIncluded ==
    \A t \in Tagged :
        (t \in mempool \/ t \in MinedTxs) ~> (t \in StoredTxs \/ t \in dropped)

=============================================================================
