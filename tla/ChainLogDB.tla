----------------------------- MODULE ChainLogDB -----------------------------
(***************************************************************************)
(* The store adapter of src/store/store.go as the virtual chain sees it:  *)
(* the head block's height, hash, parent hash and the source-chain cursor *)
(* kept in its GasUsed field, and the transactions of every stored block  *)
(* in storage order.  A block hash sha256(ChainName ":" k) is represented *)
(* by k (the hash is injective in k); the all-zero hash of an empty store *)
(* is ZeroHash.  AddBlock is atomic: the modb write is one call.          *)
(***************************************************************************)
EXTENDS Integers, Sequences

VARIABLES
    storeHeight,    \* modb.GetLatestHeight()
    storeHash,      \* Hash of the latest stored block
    storeParent,    \* ParentHash of the latest stored block
    storeCursor,    \* GasUsed of the latest stored block: latest scanned source height
    storeTxs        \* TxList entries of all stored blocks, in storage order

storeVars == <<storeHeight, storeHash, storeParent, storeCursor, storeTxs>>

ZeroHash == -1

BlockHashOf(k) == k

StoredTxs == {storeTxs[i].tx : i \in DOMAIN storeTxs}

StoreInit ==
    /\ storeHeight = 0
    /\ storeHash = ZeroHash
    /\ storeParent = ZeroHash
    /\ storeCursor = 0
    /\ storeTxs = <<>>

\* IsTxMined: GetTxByHash finds the tx in some stored block.
IsTxMined(t) == t \in StoredTxs

\* GetLatestBlockInfo: height, hash and cursor of the head block; an empty
\* store answers height 0, the zero hash and cursor 0.
LatestHeight == storeHeight
LatestHash == storeHash
LatestScanHeight == storeCursor

\* AddBlock(blk): the block becomes the head and its txs are indexed.
AddBlock(height, hash, parent, cursor, txs) ==
    /\ storeHeight' = height
    /\ storeHash' = hash
    /\ storeParent' = parent
    /\ storeCursor' = cursor
    /\ storeTxs' = storeTxs \o txs

=============================================================================
