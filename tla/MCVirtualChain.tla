--------------------------- MODULE MCVirtualChain ---------------------------
(* Small instance of VirtualChain: three source txs (two tagged, one     *)
(* plain), two source blocks, a per-round cap of one tx.  The core run   *)
(* sets MaxCacheSize to 0: AddKnownTx then evicts on every insertion of  *)
(* a second id, so the cap and the eviction both happen.                 *)
EXTENDS VirtualChain

CONSTANTS t1, t2, t3, p1

MCTxs == {t1, t2, t3}
MCTxsPoison == {t1, t2, p1}
MCTxsHalt == {t1, p1}
MCTagged == {t1, t2}

\* Bounds the virtual chain: forced rounds add empty blocks forever.
MaxHeight == 4
HeightBound == storeHeight <= MaxHeight

\* Neither the height nor the hashes guard any step; liveness runs ignore them.
LivenessView == <<srcVars, storeCursor, storeTxs, scanVars, tryCount, crashes>>
=============================================================================
