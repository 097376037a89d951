----------------------------- MODULE BchScanner -----------------------------
(***************************************************************************)
(* BchScanner.GetNewTxs (src/scanner/bch.go) as a sequence of steps of the *)
(* block-production task, each step one RPC round trip to the source node *)
(* so that the source chain may change between them:                      *)
(*   begin   -> GetBlockCount (forced rounds only)                         *)
(*   scan    -> one GetBlockHash/GetBlockVerboseTx and its txs per step    *)
(*   mempool -> GetRawMempool                                              *)
(*   pool    -> one GetRawTransactionVerbose and conversion per step       *)
(*   done    -> the round's txs are handed back to GenerateNewBlock        *)
(* The txs of one source block are handled in one step: they read only    *)
(* the cache and the store, which no other task writes.  A tx converts    *)
(* iff it is Tagged; a Poison tx panics in extractInputInfos; a dropped   *)
(* tx is the only one getrawtransaction fails on.                         *)
(***************************************************************************)
EXTENDS SourceChain, ChainLogDB, SequencesExt

CONSTANTS
    MaxTxsInBlock,  \* b.MaxTxsInBlock (2000 in config.NewBchChainConfig)
    MaxCacheSize    \* scanner.MaxCacheSize (100_000)

ASSUME /\ MaxTxsInBlock \in Nat \ {0}
       /\ MaxCacheSize \in Nat

VARIABLES
    pc,             \* where the production task is
    cursor,         \* b.LatestScanBlockHeight
    known,          \* b.knownTxCache
    scanBlock,      \* argument scanBlock of the current round
    newest,         \* newestHeight from GetBlockCount
    scanH,          \* loop variable h of collectMainChainBlockTxs
    result,         \* newModbTxs: entries [tx, idx, src]; src = 0 for mempool txs
    txIndex,        \* txIndex of GetNewTxs
    snapshot        \* mempool ids not yet visited by the range loop

scanVars == <<pc, cursor, known, scanBlock, newest, scanH, result, txIndex, snapshot>>
roundVars == <<newest, scanH, result, txIndex, snapshot>>

Entry == [tx : Txs, idx : Nat, src : 0..MaxSrcHeight]

RoundReset ==
    /\ newest' = 0
    /\ scanH' = 0
    /\ result' = <<>>
    /\ txIndex' = 0
    /\ snapshot' = {}

\* A panic inside GetNewTxs terminates the process: all memory is lost.
Panic ==
    /\ pc' = "stopped"
    /\ known' = {}
    /\ cursor' = 0
    /\ RoundReset
    /\ UNCHANGED scanBlock

\* AddKnownTx: when the map holds more than MaxCacheSize ids one arbitrary
\* id (Go map iteration order) is deleted before the insertion.
AddKnownTx(t) ==
    IF Cardinality(known) > MaxCacheSize
    THEN \E e \in known : known' = (known \ {e}) \cup {t}
    ELSE known' = known \cup {t}

isKnownTx(t) == t \in known

\* convertUtxoInfoToTx: output 0 a tagged null-data output, output 1 (if
\* any) P2PKH/P2SH, a decodable EGTX payload; otherwise a typed error.
convertSucceeds(t) == t \in Tagged

\* extractInputInfos panics when an input's origin output is not
\* P2PKH/P2SH (ExtractSenderInfo fails); it runs only for txs whose output 0
\* passed the EGTX checks.
convertPanics(t) == t \in Poison

\* Mutant: the scan loop consults only the cache, not the store.
FreshCacheOnly(blk) == {t \in blk : ~isKnownTx(t)}

\* Txs of a source block the scan loop does not skip.
Fresh(blk) == {t \in blk : ~isKnownTx(t) /\ ~IsTxMined(t)}

\* GetNewTxs entry: collectMainChainBlockTxs starts with GetBlockCount.
BeginRound ==
    /\ pc = "begin"
    /\ result' = <<>>
    /\ txIndex' = 0
    /\ snapshot' = {}
    /\ IF scanBlock
       THEN /\ newest' = Len(srcChain)
            /\ scanH' = cursor + 1
            /\ pc' = "scan"
       ELSE /\ pc' = "mempool"
            /\ UNCHANGED <<newest, scanH>>
    /\ UNCHANGED <<cursor, known, scanBlock>>

\* Mutant: at the cap the cursor jumps to the newest height.
ScanBlockSkipAhead ==
    /\ pc = "scan"
    /\ scanH <= newest
    /\ LET fresh == Fresh(srcChain[scanH]) IN
       IF \E t \in fresh : convertPanics(t)
       THEN Panic
       ELSE LET conv == SetToSeq({t \in fresh : convertSucceeds(t)})
                new  == [i \in 1..Len(conv) |->
                           [tx |-> conv[i], idx |-> txIndex + i - 1, src |-> scanH]]
            IN /\ result' = result \o new
               /\ txIndex' = txIndex + Len(conv)
               /\ IF Len(result) + Len(new) >= MaxTxsInBlock
                  THEN /\ pc' = "done" /\ cursor' = newest
                       /\ UNCHANGED scanH
                  ELSE /\ scanH' = scanH + 1 /\ cursor' = scanH
                       /\ UNCHANGED pc
               /\ UNCHANGED <<known, scanBlock, newest, snapshot>>

\* One iteration of the height loop: convert the block's fresh txs, advance
\* the cursor, stop at the per-round cap.  A poison tx panics.
ScanBlock ==
    /\ pc = "scan"
    /\ scanH <= newest
    /\ LET fresh == Fresh(srcChain[scanH]) IN
       IF \E t \in fresh : convertPanics(t)
       THEN Panic
       ELSE LET conv == SetToSeq({t \in fresh : convertSucceeds(t)})
                new  == [i \in 1..Len(conv) |->
                           [tx |-> conv[i], idx |-> txIndex + i - 1, src |-> scanH]]
            IN /\ result' = result \o new
               /\ txIndex' = txIndex + Len(conv)
               /\ cursor' = scanH
               /\ IF Len(result) + Len(new) >= MaxTxsInBlock
                  THEN /\ pc' = "done"
                       /\ UNCHANGED scanH
                  ELSE /\ scanH' = scanH + 1
                       /\ UNCHANGED pc
               /\ UNCHANGED <<known, scanBlock, newest, snapshot>>

\* The height loop is exhausted; GetNewTxs checks the cap before the mempool.
ScanDone ==
    /\ pc = "scan"
    /\ scanH > newest
    /\ pc' = IF Len(result) >= MaxTxsInBlock THEN "done" ELSE "mempool"
    /\ UNCHANGED <<cursor, known, scanBlock, roundVars>>

GetRawMempool ==
    /\ pc = "mempool"
    /\ snapshot' = mempool
    /\ pc' = "pool"
    /\ UNCHANGED <<cursor, known, scanBlock, newest, scanH, result, txIndex>>

PoolVisit(t) ==
    /\ pc = "pool"
    /\ t \in snapshot
    /\ snapshot' = snapshot \ {t}

\* Already known or already in the virtual chain: continue.
PoolSkip(t) ==
    /\ PoolVisit(t)
    /\ isKnownTx(t) \/ IsTxMined(t)
    /\ UNCHANGED <<pc, cursor, known, scanBlock, newest, scanH, result, txIndex>>

\* GetRawTransactionVerbose fails (the tx is gone): continue, not cached.
PoolFetchFail(t) ==
    /\ PoolVisit(t)
    /\ ~isKnownTx(t) /\ ~IsTxMined(t)
    /\ t \in dropped
    /\ UNCHANGED <<pc, cursor, known, scanBlock, newest, scanH, result, txIndex>>

PoolPanic(t) ==
    /\ pc = "pool"
    /\ t \in snapshot
    /\ ~isKnownTx(t) /\ ~IsTxMined(t)
    /\ t \notin dropped
    /\ convertPanics(t)
    /\ Panic

\* Conversion fails: the tx is cached so it is not fetched again.
PoolReject(t) ==
    /\ PoolVisit(t)
    /\ ~isKnownTx(t) /\ ~IsTxMined(t)
    /\ t \notin dropped
    /\ ~convertSucceeds(t) /\ ~convertPanics(t)
    /\ AddKnownTx(t)
    /\ UNCHANGED <<pc, cursor, scanBlock, newest, scanH, result, txIndex>>

\* Mutant: the cap is tested with > instead of >=.
PoolConvertLateCap(t) ==
    /\ PoolVisit(t)
    /\ ~isKnownTx(t) /\ ~IsTxMined(t)
    /\ t \notin dropped
    /\ convertSucceeds(t)
    /\ result' = Append(result, [tx |-> t, idx |-> txIndex, src |-> 0])
    /\ AddKnownTx(t)
    /\ pc' = IF Len(result) + 1 > MaxTxsInBlock THEN "done" ELSE "pool"
    /\ UNCHANGED <<cursor, scanBlock, newest, scanH, txIndex>>

\* Conversion succeeds: append with the current txIndex (which this loop
\* never increments), cache, and stop at the cap.
PoolConvert(t) ==
    /\ PoolVisit(t)
    /\ ~isKnownTx(t) /\ ~IsTxMined(t)
    /\ t \notin dropped
    /\ convertSucceeds(t)
    /\ result' = Append(result, [tx |-> t, idx |-> txIndex, src |-> 0])
    /\ AddKnownTx(t)
    /\ pc' = IF Len(result) + 1 >= MaxTxsInBlock THEN "done" ELSE "pool"
    /\ UNCHANGED <<cursor, scanBlock, newest, scanH, txIndex>>

PoolEnd ==
    /\ pc = "pool"
    /\ snapshot = {}
    /\ pc' = "done"
    /\ UNCHANGED <<cursor, known, scanBlock, roundVars>>

ScannerNext ==
    \/ BeginRound
    \/ ScanBlock
    \/ ScanDone
    \/ GetRawMempool
    \/ \E t \in Txs :
         \/ PoolSkip(t)
         \/ PoolFetchFail(t)
         \/ PoolPanic(t)
         \/ PoolReject(t)
         \/ PoolConvert(t)
    \/ PoolEnd

=============================================================================
