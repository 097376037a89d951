---------------------------- MODULE SourceChain ----------------------------
(***************************************************************************)
(* The source (BCH) chain as the scanner's environment: the node's        *)
(* mempool, the sequence of mined blocks and the transactions that left   *)
(* the mempool without being mined (double-spent or evicted).  Only the   *)
(* observable effects the scanner's RPC calls can see are kept: a block   *)
(* is the set of transaction ids it contains, a transaction is a model    *)
(* value.  A reorganisation replaces the tip block by a competing one.    *)
(***************************************************************************)
EXTENDS Naturals, Sequences, FiniteSets

CONSTANTS
    Txs,            \* transaction ids that can ever appear on the source chain
    Tagged,         \* those whose output 0 is an EGTX null-data output and convert
    Poison,         \* tagged txs whose conversion panics (an input from a non-P2PKH/P2SH output)
    MaxSrcHeight,   \* bound on the number of source blocks mined in a behaviour
    MaxReorgs       \* bound on the reorganisations in a behaviour

ASSUME /\ Tagged \subseteq Txs
       /\ Poison \subseteq Txs
       /\ Tagged \cap Poison = {}
       /\ MaxSrcHeight \in Nat
       /\ MaxReorgs \in Nat

VARIABLES
    mempool,        \* ids the node returns from getrawmempool
    srcChain,       \* srcChain[h] = set of ids mined in source block h
    dropped,        \* ids that left the mempool unmined: getrawtransaction fails
    reorgs          \* reorganisations so far

srcVars == <<mempool, srcChain, dropped, reorgs>>

MinedTxs == UNION {srcChain[h] : h \in DOMAIN srcChain}

SeenTxs == mempool \cup MinedTxs \cup dropped

SrcInit ==
    /\ mempool = {}
    /\ srcChain = <<>>
    /\ dropped = {}
    /\ reorgs = 0

\* A wallet broadcasts a transaction that the node accepts into its mempool.
Submit(t) ==
    /\ t \notin SeenTxs
    /\ mempool' = mempool \cup {t}
    /\ UNCHANGED <<srcChain, dropped, reorgs>>

\* A miner extends the chain with some of the mempool (possibly none).
MineBlock(S) ==
    /\ Len(srcChain) < MaxSrcHeight
    /\ S \subseteq mempool
    /\ srcChain' = Append(srcChain, S)
    /\ mempool' = mempool \ S
    /\ UNCHANGED <<dropped, reorgs>>

\* A pending transaction disappears: its input was spent by another one.
Drop(t) ==
    /\ t \in mempool
    /\ mempool' = mempool \ {t}
    /\ dropped' = dropped \cup {t}
    /\ UNCHANGED <<srcChain, reorgs>>

\* A competing branch one block longer wins: the tip block is disconnected
\* and its txs the new tip does not contain return to the mempool.  The new
\* tip S takes txs of the mempool, of the old tip or never seen by this
\* node (relayed only in the competing block); the block on top of it is
\* empty (its txs would be those of a MineBlock step).
Reorg(S) ==
    /\ reorgs < MaxReorgs
    /\ srcChain # <<>>
    /\ Len(srcChain) < MaxSrcHeight
    /\ LET old == srcChain[Len(srcChain)] IN
       /\ S \subseteq mempool \cup old \cup (Txs \ SeenTxs)
       /\ S # old
       /\ srcChain' = Append([srcChain EXCEPT ![Len(srcChain)] = S], {})
       /\ mempool' = (mempool \cup old) \ S
    /\ reorgs' = reorgs + 1
    /\ UNCHANGED dropped

SrcNext ==
    \/ \E t \in Txs : Submit(t)
    \/ \E S \in SUBSET mempool : MineBlock(S)
    \/ \E t \in Txs : Drop(t)
    \/ \E S \in SUBSET Txs : Reorg(S)

=============================================================================
