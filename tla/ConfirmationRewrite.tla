------------------------- MODULE ConfirmationRewrite -------------------------
(***************************************************************************)
(* The live confirmation figure of a served log: apiBackend.QueryLogs and *)
(* GetTxListByHeightWithRange (src/api/backend.go) overwrite a word of    *)
(* each stored log's Data with BchScanner.GetConfirmations of its tx      *)
(* (src/scanner/bch.go).  Bytes are values, a word is WordBytes bytes (32 *)
(* in the code).  The stored TxHash holds the                            *)
(* txid in display order (common.HexToHash(tx.Txid)); chainhash keeps the *)
(* reverse order, which is why the backend flips the hash before asking. *)
(***************************************************************************)
EXTENDS Naturals, Sequences, SequencesExt

CONSTANTS
    WordBytes       \* 32: bytes of a uint256 word

\* chainhash.NewHash(b): a hash whose display string is b reversed.
DisplayOf(b) == Reverse(b)

\* uint256.NewInt(v).Bytes32(), big-endian, for 0 <= v < 256^WordBytes.
Bytes32(v) == [k \in 1..WordBytes |-> (v \div (256 ^ (WordBytes - k))) % 256]
Zeros(n) == [k \in 1..n |-> 0]
AllOnes == [k \in 1..WordBytes |-> 255]

\* GetConfirmations: the node's answer for the hash; an RPC error (the tx is
\* not known to the node) gives -1.  `node` maps a txid to its depth or -1.
GetConfirmations(node, h) ==
    IF DisplayOf(h) \in DOMAIN node THEN node[DisplayOf(h)] ELSE -1

\* Mutant: the hash is passed to GetConfirmations without the flip.
FlipNone(h) == h

\* The flip loop of the backend: bytes i and 31-i swapped.
Flip(h) == Reverse(h)

\* The word the backend writes: c as a big-endian word, all ones for -1.
ConfirmationWord(c) == IF c = -1 THEN AllOnes ELSE Bytes32(c)

\* Mutant: the trailing word of Data is replaced (the wording of spec 4.3).
RewriteLogTrailing(node, l) ==
    IF Len(l.data) >= WordBytes
    THEN [l EXCEPT !.data = SubSeq(@, 1, Len(@) - WordBytes)
                              \o ConfirmationWord(GetConfirmations(node, Flip(l.txHash)))]
    ELSE l

\* The rewrite of one log: when Data has at least one word, its first word
\* is replaced (copy(l.Data[:32], ...)); otherwise Data is left as it is.
RewriteLog(node, l) ==
    IF Len(l.data) >= WordBytes
    THEN [l EXCEPT !.data = ConfirmationWord(GetConfirmations(node, Flip(l.txHash)))
                              \o SubSeq(@, WordBytes + 1, Len(@))]
    ELSE l

=============================================================================
