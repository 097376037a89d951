--------------------------- MODULE MCTxConversion ---------------------------
(* Transaction shapes for TxConversion.  An output record is               *)
(* [type, egtx, naddr, token, extra]; an input is [fetch, origin].         *)
EXTENDS TxConversion

Out(type, egtx, naddr, token, extra) ==
    [type |-> type, egtx |-> egtx, naddr |-> naddr, token |-> token, extra |-> extra]

Tag    == Out("nulldata", TRUE, 0, NoToken, 0)      \* EGTX output 0
Untag  == Out("nulldata", FALSE, 0, NoToken, 0)     \* plain OP_RETURN, no push
OpRet  == Out("nulldata", FALSE, 0, NoToken, 2)     \* OP_RETURN with two pushes
Pkh    == Out("pubkeyhash", FALSE, 1, NoToken, 0)
PkhTok == Out("pubkeyhash", FALSE, 1, 3, 0)         \* token, 3-byte commitment
Sh     == Out("scripthash", FALSE, 1, NoToken, 0)
NonStd == Out("nonstandard", FALSE, 0, NoToken, 0)
ShTok32 == Out("scripthash", FALSE, 1, 32, 0)       \* token, 32-byte commitment

BaseOuts == {Tag, Untag, OpRet, Pkh, PkhTok, Sh, NonStd}
MCOutShapes == BaseOuts
MCOutShapesToken == BaseOuts \cup {ShTok32}

MCInShapes == {[fetch |-> TRUE, origin |-> Pkh], [fetch |-> TRUE, origin |-> PkhTok],
               [fetch |-> FALSE, origin |-> Pkh]}
=============================================================================
