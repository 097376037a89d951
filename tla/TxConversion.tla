---------------------------- MODULE TxConversion ----------------------------
(***************************************************************************)
(* BchScanner.convertUtxoInfoToTx of src/scanner/bch.go with the helpers  *)
(* it calls (extractInputInfos, ExtractSenderInfo, buildTokenInfo,        *)
(* ExtractEGTXNullData), over the shape of a source transaction: its      *)
(* outputs' script types, address counts, attached token data and the    *)
(* outputs its inputs spend.  Amounts, addresses and payload bytes are    *)
(* left out; what is kept decides whether the conversion returns a tx, a  *)
(* typed error or panics, and how many value and token records it makes.  *)
(***************************************************************************)
EXTENDS Naturals, Sequences, SequencesExt

CONSTANTS
    OutShapes,      \* outputs a transaction is made of
    InShapes,       \* inputs: [fetch : BOOLEAN, origin : an output]
    MaxOuts,        \* outputs per transaction
    MaxIns          \* inputs per transaction

\* An output: type is ScriptPubKey.Type; egtx: its hex starts with EGTXFlag;
\* naddr: len(ScriptPubKey.Addresses); token: byte length of the NFT
\* commitment of its TokenData, NoToken when none is attached; extra: the
\* pushes ExtractNullData decodes from it (0 when it fails).
NoToken == -1

P2 == {"pubkeyhash", "scripthash"}

\* buildTokenInfo succeeds, yielding a token record: ParseInt of the empty
\* amount of an output without token data fails; the commitment is the hex
\* string of the commitment bytes and is rejected when longer than 40
\* characters.  (Category decoding is taken to succeed.)
buildTokenInfo(token) == token # NoToken /\ 2 * token <= 40

\* ExtractSenderInfo: the spent output must be P2PKH/P2SH with one address.
ExtractSenderInfo(o) == o.type \in P2 /\ o.naddr = 1

\* Mutant: output 1 may only be P2PKH.
VoutLoopNoP2SH(outs) ==
    LET RECURSIVE Loop(_, _)
        Loop(k, acc) ==
          IF k > Len(outs) THEN acc
          ELSE LET o == outs[k] IN
               IF k = 1 /\ o.type # "nulldata" THEN [acc EXCEPT !.res = "FirstOutputMustEGTX"]
               ELSE IF k = 1 /\ ~o.egtx THEN [acc EXCEPT !.res = "NotHaveEGTXNulldata"]
               ELSE IF k = 2 /\ o.type # "pubkeyhash" THEN [acc EXCEPT !.res = "SecondOutputInvalid"]
               ELSE IF o.type \in P2 /\ o.naddr # 1 THEN [acc EXCEPT !.res = "panic"]
               ELSE IF o.type \in P2
               THEN Loop(k + 1, [acc EXCEPT !.recv = @ + 1,
                                            !.outTok = @ + (IF buildTokenInfo(o.token) THEN 1 ELSE 0)])
               ELSE IF k > 2 /\ o.type = "nulldata"
               THEN Loop(k + 1, [acc EXCEPT !.other = @ + o.extra])
               ELSE Loop(k + 1, acc)
    IN Loop(1, [res |-> "ok", recv |-> 0, outTok |-> 0, other |-> 0])

\* The vout loop of convertUtxoInfoToTx (output k here is output k-1 there):
\* the typed errors of outputs 0 and 1, the panic on a P2PKH/P2SH output
\* whose address count is not 1, a value record for every P2PKH/P2SH output
\* and a token record when buildTokenInfo succeeds (else `continue`), the
\* pushes of later null-data outputs as extra chunks.
VoutLoop(outs) ==
    LET RECURSIVE Loop(_, _)
        Loop(k, acc) ==
          IF k > Len(outs) THEN acc
          ELSE LET o == outs[k] IN
               IF k = 1 /\ o.type # "nulldata" THEN [acc EXCEPT !.res = "FirstOutputMustEGTX"]
               ELSE IF k = 1 /\ ~o.egtx THEN [acc EXCEPT !.res = "NotHaveEGTXNulldata"]
               ELSE IF k = 2 /\ o.type \notin P2 THEN [acc EXCEPT !.res = "SecondOutputInvalid"]
               ELSE IF o.type \in P2 /\ o.naddr # 1 THEN [acc EXCEPT !.res = "panic"]
               ELSE IF o.type \in P2
               THEN Loop(k + 1, [acc EXCEPT !.recv = @ + 1,
                                            !.outTok = @ + (IF buildTokenInfo(o.token) THEN 1 ELSE 0)])
               ELSE IF k > 2 /\ o.type = "nulldata"
               THEN Loop(k + 1, [acc EXCEPT !.other = @ + o.extra])
               ELSE Loop(k + 1, acc)
    IN Loop(1, [res |-> "ok", recv |-> 0, outTok |-> 0, other |-> 0])

\* extractInputInfos: each input's origin tx is fetched (an RPC error
\* panics) and ExtractSenderInfo applied (an error panics); a token record
\* when buildTokenInfo succeeds.
InputsPanic(ins) == \E k \in DOMAIN ins : ~ins[k].fetch \/ ~ExtractSenderInfo(ins[k].origin)
InputTokens(ins) == Len(SelectSeq(ins, LAMBDA i : buildTokenInfo(i.origin.token)))

\* convertUtxoInfoToTx: the vout loop, then extractInputInfos, then the
\* payload (ExtractEGTXNullData of output 0).  A converted tx is summarised
\* by its record counts; From / To are set iff a sender / receiver exists.
convertUtxoInfoToTx(tx) ==
    LET v == VoutLoop(tx.outs) IN
    IF v.res # "ok" THEN [res |-> v.res]
    ELSE IF InputsPanic(tx.ins) THEN [res |-> "panic"]
    ELSE IF ~tx.payloadOk THEN [res |-> "payload"]
    ELSE [res |-> "ok", recv |-> v.recv, send |-> Len(tx.ins),
          outTok |-> v.outTok, inTok |-> InputTokens(tx.ins), other |-> v.other]

-----------------------------------------------------------------------------
(* Reference: the conversion algorithm of spec 4.3 and the error design    *)
(* of spec 7                                                              *)

IsTokenOutput(o) == o.type \in P2 /\ o.token # NoToken

\* Structural violations, typed and non-fatal: output 0 not tagged null data,
\* output 1 not pay-to-address, a bad payload.  (The node reports exactly
\* one address for a P2PKH/P2SH output, so the address-count panic is not
\* reached by the shapes checked.)
\* Failure to resolve an input (an RPC error after retries) is fatal.
ConversionRef(tx) ==
    LET outs == tx.outs
        bad == \/ outs[1].type # "nulldata" \/ ~outs[1].egtx
               \/ Len(outs) >= 2 /\ outs[2].type \notin P2
        Cnt(P(_)) == Len(SelectSeq(outs, P))
    IN IF bad THEN [res |-> "rejected"]
       ELSE IF \E k \in DOMAIN tx.ins : ~tx.ins[k].fetch THEN [res |-> "fatal"]
       ELSE IF ~tx.payloadOk THEN [res |-> "rejected"]
       ELSE [res |-> "ok", recv |-> Cnt(LAMBDA o : o.type \in P2), send |-> Len(tx.ins),
             outTok |-> Cnt(IsTokenOutput),
             inTok |-> Len(SelectSeq(tx.ins, LAMBDA i : i.origin.token # NoToken)),
             other |-> FoldSeq(LAMBDA o, acc : acc + (IF o.type = "nulldata" THEN o.extra ELSE 0),
                               0, SubSeq(outs, 3, Len(outs)))]

-----------------------------------------------------------------------------
(* Bounded exhaustive check: the state is one transaction, chosen in Init *)

VARIABLE tx

\* A transaction has at least one output (the node never reports one without).
Txs == [outs : BoundedSeq(OutShapes, MaxOuts) \ {<<>>},
        ins : BoundedSeq(InShapes, MaxIns), payloadOk : BOOLEAN]

Init == tx \in Txs
Next == UNCHANGED tx
Spec == Init /\ [][Next]_tx

Outcome == convertUtxoInfoToTx(tx)
Expected == ConversionRef(tx)

\* convertUtxoInfoToTx rejects, fails or converts each transaction as spec
\* 4.3 says, and a converted one carries a value record per pay-to-address
\* output and input, a token record per token-carrying output and input,
\* and the extra chunks of the later null-data outputs.
ConversionAgrees ==
    CASE Expected.res = "rejected" -> Outcome.res \notin {"ok", "panic"}
      [] Expected.res = "fatal"    -> Outcome.res = "panic"
      [] OTHER                     -> Outcome = Expected

\* Every pay-to-address output with token metadata yields a token record
\* (spec 4.3), whatever the size of its NFT commitment (at most 40 bytes).
TokenRecordPerTokenOutput ==
    Outcome.res = "ok" => Outcome.outTok = Len(SelectSeq(tx.outs, IsTokenOutput))

=============================================================================
