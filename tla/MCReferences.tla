---------------------------- MODULE MCReferences ----------------------------
(***************************************************************************)
(* The pure functions of the service checked against their spec           *)
(* references in one model.  A state is one input: a null-data script for *)
(* ParseEGTXNullData (EGTXCodec), a source transaction for                *)
(* convertUtxoInfoToTx (TxConversion, shapes of MCTxConversion), an       *)
(* output value in units for the amount of a value record                 *)
(* (AmountConversion), or a store, node and criterion for GetLogs         *)
(* (EthQueries, shapes of MCEthShapes).  The absent inputs are None.      *)
(* A fifth kind of state is not a pure function: GetConfirmations over    *)
(* the retry wrapper (RetryableClient) with a changing node and network,  *)
(* whose steps are the only ones of the model; in the other kinds its     *)
(* variables are None and every step stutters.  A sixth kind is the     *)
(* arguments of BuildLogData (AbiLayout), whose blob is unpacked and      *)
(* rewritten as the backend serves it.                                    *)
(***************************************************************************)
EXTENDS MCTxConversion, MCEthShapes

CONSTANTS None, Bytes, AddrWidth, TopicWidth, MaxPushes
CONSTANTS Prec, UnitsPerCoin, WeiPerUnit, AmountBits, MaxUnits
CONSTANTS Nil, Addrs, Topics, Txids, Hashes, HashOf, LogShapes, Numbers,
          BlockNums, UintWidth, IntWidth, MaxHead, MaxConf, MaxLogResults,
          MaxTopicPos, WordBytes

CONSTANTS Callers, RCTxids, MaxRetry, MaxNetFails, MaxDepth
CONSTANTS c1, r1, r2

VARIABLES script, units, head, storeLog, node, crit, blockNum
VARIABLES rcConf, rcPc, rcArg, rcI, rcNfail, rcRes, rcSeen
VARIABLES logIn

query == <<head, storeLog, node, crit, blockNum>>
rcVars == <<rcConf, rcPc, rcArg, rcI, rcNfail, rcRes, rcSeen>>
pure == <<script, tx, units, query, logIn>>

MCPushes == {<<>>, <<1>>, <<2, 1>>, <<1, 2, 1>>, <<2, 2, 1, 1>>}

Codec == INSTANCE EGTXCodec WITH Pushes <- MCPushes

Amount == INSTANCE AmountConversion

Query == INSTANCE EthQueries

Abi == INSTANCE AbiLayout

\* Arguments of BuildLogData: up to one value record per side (as the
\* [32]byte word), up to one token tuple per side, and up to two extra-data
\* chunks of 0 to 3 bytes (less than, exactly and more than one word).
Chunks == {<<>>, <<7>>, <<7, 9>>, <<7, 9, 7>>}
LogInputs == [conf : {0, 1}, outs : {<<>>, <<<<0, 7>>>>}, ins : {<<>>, <<<<7, 0>>>>},
              outTok : {<<>>, <<<<1, 2, 3, 4>>>>}, inTok : {<<>>, <<<<5, 6, 7, 8>>>>},
              other : {<<>>} \cup [1..1 -> Chunks] \cup [1..2 -> Chunks]]

RC == INSTANCE RetryableClient WITH Txids <- RCTxids, conf <- rcConf, pc <- rcPc,
        arg <- rcArg, i <- rcI, nfail <- rcNfail, res <- rcRes, seen <- rcSeen

NoRC == /\ rcConf = None /\ rcPc = None /\ rcArg = None /\ rcI = None
        /\ rcNfail = None /\ rcRes = None /\ rcSeen = None

NoQuery == /\ head = None /\ storeLog = None /\ node = None
           /\ crit = None /\ blockNum = None

NoPure == script = None /\ tx = None /\ units = None /\ NoQuery /\ logIn = None

DInit == \/ script \in Codec!Scripts /\ tx = None /\ units = None /\ NoQuery /\ NoRC /\ logIn = None
         \/ tx \in Txs /\ script = None /\ units = None /\ NoQuery /\ NoRC /\ logIn = None
         \/ units \in 0..MaxUnits /\ script = None /\ tx = None /\ NoQuery /\ NoRC /\ logIn = None
         \/ Query!Init /\ script = None /\ tx = None /\ units = None /\ NoRC /\ logIn = None
         \/ RC!Init /\ NoPure
         \/ logIn \in LogInputs /\ script = None /\ tx = None /\ units = None /\ NoQuery /\ NoRC

DNext == \/ rcConf = None /\ UNCHANGED <<pure, rcVars>>
         \/ rcConf # None /\ RC!Next /\ UNCHANGED pure

\* The fairness of RetryableClient: a calling goroutine keeps running.
DSpec == DInit /\ [][DNext]_<<pure, rcVars>>
               /\ \A c \in Callers :
                    WF_<<pure, rcVars>>(rcConf # None /\ UNCHANGED pure /\
                        (RC!AttemptFound(c) \/ RC!AttemptNotFound(c) \/ RC!Retry(c)))

\* ParseEGTXNullData rejects exactly the untagged and malformed scripts and
\* otherwise decodes the pushes positionally as spec 4.1 says.
PayloadAgrees == script # None => Codec!PayloadAgrees

\* convertUtxoInfoToTx rejects, fails or converts each transaction as spec
\* 4.3 and 7 say, with the value, token and extra-data records of spec 4.3.
TxConversionAgrees == tx # None => ConversionAgrees

\* The amount of a receiver's and of a sender's value record is the output's
\* value x10^10 or one unit (satoshi) less, never more and never less by
\* two, for every value below the supply bound (2.1e15 < 2^51 satoshi; here
\* MaxUnits < 2^(Prec-2)): the float64 decoding of the JSON value, the
\* rounded product by 1e8 and the truncating uint64 conversion lose at most
\* one satoshi.  (Exact equality fails: 0.29 BCH gives 28999999 satoshi.)
AmountLossBounded ==
    units # None =>
        \A amt \in {Amount!ValueAmount(units), Amount!SenderAmount(units)} :
            amt \in {Amount!AmountRef(units), Amount!AmountRef(units - 1)}

\* GetLogs returns, for every store of up to MaxHead blocks, every node
\* state and every criterion, the matching logs of the resolved range, each
\* once, in height order and with the live confirmation word of its own tx
\* (spec 4.3/4.5/8), or the cap or unknown-hash error.
GetLogsAgrees == head # None => Query!GetLogsExact

\* The blob BuildLogData packs with the function ABI `a` and output[4:]
\* unpacks with the event ABI `b` to the same confirmations, value records
\* (as integers), token tuples and extra-data bytes (spec 4.1 and 8:
\* "Unpacking must be the exact inverse", for empty arrays too).
LogData(li) == Abi!BuildLogData(li.conf, li.outs, li.ins, li.outTok, li.inTok, li.other)
LogFields(li) == <<li.conf, [j \in DOMAIN li.outs |-> Abi!WordValue(li.outs[j])],
                   [j \in DOMAIN li.ins |-> Abi!WordValue(li.ins[j])],
                   li.outTok, li.inTok, li.other>>
LogDataRoundTrip == logIn # None => Abi!UnPackEGTXLog(LogData(logIn)) = LogFields(logIn)

\* The backend's rewrite of the served log (copy(l.Data[:32], ...)) hits
\* the confirmations field of the blob and nothing else: unpacked, the
\* rewritten log has the live count, all ones for -1 (spec 4.3), and every
\* other field as built.
ConfirmationSlot ==
    logIn # None =>
        \A c \in -1..MaxConf :
            LET h == <<1, 2>>
                l == Abi!RewriteLog([x \in {h} |-> c], [txHash |-> h, data |-> LogData(logIn)])
            IN Abi!UnPackEGTXLog(l.data)
                 = [LogFields(logIn) EXCEPT ![1] = Abi!WordValue(Abi!ConfirmationWord(c))]

\* The retry harness keeps the types of RetryableClient.
RCTypeOK == rcConf # None => RC!TypeOK

\* GetConfirmations is linearizable (spec 4.3: "not-found => -1, found =>
\* reported depth"): what a finished call returned, -1 included, is what
\* the node would have answered at some instant between the call and its
\* return, however the node changed and the network failed in between.
ConfirmationsLinearizable == rcConf # None => RC!ConfirmationsLinearizable

\* Every GetConfirmations call returns: the retry loop ends whatever the
\* node answers, so an API handler asking about a dropped tx is not held
\* for ever.
CallReturns == \A c \in Callers : (rcPc # None /\ rcPc[c] = "attempt") ~> (rcPc # None /\ rcPc[c] = "done")

=============================================================================
