---------------------------- MODULE MCEthShapes ----------------------------
(* Stores, criteria and block numbers for EthQueries. *)
EXTENDS Integers

CONSTANTS a1, a2, t1, h1, h2, hx

\* Two txids, each the other's byte reversal, so that a missing or doubled
\* flip asks the node about the other transaction.
MCTxids == {<<1, 2>>, <<2, 1>>}

MCHashOf == [h \in 1..2 |-> <<h1, h2>>[h]]

\* Logs with a full confirmations word and more, with a short Data, and
\* with exactly one word; addresses and topics that filters tell apart.
MCLogShapes ==
    {[addr |-> a1, topics |-> <<>>,   txHash |-> <<1, 2>>, data |-> <<0, 0, 7, 7>>],
     [addr |-> a1, topics |-> <<t1>>, txHash |-> <<2, 1>>, data |-> <<7>>],
     [addr |-> a2, topics |-> <<t1>>, txHash |-> <<2, 1>>, data |-> <<0, 0>>]}

\* Requested block numbers: pending (-2), latest (-1), heights, and for the
\* wrap run the largest uint32 value (2^UintWidth - 1).
MCNumbers == {-2, -1, 0, 1, 3}
MCNumbersWrap == {-1, 0, 7}
MCNumbersFew == {-1}
MCBlockNums == {1}
MCBlockNumsTags == {-1, 1, 3}
=============================================================================
