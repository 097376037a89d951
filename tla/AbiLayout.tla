------------------------------ MODULE AbiLayout ------------------------------
(***************************************************************************)
(* The Data blob of a virtual log (src/bch/abi.go, BuildLogData of        *)
(* src/bch/egtx.go).  The blob is built with the ABI `a` (a function      *)
(* EGTXLogData) and read with the ABI `b` (an event EGTXLogData); the two  *)
(* JSON schemas are written out separately and must agree field for       *)
(* field.  The encoder and decoder are go-ethereum's accounts/abi, outside *)
(* the repository: they are modelled from the standard dynamic-tuple      *)
(* encoding of spec 4.1 (head words, then tails; a dynamic array of       *)
(* dynamic elements has a word of offset per element, relative to the     *)
(* first word after its length).  A blob is a sequence of byte values;    *)
(* a word is WordBytes bytes, big-endian.  Offsets are byte offsets.      *)
(***************************************************************************)
EXTENDS ConfirmationRewrite

\* The four uint256 components of a TokenInfo tuple.
TupleArity == 4

\* The input list of the ABI `a` (abi.go, "type": "function").
SchemaA == <<"uint256", "uint256[]", "uint256[]", "tuple[]", "tuple[]", "bytes[]">>

\* The input list of the ABI `b` (abi.go, "type": "event").
SchemaB == <<"uint256", "uint256[]", "uint256[]", "tuple[]", "tuple[]", "bytes[]">>

IsStatic(k) == k = "uint256"

\* A non-negative integer below 256^WordBytes as a word, and back.
Word(v) == Bytes32(v)
WordValue(w) == FoldLeft(LAMBDA acc, byte : acc * 256 + byte, 0, w)

\* bytes: its data padded with zeros to a multiple of the word.
PadRight(s) == s \o Zeros((WordBytes - (Len(s) % WordBytes)) % WordBytes)

WordsOf(vs) == FlattenSeq([j \in DOMAIN vs |-> Word(vs[j])])

\* The tail of a dynamic field: its length word, then its elements.
EncTail(k, v) ==
    LET elem(j) == Word(Len(v[j])) \o PadRight(v[j])
        offset(j) == Len(v) * WordBytes + Len(FlattenSeq([m \in 1..(j - 1) |-> elem(m)]))
    IN Word(Len(v)) \o
       CASE k = "uint256[]" -> WordsOf(v)
         [] k = "tuple[]"   -> FlattenSeq([j \in DOMAIN v |-> WordsOf(v[j])])
         [] k = "bytes[]"   -> FlattenSeq([j \in DOMAIN v |-> Word(offset(j))])
                               \o FlattenSeq([j \in DOMAIN v |-> elem(j)])

\* abi.Arguments.Pack: the head words (a scalar inline, a dynamic field's
\* byte offset from the start), then the tails in field order.
Encode(schema, vals) ==
    LET tail(i) == IF IsStatic(schema[i]) THEN <<>> ELSE EncTail(schema[i], vals[i])
        before(i) == Len(FlattenSeq([m \in 1..(i - 1) |-> tail(m)]))
        head(i) == IF IsStatic(schema[i]) THEN Word(vals[i])
                   ELSE Word(Len(schema) * WordBytes + before(i))
    IN FlattenSeq([i \in DOMAIN schema |-> head(i)])
       \o FlattenSeq([i \in DOMAIN schema |-> tail(i)])

\* The 4-byte method id abi.ABI.Pack puts before the arguments of a
\* function (the first bytes of a Keccak hash; their values do not matter).
MethodID == <<1, 2, 3, 4>>

\* abi.ABI.Pack("EGTXLogData", ...) on the function ABI `a`.
Pack(vals) == MethodID \o Encode(SchemaA, vals)

WordAt(d, p) == WordValue(SubSeq(d, p + 1, p + WordBytes))

\* The bound checks of the decoder: every word and every byte it reads is
\* inside the blob (go-ethereum returns an error otherwise).
FieldFits(d, k, i) ==
    LET o == WordAt(d, (i - 1) * WordBytes)
        n == WordAt(d, o)
        base == o + WordBytes
        eo(j) == base + WordAt(d, base + (j - 1) * WordBytes)
    IN /\ o + WordBytes <= Len(d)
       /\ CASE k = "uint256[]" -> base + n * WordBytes <= Len(d)
            [] k = "tuple[]"   -> base + n * TupleArity * WordBytes <= Len(d)
            [] k = "bytes[]"   -> /\ base + n * WordBytes <= Len(d)
                                  /\ \A j \in 1..n :
                                       /\ eo(j) + WordBytes <= Len(d)
                                       /\ eo(j) + WordBytes + WordAt(d, eo(j)) <= Len(d)

DecField(d, k, i) ==
    LET o == WordAt(d, (i - 1) * WordBytes)
        n == WordAt(d, o)
        base == o + WordBytes
        at(j) == WordAt(d, base + (j - 1) * WordBytes)
        eo(j) == base + at(j)
    IN CASE k = "uint256"   -> o
         [] k = "uint256[]" -> [j \in 1..n |-> at(j)]
         [] k = "tuple[]"   -> [j \in 1..n |-> [m \in 1..TupleArity |->
                                                  at((j - 1) * TupleArity + m)]]
         [] k = "bytes[]"   -> [j \in 1..n |-> SubSeq(d, eo(j) + WordBytes + 1,
                                                     eo(j) + WordBytes + WordAt(d, eo(j)))]

\* The nil slice Unpack returns with its error.
DecodeError == <<>>

\* abi.ABI.Unpack: the fields in order, or nil and an error when a read
\* leaves the blob.
Decode(schema, d) ==
    IF /\ Len(schema) * WordBytes <= Len(d)
       /\ \A i \in DOMAIN schema : IsStatic(schema[i]) \/ FieldFits(d, schema[i], i)
    THEN [i \in DOMAIN schema |-> DecField(d, schema[i], i)]
    ELSE DecodeError

\* Mutant: the method id is left in front of the blob.
PackEGTXLogDataEventKeepID(confirmations, outputs, inputs, outputTokenInfos, inputTokenInfos, otherData) ==
    Pack(<<confirmations, outputs, inputs, outputTokenInfos, inputTokenInfos, otherData>>)

\* PackEGTXLogDataEvent: Pack with `a`, then output[4:] drops the method id.
PackEGTXLogDataEvent(confirmations, outputs, inputs, outputTokenInfos, inputTokenInfos, otherData) ==
    LET out == Pack(<<confirmations, outputs, inputs, outputTokenInfos,
                      inputTokenInfos, otherData>>)
    IN SubSeq(out, Len(MethodID) + 1, Len(out))

\* UnPackEGTXLog: Unpack with the event ABI `b`.
UnPackEGTXLog(data) == Decode(SchemaB, data)

\* BuildLogData: each [32]byte value record becomes the integer it spells
\* (SetBytes32), then the fields are packed.
BuildLogData(confirmations, outputInfoArray, inputInfoArray, outputTokenInfos, inputTokenInfos, otherDataInOpReturn) ==
    PackEGTXLogDataEvent(confirmations,
        [j \in DOMAIN outputInfoArray |-> WordValue(outputInfoArray[j])],
        [j \in DOMAIN inputInfoArray |-> WordValue(inputInfoArray[j])],
        outputTokenInfos, inputTokenInfos, otherDataInOpReturn)

=============================================================================
