----------------------------- MODULE EGTXCodec -----------------------------
(***************************************************************************)
(* The tagged-payload decoding of src/bch/egtx.go: ParseEGTXNullData, the *)
(* positional loop of ExtractEGTXNullData over the script's pushes, and   *)
(* the fixed-width conversions convertToByte20 / convertToByte32.  A byte *)
(* string is a sequence of byte values; the field widths 20 and 32 are    *)
(* the constants AddrWidth and TopicWidth so that TLC can enumerate every *)
(* string up to and past the width.  Hex decoding and txscript.PushedData *)
(* are represented by their result: the list of pushes, or failure.       *)
(***************************************************************************)
EXTENDS Naturals, Sequences, SequencesExt

CONSTANTS
    Bytes,          \* byte values a string is drawn from
    AddrWidth,      \* 20: width of the contract address
    TopicWidth,     \* 32: width of a topic
    Pushes          \* the pushed byte strings a script is made of

ASSUME /\ AddrWidth \in Nat \ {0} /\ TopicWidth \in Nat \ {0}
       /\ Pushes \subseteq Seq(Bytes)

Zeros(n) == [k \in 1..n |-> 0]

\* convertToByte32 / convertToByte20: a zero array; an empty string stays
\* zero; a short one is copied to out[N-l:] (zero padding on the left); a
\* long one has its first N bytes copied (the rest is dropped).
convertToByteN(o, N) ==
    LET l == Len(o) IN
    IF l = 0 THEN Zeros(N)
    ELSE IF l <= N THEN [k \in 1..N |-> IF k > N - l THEN o[k - (N - l)] ELSE 0]
    ELSE [k \in 1..N |-> o[k]]

convertToByte20(o) == convertToByteN(o, AddrWidth)
convertToByte32(o) == convertToByteN(o, TopicWidth)

\* Mutant: the topic branch stops one push early.
ExtractLoopShortTopics(es) ==
    LET RECURSIVE Loop(_, _)
        Loop(i, acc) ==
          IF i > Len(es) THEN acc
          ELSE LET e == es[i] IN
               Loop(i + 1,
                    IF i = 1 THEN [acc EXCEPT !.addr = convertToByte20(e)]
                    ELSE IF i <= 4 THEN
                         IF Len(e) # 0 THEN [acc EXCEPT !.topics = Append(@, convertToByte32(e))]
                                       ELSE acc
                    ELSE [acc EXCEPT !.other = Append(@, e)])
    IN Loop(1, [addr |-> Zeros(AddrWidth), topics |-> <<>>, other |-> <<>>])

\* The range loop of ExtractEGTXNullData (push i+1 here is push i there):
\* push 0 is the contract address, pushes 1..4 are topics unless empty,
\* later pushes are other data.
ExtractLoop(es) ==
    LET RECURSIVE Loop(_, _)
        Loop(i, acc) ==
          IF i > Len(es) THEN acc
          ELSE LET e == es[i] IN
               Loop(i + 1,
                    IF i = 1 THEN [acc EXCEPT !.addr = convertToByte20(e)]
                    ELSE IF i <= 5 THEN
                         IF Len(e) # 0 THEN [acc EXCEPT !.topics = Append(@, convertToByte32(e))]
                                       ELSE acc
                    ELSE [acc EXCEPT !.other = Append(@, e)])
    IN Loop(1, [addr |-> Zeros(AddrWidth), topics |-> <<>>, other |-> <<>>])

\* A null-data script s is a record: whether it starts with EGTXFlag, whether
\* the rest hex-decodes into well-formed pushes, and (then) the pushes es.
\* ParseEGTXNullData: NotHaveEGTXNulldata without the flag, the decode or
\* PushedData error for a malformed rest, else the decoded fields.
ParseEGTXNullData(s) ==
    IF ~s.tagged THEN [err |-> "NotHaveEGTXNulldata"]
    ELSE IF ~s.wellFormed THEN [err |-> "decode"]
    ELSE [err |-> "none", val |-> ExtractLoop(s.es)]

-----------------------------------------------------------------------------
(* Reference definitions, from spec 4.1 and 6 *)

\* "if l <= N, right-align o within N bytes (zero-pad on the left); if
\* l > N, keep only the first N bytes of o."
FixedWidthRef(o, N) ==
    IF Len(o) <= N THEN Zeros(N - Len(o)) \o o ELSE SubSeq(o, 1, N)

\* "element 0 -> contract address; elements 1-4 -> topics (an empty element
\* means topic absent); elements >= 5 -> opaque extra-data chunks."
PayloadRef(es) ==
    LET n == Len(es)
        topicPushes == SelectSeq(SubSeq(es, 2, IF n < 5 THEN n ELSE 5), LAMBDA e : e # <<>>)
    IN [addr |-> IF n = 0 THEN Zeros(AddrWidth) ELSE FixedWidthRef(es[1], AddrWidth),
        topics |-> [k \in 1..Len(topicPushes) |-> FixedWidthRef(topicPushes[k], TopicWidth)],
        other |-> IF n <= 5 THEN <<>> ELSE SubSeq(es, 6, n)]

-----------------------------------------------------------------------------
(* Bounded exhaustive check: the state is one input, chosen in Init *)

CONSTANT MaxPushes  \* scripts of up to MaxPushes pushes

VARIABLE script

Scripts == {s \in [tagged : BOOLEAN, wellFormed : BOOLEAN,
                   es : BoundedSeq(Pushes, MaxPushes)] :
              ~s.tagged \/ ~s.wellFormed => s.es = <<>>}

Init == script \in Scripts
Next == UNCHANGED script
Spec == Init /\ [][Next]_script

\* ParseEGTXNullData rejects exactly the untagged and malformed scripts and
\* otherwise decodes the pushes positionally as spec 4.1 says.
PayloadAgrees ==
    LET r == ParseEGTXNullData(script) IN
    IF script.tagged /\ script.wellFormed
    THEN r.err = "none" /\ r.val = PayloadRef(script.es)
    ELSE r.err # "none"

=============================================================================
