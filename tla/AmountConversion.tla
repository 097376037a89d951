-------------------------- MODULE AmountConversion --------------------------
(***************************************************************************)
(* The amount field of a value record (spec 4.3: "12-byte big-endian      *)
(* amount scaled x10^10"), as convertUtxoInfoToTx (src/scanner/bch.go)    *)
(* and ExtractSenderInfo (src/bch/egtx.go) compute it from the node's     *)
(* JSON: the decimal "value" in coins is decoded into a float64 (nearest, *)
(* ties to even), multiplied by the float 1e8 (rounded to nearest),       *)
(* converted to uint64 (truncated toward zero), multiplied by 1e10 in a   *)
(* uint256, and its low 12 bytes kept (Bytes20()[8:]).                    *)
(* Widths are scaled: a float has Prec significant bits (53), a coin has  *)
(* UnitsPerCoin units (1e8 satoshi), a unit WeiPerUnit wei (1e10), the    *)
(* field AmountBits bits (96).                                            *)
(***************************************************************************)
EXTENDS Integers

CONSTANTS
    Prec,           \* significand bits of a float64 (53)
    UnitsPerCoin,   \* satoshi per coin (1e8), a power of ten
    WeiPerUnit,     \* 1e10
    AmountBits,     \* 96: the 12 bytes of the record's amount
    MaxUnits        \* largest amount, in units, a node reports

ASSUME Prec \in Nat \ {0} /\ UnitsPerCoin \in Nat \ {0} /\ MaxUnits \in Nat

(* A positive float is m * 2^e with 2^(Prec-1) <= m <= 2^Prec (m = 2^Prec *)
(* only after rounding up); it is kept as the exact fraction num/den.      *)

\* The quotient (a/b) / 2^e as a fraction of naturals.
Over(a, b, e) == IF e >= 0 THEN <<a, b * 2 ^ e>> ELSE <<a * 2 ^ (-e), b>>

\* The exponent e that puts (a/b) / 2^e in [2^(Prec-1), 2^Prec).
RECURSIVE ExpOf(_, _, _)
ExpOf(a, b, e) ==
    LET q == Over(a, b, e)[1] \div Over(a, b, e)[2] IN
    IF q >= 2 ^ Prec THEN ExpOf(a, b, e + 1)
    ELSE IF q < 2 ^ (Prec - 1) THEN ExpOf(a, b, e - 1)
    ELSE e

\* The float nearest to a/b (a >= 0, b > 0), ties to the even significand:
\* strconv.ParseFloat of a decimal, and the rounding of a float product.
RoundFloat(a, b) ==
    IF a = 0 THEN <<0, 1>>
    ELSE LET e == ExpOf(a, b, 0)
             x == Over(a, b, e)
             q == x[1] \div x[2]
             r == x[1] % x[2]
             m == IF 2 * r > x[2] \/ (2 * r = x[2] /\ q % 2 = 1) THEN q + 1 ELSE q
         IN IF e >= 0 THEN <<m * 2 ^ e, 1>> ELSE <<m, 2 ^ (-e)>>

\* json.Unmarshal of the node's "value": n units printed as n / UnitsPerCoin coins.
DecodeValue(n) == RoundFloat(n, UnitsPerCoin)

\* f * 1e8 in float64 arithmetic (1e8 is exact in a float64).
MulFloat(f, k) == RoundFloat(f[1] * k, f[2])

\* uint64(f) of a non-negative float: the integer part.
ToUint(f) == f[1] \div f[2]

\* Mutant: the float is converted to uint64 before it is scaled.
ValueAmountTruncFirst(n) ==
    ((ToUint(DecodeValue(n)) * UnitsPerCoin) * WeiPerUnit) % 2 ^ AmountBits

\* convertUtxoInfoToTx: uint256(uint64(vout.Value*1e8)) * 1e10, Bytes20()[8:].
ValueAmount(n) ==
    (ToUint(MulFloat(DecodeValue(n), UnitsPerCoin)) * WeiPerUnit) % 2 ^ AmountBits

\* ExtractSenderInfo: the same conversion of the spent output's value.
SenderAmount(n) ==
    (ToUint(MulFloat(DecodeValue(n), UnitsPerCoin)) * WeiPerUnit) % 2 ^ AmountBits

-----------------------------------------------------------------------------
(* Reference (spec 4.3): the amount in units, scaled x10^10. *)

AmountRef(n) == n * WeiPerUnit

=============================================================================
