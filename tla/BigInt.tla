------------------------------ MODULE BigInt ------------------------------
(***************************************************************************)
(* The big-endian byte strings of math/big (external) as mnemonic.go and   *)
(* hdkeychain use them: Bytes drops leading zeros, which the code has to   *)
(* put back with padByteSlice and paddedAppend.                            *)
(***************************************************************************)
EXTENDS Naturals, SequencesExt

CONSTANT Base       \* the values of a byte, 256

ASSUME BaseAssumption == Base \in Nat \ {0, 1}

Power(b, k) == LET p[i \in 0..k] == IF i = 0 THEN 1 ELSE b * p[i - 1] IN p[k]

(* The last k digits of n to the base b, and the number that digits are. *)
Digits(n, b, k) == [i \in 1..k |-> (n \div Power(b, k - i)) % b]
FromDigits(s, b) ==
    LET v[i \in 0..Len(s)] == IF i = 0 THEN 0 ELSE v[i - 1] * b + s[i] IN v[Len(s)]

SetBytes(s) == FromDigits(s, Base)

Bytes(n) ==
    Digits(n, Base, CHOOSE k \in 0..n : n < Power(Base, k) /\ \A j \in 0..(k - 1) : n >= Power(Base, j))

padByteSlice(s, length) ==
    [i \in 1..(IF length > Len(s) THEN length - Len(s) ELSE 0) |-> 0] \o s
=============================================================================
