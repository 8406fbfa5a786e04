---------------------------- MODULE MCKeystore ----------------------------
(***************************************************************************)
(* The keystores with two wallets, and the words and keys below them over  *)
(* small number systems: two-bit bytes, eight words, a group of 13.  A     *)
(* behaviour exercises either the calls of Keystore or those of Envelope.  *)
(***************************************************************************)
EXTENDS WalletKeys, Envelope

CONSTANTS w1, w2

VARIABLE part

(* With a gap of two, addresses 0 and 3 are too far apart. *)
MCPayees == {<<w1, External, 0>>, <<w1, External, 3>>}

MCWordList ==
    <<"abandon", "ability", "able", "about", "above", "absent", "absorb", "abstract">>

(* Every entropy of one unit; of two, those with a zero half. *)
MCEntropy ==
    [1..4 -> 0..3] \cup
    {e \in {a \o b : a, b \in {[i \in 1..4 |-> 0]} \cup [1..4 -> 0..3]} :
        \/ \A i \in 1..4 : e[i] = 0
        \/ \A i \in 5..8 : e[i] = 0}

MCSha256(data) ==
    LET n == SetBytes(data) IN (n * 7 + 5 + (n \div 3)) % 4

MCHmac512(chainCode, data) ==
    LET v == FoldLeft(LAMBDA n, e : (n * 5 + e + 3 + chainCode) % 101, chainCode + 1, data)
    IN  <<v % 16, v \div 51>>

(* Bound: a wallet restored with an internal address is w2, alone. *)
FewInternal ==
    (\E w \in DOMAIN cache : \E a \in cache[w].addrs : a[1] = Internal) => DOMAIN cache = {w2}

MCInit == part \in {"keystores", "envelope"} /\ Init /\ EnvInit
MCNext == \/ part = "keystores" /\ Next /\ FewInternal' /\ UNCHANGED <<envVars, part>>
          \/ part = "envelope" /\ EnvNext /\ UNCHANGED <<vars, part>>
MCSpec == MCInit /\ [][MCNext]_<<vars, envVars, part>>

Symmetry == Permutations(Signer)
=============================================================================
