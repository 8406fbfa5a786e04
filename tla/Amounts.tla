------------------------------ MODULE Amounts ------------------------------
(***************************************************************************)
(* Amounts as the API writes and reads them (api/util.go, common.go):      *)
(* AmountToString and StringToAmount convert between Maxwell and a decimal *)
(* number of MASS.  A string is a sequence of digits and dots.             *)
(***************************************************************************)
EXTENDS Naturals, Integers, Sequences, FiniteSets, SequencesExt

CONSTANTS
    Decimals,       \* digits after the dot, 8
    MaxMass,        \* consensus.MaxMass
    Strings         \* bound: the strings tried

Dot == 10           \* the digits are 0..9
NotAmount == -1     \* the error of StringToAmount
NotString == <<Dot, Dot>>
MaxwellPerMass == 10^Decimals
MaxAmount == MaxMass * MaxwellPerMass

DigitsValue(s) == FoldLeft(LAMBDA n, d : 10 * n + d, 0, s)
Itoa(n) ==
    LET len == CHOOSE k \in 1..(n + 1) : n < 10^k /\ (k = 1 \/ n >= 10^(k - 1))
    IN  [i \in 1..len |-> (n \div 10^(len - i)) % 10]

Zeros(n) == [i \in 1..n |-> 0]
(* strings.TrimLeft, TrimRight of "0" *)
TrimLeft(s) ==
    LET keep == {i \in DOMAIN s : s[i] # 0}
    IN  IF keep = {} THEN <<>> ELSE SubSeq(s, CHOOSE i \in keep : \A j \in keep : i <= j, Len(s))
TrimRight(s) == Reverse(TrimLeft(Reverse(s)))


(* One whole MASS is added, so that the fraction has all its digits. *)
AmountToString(m) ==
    LET s == Itoa(m + MaxwellPerMass)
        sInt == Itoa(DigitsValue(SubSeq(s, 1, Len(s) - Decimals)) - 1)
        sFrac == TrimRight(SubSeq(s, Len(s) - Decimals + 1, Len(s)))
    IN  IF m > MaxAmount THEN NotString
        ELSE IF sFrac # <<>> THEN sInt \o <<Dot>> \o sFrac
        ELSE sInt

(* Mutant form: the fraction is not filled up on the right. *)
FractionUnpadded(sFrac) == DigitsValue(sFrac)

FractionValue(sFrac) == DigitsValue(sFrac \o Zeros(Decimals - Len(sFrac)))

StringToAmount(s) ==
    LET dots == {i \in DOMAIN s : s[i] = Dot}
        dot == IF dots = {} THEN Len(s) + 1 ELSE CHOOSE i \in dots : TRUE
        i == DigitsValue(TrimLeft(SubSeq(s, 1, dot - 1)))
        sFrac == TrimRight(SubSeq(s, dot + 1, Len(s)))
        total == i * MaxwellPerMass + FractionValue(sFrac)
    IN  IF Cardinality(dots) > 1 \/ Len(sFrac) > Decimals \/ i > MaxMass THEN NotAmount
        ELSE IF total > MaxAmount THEN NotAmount
        ELSE total

-----------------------------------------------------------------------------
(* What a string denotes: its digits, divided by a power of ten. *)
Scale(s) == Cardinality({i \in DOMAIN s : \E j \in 1..(i - 1) : s[j] = Dot})
Digits(s) == DigitsValue(SelectSeq(s, LAMBDA d : d # Dot))
Denotes(s, m) ==
    /\ Cardinality({i \in DOMAIN s : s[i] = Dot}) <= 1
    /\ Digits(s) * MaxwellPerMass = m * 10^Scale(s)

(* A string is read as the amount it denotes, and refused exactly when it  *)
(* denotes none.                                                           *)
Misread ==
    {s \in Strings :
        IF StringToAmount(s) = NotAmount
        THEN \E m \in {(Digits(s) * MaxwellPerMass) \div 10^Scale(s)} : m <= MaxAmount /\ Denotes(s, m)
        ELSE ~Denotes(s, StringToAmount(s))}

(* An amount is written as a string that is read as the same amount. *)
Miswritten == {m \in 0..MaxAmount : StringToAmount(AmountToString(m)) # m}
=============================================================================
