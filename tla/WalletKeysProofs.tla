-------------------------- MODULE WalletKeysProofs --------------------------
(***************************************************************************)
(* Every backup restores its wallet and every address has its signing key, *)
(* for any byte, word and key size, any entropies, any hash and any group  *)
(* that the assumptions of Mnemonic and ExtendedKey admit.                 *)
(*                                                                         *)
(* The first part is arithmetic: quotients, powers, and that a number is   *)
(* the value of its digits and digits are those of their value.  What is   *)
(* a recursion over a sequence in BigInt is shown there one position at a  *)
(* time, and a claim about all positions by its least counterexample.      *)
(***************************************************************************)
EXTENDS WalletKeys, SequenceTheorems, WellFoundedInduction, TLAPS

(* A non-empty set of numbers has a least element. *)
LEMMA Least ==
    ASSUME NEW T \in SUBSET Nat, T # {}
    PROVE  \E x \in T : \A y \in T : x <= y
<1> DEFINE R == OpToRel(<, Nat)
<1>1. IsWellFoundedOn(R, Nat)
  BY NatLessThanWellFounded
<1>2. PICK x \in T : \A y \in T : ~(<<y, x>> \in R)
  <2> HIDE DEF R
  <2> QED
    BY <1>1, WFMin
<1>3. \A y \in T : ~(y < x)
  BY <1>2 DEF OpToRel
<1> QED
  BY <1>3

(* Arithmetic: quotient and remainder *)
LEMMA DivMod ==
    ASSUME NEW n \in Nat, NEW d \in Nat, d > 0
    PROVE  /\ n \div d \in Nat /\ n % d \in Nat /\ n % d < d
           /\ n = d * (n \div d) + (n % d)
OBVIOUS

(* A product with a larger factor is larger by a multiple of the other. *)
LEMMA TimesLess ==
    ASSUME NEW x \in Nat, NEW y \in Nat, NEW d \in Nat, x < y
    PROVE  d * x + d <= d * y
<1>1. PICK z \in Nat : y = x + 1 + z
  <2>1. y - x - 1 \in Nat /\ y = x + 1 + (y - x - 1)
    OBVIOUS
  <2> QED BY <2>1
<1>2. d * (x + 1 + z) = d * x + d + d * z
  OBVIOUS
<1>3. d * z \in Nat
  OBVIOUS
<1>4. d * x \in Nat
  OBVIOUS
<1> QED BY <1>1, <1>2, <1>3, <1>4

(* Quotient and remainder are the only numbers of their kind. *)
LEMMA DivUnique ==
    ASSUME NEW n \in Nat, NEW d \in Nat, NEW q \in Nat, NEW r \in Nat, d > 0, r < d, n = d * q + r
    PROVE  n \div d = q /\ n % d = r
<1> DEFINE q2 == n \div d
           r2 == n % d
<1>1. q2 \in Nat /\ r2 \in Nat /\ r2 < d /\ n = d * q2 + r2
  BY DivMod
<1> HIDE DEF q2, r2
<1>2. ~(q < q2)
  <2>1. q < q2 => d * q + d <= d * q2
    BY <1>1, TimesLess
  <2>2. d * q \in Nat /\ d * q2 \in Nat
    BY <1>1
  <2> HIDE DEF q2
  <2> QED BY <1>1, <2>1, <2>2
<1>3. ~(q2 < q)
  <2>1. q2 < q => d * q2 + d <= d * q
    BY <1>1, TimesLess
  <2>2. d * q \in Nat /\ d * q2 \in Nat
    BY <1>1
  <2> QED BY <1>1, <2>1, <2>2
<1>4. q2 = q
  BY <1>1, <1>2, <1>3
<1>5. r2 = r
  <2>1. d * q \in Nat
    OBVIOUS
  <2> QED BY <1>1, <1>4, <2>1
<1> QED BY <1>4, <1>5 DEF q2, r2

(* Dividing twice is dividing once. *)
LEMMA DivDiv ==
    ASSUME NEW n \in Nat, NEW d \in Nat, NEW e \in Nat, d > 0, e > 0
    PROVE  (n \div d) \div e = n \div (e * d)
<1> DEFINE q == n \div d
           r == n % d
           q2 == q \div e
           r2 == q % e
<1>1. q \in Nat /\ r \in Nat /\ r < d /\ n = d * q + r
  BY DivMod
<1> HIDE DEF q, r
<1>2. q2 \in Nat /\ r2 \in Nat /\ r2 < e /\ q = e * q2 + r2
  BY <1>1, DivMod
<1> HIDE DEF q2, r2
<1>3. d * q = d * (e * q2) + d * r2
  <2>1. e * q2 \in Nat
    BY <1>2
  <2> DEFINE x == e * q2
  <2>2. d * (x + r2) = d * x + d * r2
    BY <1>2, <2>1
  <2> QED BY <1>2, <2>2
<1>4. d * (e * q2) = (e * d) * q2
  BY <1>2
<1>5. d * r2 + r < e * d
  <2>1. d * r2 + d <= d * e
    BY <1>2, TimesLess
  <2>2. d * e = e * d /\ d * e \in Nat /\ d * r2 \in Nat
    BY <1>2
  <2> DEFINE x == d * e
             y == d * r2
  <2> HIDE DEF x, y
  <2>3. y + d <= x /\ x \in Nat /\ y \in Nat
    BY <2>1, <2>2 DEF x, y
  <2>4. y + r < x
    BY <1>1, <2>3
  <2> QED BY <2>2, <2>4 DEF x, y
<1>6. n = (e * d) * q2 + (d * r2 + r)
  <2> DEFINE a == (e * d) * q2
             b == d * r2
  <2>1. a \in Nat /\ b \in Nat
    BY <1>2
  <2>2. d * q = a + b
    BY <1>3, <1>4
  <2> HIDE DEF a, b
  <2>3. n = a + (b + r)
    BY <1>1, <2>1, <2>2
  <2> QED BY <2>3 DEF a, b
<1>7. e * d \in Nat /\ e * d > 0 /\ d * r2 + r \in Nat
  <2>1. e * d \in Nat /\ d * r2 \in Nat
    BY <1>2
  <2>2. e * d > 0
    OBVIOUS
  <2> QED BY <1>1, <2>1, <2>2
<1> DEFINE ed == e * d
           rr == d * r2 + r
<1>8. ed \in Nat /\ ed > 0 /\ rr \in Nat /\ rr < ed /\ n = ed * q2 + rr
  BY <1>5, <1>6, <1>7
<1> HIDE DEF ed, rr
<1>9. n \div ed = q2
  BY <1>2, <1>8, DivUnique
<1> QED BY <1>9 DEF ed, q2, q

-----------------------------------------------------------------------------
(* Power *)

PowerFcn(b, k) == CHOOSE p : p = [i \in 0..k |-> IF i = 0 THEN 1 ELSE b * p[i - 1]]
IsPower(p, b, k) ==
    /\ DOMAIN p = 0..k
    /\ p[0] = 1
    /\ \A i \in 1..k : p[i] = b * p[i - 1]

(* The function that Power computes with exists. *)
LEMMA PowerFcnIs ==
    ASSUME NEW b \in Nat, NEW k \in Nat
    PROVE  IsPower(PowerFcn(b, k), b, k)
<1> DEFINE Solves(p, n) == p = [i \in 0..n |-> IF i = 0 THEN 1 ELSE b * p[i - 1]]
           Bad == {n \in Nat : ~ \E p : Solves(p, n)}
<1>1. \E p : Solves(p, 0)
  <2> DEFINE p == [i \in {0} |-> 1]
  <2>1. 0..0 = {0}
    OBVIOUS
  <2>2. p = [i \in 0..0 |-> IF i = 0 THEN 1 ELSE b * p[i - 1]]
    BY <2>1
  <2> QED BY <2>2
<1>2. ASSUME NEW n \in Nat, NEW p, Solves(p, n)
      PROVE  \E g : Solves(g, n + 1)
  <2> DEFINE v == b * p[n]
             g == [i \in 0..(n + 1) |-> IF i <= n THEN p[i] ELSE v]
  <2>1. \A i \in 0..n : g[i] = p[i]
    OBVIOUS
  <2>2. g[n + 1] = v
    OBVIOUS
  <2>3. \A i \in 0..n : p[i] = IF i = 0 THEN 1 ELSE b * p[i - 1]
    BY <1>2
  <2>4. DOMAIN g = 0..(n + 1) /\ g = [i \in DOMAIN g |-> g[i]]
    OBVIOUS
  <2> HIDE DEF g
  <2>5. \A i \in 0..(n + 1) : g[i] = IF i = 0 THEN 1 ELSE b * g[i - 1]
    <3> SUFFICES ASSUME NEW i \in 0..(n + 1) PROVE g[i] = IF i = 0 THEN 1 ELSE b * g[i - 1]
      OBVIOUS
    <3>1. CASE i <= n
      BY <2>1, <2>3, <3>1
    <3>2. CASE i = n + 1
      BY <2>1, <2>2, <3>2
    <3> QED BY <3>1, <3>2
  <2>6. Solves(g, n + 1)
    BY <2>4, <2>5
  <2> QED BY <2>6
<1>3. Bad = {}
  <2> HIDE DEF Solves
  <2> SUFFICES ASSUME Bad # {} PROVE FALSE
    OBVIOUS
  <2>1. PICK n \in Bad : \A m \in Bad : n <= m
    BY Least
  <2>2. n # 0 /\ n - 1 \in Nat /\ n - 1 \notin Bad
    BY <2>1, <1>1
  <2>3. PICK f : Solves(f, n - 1)
    BY <2>2
  <2>4. \E g : Solves(g, (n - 1) + 1)
    BY <2>2, <2>3, <1>2
  <2> QED BY <2>1, <2>2, <2>4
<1>4. \E p : Solves(p, k)
  <2> HIDE DEF Solves
  <2> QED BY <1>3
<1> DEFINE p == PowerFcn(b, k)
<1>5. p = [i \in 0..k |-> IF i = 0 THEN 1 ELSE b * p[i - 1]]
  BY <1>4 DEF PowerFcn
<1> HIDE DEF p
<1>6. DOMAIN p = 0..k /\ \A i \in 0..k : p[i] = IF i = 0 THEN 1 ELSE b * p[i - 1]
  BY <1>5
<1>7. p[0] = 1 /\ \A i \in 1..k : p[i] = b * p[i - 1]
  BY <1>6
<1> QED BY <1>6, <1>7 DEF IsPower, p

(* Two such functions agree where both are defined. *)
LEMMA PowersAgree ==
    ASSUME NEW b \in Nat, NEW k \in Nat, NEW l \in Nat, k <= l, NEW p, NEW q, IsPower(p, b, k), IsPower(q, b, l)
    PROVE  p[k] = q[k]
<1> DEFINE Bad == {i \in Nat : i <= k /\ p[i] # q[i]}
<1>1. Bad = {}
  <2> SUFFICES ASSUME Bad # {} PROVE FALSE
    OBVIOUS
  <2>1. PICK n \in Bad : \A m \in Bad : n <= m
    BY Least
  <2>2. n # 0 /\ n \in 1..k /\ n - 1 \in Nat /\ n - 1 \notin Bad
    BY <2>1 DEF IsPower
  <2>3. p[n] = b * p[n - 1] /\ q[n] = b * q[n - 1]
    BY <2>2 DEF IsPower
  <2> QED BY <2>1, <2>2, <2>3
<1> QED BY <1>1

(* Power multiplies. *)
LEMMA PowerSteps ==
    ASSUME NEW b \in Nat, b > 0
    PROVE  /\ Power(b, 0) = 1
           /\ \A k \in Nat : Power(b, k) \in Nat /\ Power(b, k) > 0 /\ Power(b, k + 1) = b * Power(b, k)
<1>1. \A k \in Nat : Power(b, k) = PowerFcn(b, k)[k]
  BY DEF Power, PowerFcn
<1>2. Power(b, 0) = 1
  BY <1>1, PowerFcnIs DEF IsPower
<1>3. ASSUME NEW k \in Nat PROVE Power(b, k + 1) = b * Power(b, k)
  <2>1. IsPower(PowerFcn(b, k), b, k) /\ IsPower(PowerFcn(b, k + 1), b, k + 1)
    BY PowerFcnIs
  <2>2. PowerFcn(b, k)[k] = PowerFcn(b, k + 1)[k]
    BY <2>1, PowersAgree
  <2>3. PowerFcn(b, k + 1)[k + 1] = b * PowerFcn(b, k + 1)[k]
    BY <2>1 DEF IsPower
  <2> QED BY <1>1, <2>2, <2>3
<1> DEFINE Bad == {k \in Nat : ~(Power(b, k) \in Nat /\ Power(b, k) > 0)}
<1>4. Bad = {}
  <2> SUFFICES ASSUME Bad # {} PROVE FALSE
    OBVIOUS
  <2>1. PICK n \in Bad : \A m \in Bad : n <= m
    BY Least
  <2>2. n # 0 /\ n - 1 \in Nat /\ n - 1 \notin Bad
    BY <2>1, <1>2
  <2>3. Power(b, n - 1) \in Nat /\ Power(b, n - 1) > 0
    BY <2>2
  <2>4. Power(b, n) = b * Power(b, n - 1)
    BY <1>3, <2>2
  <2> DEFINE x == Power(b, n - 1)
  <2> HIDE DEF x
  <2>5. b * x \in Nat /\ b * x > 0
    BY <2>3 DEF x
  <2> QED BY <2>1, <2>4, <2>5 DEF x
<1> QED BY <1>2, <1>3, <1>4

(* A sum of exponents is a product of powers. *)
LEMMA PowerPlus ==
    ASSUME NEW b \in Nat, b > 0, NEW m \in Nat, NEW n \in Nat
    PROVE  Power(b, m + n) = Power(b, m) * Power(b, n)
<1> DEFINE P(k) == Power(b, k)
           Bad == {k \in Nat : P(m + k) # P(m) * P(k)}
<1>0. P(0) = 1 /\ \A k \in Nat : P(k) \in Nat /\ P(k) > 0 /\ P(k + 1) = b * P(k)
  BY PowerSteps
<1> HIDE DEF P
<1>1. Bad = {}
  <2> SUFFICES ASSUME Bad # {} PROVE FALSE
    OBVIOUS
  <2>1. PICK k \in Bad : \A l \in Bad : k <= l
    BY Least
  <2>2. k # 0
    BY <1>0
  <2>3. PICK j \in Nat : k = j + 1 /\ j \notin Bad
    <3>1. k - 1 \in Nat /\ k = (k - 1) + 1 /\ k - 1 \notin Bad
      BY <2>1, <2>2
    <3> QED BY <3>1
  <2>4. P(m + j) = P(m) * P(j)
    BY <2>3
  <2>5. P((m + j) + 1) = b * P(m + j) /\ P(j + 1) = b * P(j)
    BY <1>0, <2>3
  <2>6. (m + j) + 1 = m + k
    BY <2>3
  <2> DEFINE x == P(m)
             y == P(j)
  <2>7. x \in Nat /\ y \in Nat
    BY <1>0
  <2> HIDE DEF x, y
  <2>8. b * (x * y) = x * (b * y)
    BY <2>7
  <2>9. P(m + k) = b * (x * y) /\ P(k) = b * y
    BY <2>3, <2>4, <2>5, <2>6 DEF x, y
  <2> QED BY <2>1, <2>8, <2>9 DEF x
<1> QED BY <1>1 DEF P

(* A product of exponents is a power of a power. *)
LEMMA PowerTimes ==
    ASSUME NEW b \in Nat, b > 0, NEW m \in Nat, NEW n \in Nat
    PROVE  Power(Power(b, m), n) = Power(b, m * n)
<1> DEFINE c == Power(b, m)
           P(k) == Power(b, k)
           Q(k) == Power(c, k)
           Bad == {k \in Nat : Q(k) # P(m * k)}
<1>0. P(0) = 1 /\ c \in Nat /\ c > 0 /\ \A k \in Nat : P(k) \in Nat
  BY PowerSteps
<1>1. Q(0) = 1 /\ \A k \in Nat : Q(k) \in Nat /\ Q(k + 1) = c * Q(k)
  <2> HIDE DEF c
  <2> QED BY <1>0, PowerSteps
<1>2. \A k \in Nat : P(m + m * k) = c * P(m * k)
  <2> SUFFICES ASSUME NEW k \in Nat PROVE P(m + m * k) = c * P(m * k)
    OBVIOUS
  <2> DEFINE x == m * k
  <2>1. x \in Nat
    OBVIOUS
  <2> HIDE DEF x
  <2>2. P(m + x) = P(m) * P(x)
    BY <2>1, PowerPlus
  <2> QED BY <2>2 DEF x
<1> HIDE DEF P, Q, c
<1>3. Bad = {}
  <2> SUFFICES ASSUME Bad # {} PROVE FALSE
    OBVIOUS
  <2>1. PICK k \in Bad : \A l \in Bad : k <= l
    BY Least
  <2>2. k # 0
    <3>1. m * 0 = 0
      OBVIOUS
    <3> QED BY <1>0, <1>1, <2>1, <3>1
  <2>3. PICK j \in Nat : k = j + 1 /\ j \notin Bad
    <3>1. k - 1 \in Nat /\ k = (k - 1) + 1 /\ k - 1 \notin Bad
      BY <2>1, <2>2
    <3> QED BY <3>1
  <2>4. m * k = m + m * j
    BY <2>3
  <2>5. Q(k) = c * Q(j) /\ Q(j) = P(m * j)
    BY <1>1, <2>3
  <2> QED BY <1>2, <2>1, <2>3, <2>4, <2>5
<1> QED BY <1>3 DEF P, Q, c

(* Powers exceed their exponents and grow with them. *)
LEMMA PowerGrows ==
    ASSUME NEW b \in Nat, b > 1, NEW n \in Nat
    PROVE  n < Power(b, n) /\ \A m \in 0..n : Power(b, m) <= Power(b, n)
<1> DEFINE P(k) == Power(b, k)
           Bad == {k \in Nat : ~(k < P(k) /\ \A m \in 0..k : P(m) <= P(k))}
<1>0. P(0) = 1 /\ \A k \in Nat : P(k) \in Nat /\ P(k) > 0 /\ P(k + 1) = b * P(k)
  BY PowerSteps
<1> HIDE DEF P
<1>1. Bad = {}
  <2> SUFFICES ASSUME Bad # {} PROVE FALSE
    OBVIOUS
  <2>1. PICK k \in Bad : \A l \in Bad : k <= l
    BY Least
  <2>2. k # 0
    <3>1. 0..0 = {0}
      OBVIOUS
    <3> QED BY <1>0, <3>1
  <2>3. PICK j \in Nat : k = j + 1 /\ j \notin Bad
    <3>1. k - 1 \in Nat /\ k = (k - 1) + 1 /\ k - 1 \notin Bad
      BY <2>1, <2>2
    <3> QED BY <3>1
  <2>4. j < P(j) /\ \A m \in 0..j : P(m) <= P(j)
    BY <2>3
  <2>5. P(k) = b * P(j) /\ P(j) \in Nat /\ P(j) > 0
    BY <1>0, <2>3
  <2>6. P(k) \in Nat /\ P(k) >= P(j) + P(j)
    <3> DEFINE x == P(j)
    <3> HIDE DEF x
    <3>1. x \in Nat => b * x \in Nat /\ b * x >= x + x
      OBVIOUS
    <3> QED BY <2>5, <3>1 DEF x
  <2>7. k < P(k)
    BY <2>3, <2>4, <2>5, <2>6
  <2>8. ASSUME NEW m \in 0..k PROVE P(m) <= P(k)
    <3>1. CASE m = k
      BY <2>6, <3>1
    <3>2. CASE m # k
      <4>1. m \in 0..j
        BY <2>3, <3>2
      <4>2. P(m) <= P(j) /\ P(m) \in Nat
        BY <1>0, <2>4, <4>1
      <4> QED BY <2>5, <2>6, <4>2
    <3> QED BY <3>1, <3>2
  <2> QED BY <2>1, <2>7, <2>8
<1> QED BY <1>1 DEF P

-----------------------------------------------------------------------------
(* Digits *)

ValueFcn(s, b) == CHOOSE v : v = [i \in 0..Len(s) |-> IF i = 0 THEN 0 ELSE v[i - 1] * b + s[i]]

(* The value of each prefix of the digits *)
LEMMA ValueSteps ==
    ASSUME NEW s \in Seq(Nat), NEW b \in Nat
    PROVE  /\ FromDigits(s, b) = ValueFcn(s, b)[Len(s)]
           /\ ValueFcn(s, b)[0] = 0
           /\ \A i \in 1..Len(s) : ValueFcn(s, b)[i] = ValueFcn(s, b)[i - 1] * b + s[i]
           /\ \A i \in 0..Len(s) : ValueFcn(s, b)[i] \in Nat
<1> DEFINE Solves(p, n) == p = [i \in 0..n |-> IF i = 0 THEN 0 ELSE p[i - 1] * b + s[i]]
           Bad == {n \in Nat : ~ \E p : Solves(p, n)}
<1>1. \E p : Solves(p, 0)
  <2> DEFINE p == [i \in {0} |-> 0]
  <2>1. 0..0 = {0}
    OBVIOUS
  <2>2. p = [i \in 0..0 |-> IF i = 0 THEN 0 ELSE p[i - 1] * b + s[i]]
    BY <2>1
  <2> QED BY <2>2
<1>2. ASSUME NEW n \in Nat, NEW p, Solves(p, n)
      PROVE  \E g : Solves(g, n + 1)
  <2> DEFINE v == p[n] * b + s[n + 1]
             g == [i \in 0..(n + 1) |-> IF i <= n THEN p[i] ELSE v]
  <2>1. \A i \in 0..n : g[i] = p[i]
    OBVIOUS
  <2>2. g[n + 1] = v
    OBVIOUS
  <2>3. \A i \in 0..n : p[i] = IF i = 0 THEN 0 ELSE p[i - 1] * b + s[i]
    BY <1>2
  <2>4. DOMAIN g = 0..(n + 1) /\ g = [i \in DOMAIN g |-> g[i]]
    OBVIOUS
  <2> HIDE DEF g
  <2>5. \A i \in 0..(n + 1) : g[i] = IF i = 0 THEN 0 ELSE g[i - 1] * b + s[i]
    <3> SUFFICES ASSUME NEW i \in 0..(n + 1) PROVE g[i] = IF i = 0 THEN 0 ELSE g[i - 1] * b + s[i]
      OBVIOUS
    <3>1. CASE i <= n
      <4>1. i \in 0..n /\ g[i] = p[i]
        BY <2>1, <3>1
      <4>2. CASE i = 0
        BY <2>3, <4>1, <4>2
      <4>3. CASE i # 0
        <5>1. i - 1 \in 0..n
          BY <4>1, <4>3
        <5>2. g[i - 1] = p[i - 1]
          BY <2>1, <5>1
        <5>3. p[i] = p[i - 1] * b + s[i]
          BY <2>3, <4>1, <4>3
        <5> QED BY <4>1, <4>3, <5>2, <5>3
      <4> QED BY <4>2, <4>3
    <3>2. CASE i = n + 1
      <4>1. i # 0 /\ i - 1 = n /\ n \in 0..n
        BY <3>2
      <4>2. g[i - 1] = p[n] /\ g[i] = p[n] * b + s[i]
        BY <2>1, <2>2, <3>2, <4>1
      <4> QED BY <4>1, <4>2
    <3> QED BY <3>1, <3>2
  <2>6. Solves(g, n + 1)
    BY <2>4, <2>5
  <2> QED BY <2>6
<1>3. Bad = {}
  <2> HIDE DEF Solves
  <2> SUFFICES ASSUME Bad # {} PROVE FALSE
    OBVIOUS
  <2>1. PICK n \in Bad : \A m \in Bad : n <= m
    BY Least
  <2>2. n # 0 /\ n - 1 \in Nat /\ n - 1 \notin Bad
    BY <2>1, <1>1
  <2>3. PICK f : Solves(f, n - 1)
    BY <2>2
  <2>4. \E g : Solves(g, (n - 1) + 1)
    BY <2>2, <2>3, <1>2
  <2> QED BY <2>1, <2>2, <2>4
<1>4. Len(s) \in Nat
  OBVIOUS
<1>5. \E p : Solves(p, Len(s))
  <2> HIDE DEF Solves
  <2> QED BY <1>3, <1>4
<1> DEFINE v == ValueFcn(s, b)
<1>6. v = [i \in 0..Len(s) |-> IF i = 0 THEN 0 ELSE v[i - 1] * b + s[i]]
  BY <1>5 DEF ValueFcn
<1>7. FromDigits(s, b) = v[Len(s)]
  BY DEF FromDigits, ValueFcn
<1> HIDE DEF v
<1>8. \A i \in 0..Len(s) : v[i] = IF i = 0 THEN 0 ELSE v[i - 1] * b + s[i]
  BY <1>6
<1>9. v[0] = 0 /\ \A i \in 1..Len(s) : v[i] = v[i - 1] * b + s[i]
  BY <1>4, <1>8
<1> DEFINE Wrong == {i \in Nat : i <= Len(s) /\ v[i] \notin Nat}
<1>10. Wrong = {}
  <2> SUFFICES ASSUME Wrong # {} PROVE FALSE
    OBVIOUS
  <2>1. PICK n \in Wrong : \A m \in Wrong : n <= m
    BY Least
  <2>2. n # 0 /\ n \in 1..Len(s) /\ n - 1 \in Nat /\ n - 1 \notin Wrong
    BY <1>4, <1>9, <2>1
  <2>3. v[n - 1] \in Nat /\ s[n] \in Nat
    BY <1>4, <2>2
  <2> DEFINE x == v[n - 1]
             y == s[n]
  <2>4. v[n] = x * b + y /\ x \in Nat /\ y \in Nat
    BY <1>9, <2>2, <2>3
  <2> HIDE DEF x, y
  <2>5. x * b + y \in Nat
    BY <2>4
  <2> QED BY <2>1, <2>4, <2>5
<1>11. \A i \in 0..Len(s) : v[i] \in Nat
  BY <1>4, <1>10
<1> QED BY <1>7, <1>9, <1>11 DEF v

(* Digits is a sequence of digits of the length asked for. *)
LEMMA DigitsAre ==
    ASSUME NEW n \in Nat, NEW b \in Nat, b > 0, NEW k \in Nat
    PROVE  /\ Digits(n, b, k) \in Seq(0..(b - 1)) /\ Digits(n, b, k) \in Seq(Nat)
           /\ Len(Digits(n, b, k)) = k /\ DOMAIN Digits(n, b, k) = 1..k
           /\ \A i \in 1..k : Digits(n, b, k)[i] = (n \div Power(b, k - i)) % b
<1>1. ASSUME NEW i \in 1..k PROVE (n \div Power(b, k - i)) % b \in 0..(b - 1)
  <2> DEFINE x == Power(b, k - i)
  <2>1. k - i \in Nat
    OBVIOUS
  <2>2. x \in Nat /\ x > 0
    BY <2>1, PowerSteps
  <2> HIDE DEF x
  <2> DEFINE y == n \div x
  <2>3. y \in Nat
    BY <2>2, DivMod
  <2> HIDE DEF y
  <2>4. y % b \in Nat /\ y % b < b
    BY <2>3, DivMod
  <2> QED BY <2>4 DEF x, y
<1> DEFINE e(i) == (n \div Power(b, k - i)) % b
           d == [i \in 1..k |-> e(i)]
<1>2. Digits(n, b, k) = d
  BY DEF Digits
<1> HIDE DEF e
<1>3. d \in [1..k -> 0..(b - 1)]
  BY <1>1 DEF e
<1>4. d \in Seq(0..(b - 1)) /\ Len(d) = k /\ DOMAIN d = 1..k
  BY <1>3
<1>5. d \in Seq(Nat)
  <2>1. 0..(b - 1) \subseteq Nat
    OBVIOUS
  <2> QED BY <1>3, <2>1
<1>6. \A i \in 1..k : d[i] = e(i)
  OBVIOUS
<1> HIDE DEF d
<1> QED BY <1>2, <1>4, <1>5, <1>6 DEF e

(* A number is the value of its digits, if they are enough. *)
LEMMA DigitsValue ==
    ASSUME NEW n \in Nat, NEW b \in Nat, b > 0, NEW k \in Nat, n < Power(b, k)
    PROVE  FromDigits(Digits(n, b, k), b) = n
<1> DEFINE s == Digits(n, b, k)
           v == ValueFcn(s, b)
           P(i) == Power(b, i)
           Bad == {i \in Nat : i <= k /\ v[i] # n \div P(k - i)}
<1>1. s \in Seq(Nat) /\ Len(s) = k /\ \A i \in 1..k : s[i] = (n \div P(k - i)) % b
  BY DigitsAre
<1> HIDE DEF s
<1>2. FromDigits(s, b) = v[k] /\ v[0] = 0 /\ \A i \in 1..k : v[i] = v[i - 1] * b + s[i]
  BY <1>1, ValueSteps
<1>3. P(0) = 1 /\ \A i \in Nat : P(i) \in Nat /\ P(i) > 0 /\ P(i + 1) = b * P(i)
  BY PowerSteps
<1>4. n < P(k)
  OBVIOUS
<1> HIDE DEF v, P
<1>5. Bad = {}
  <2> SUFFICES ASSUME Bad # {} PROVE FALSE
    OBVIOUS
  <2>1. PICK i \in Bad : \A m \in Bad : i <= m
    BY Least
  <2>2. i # 0
    <3> DEFINE x == P(k)
    <3>1. x \in Nat /\ x > 0 /\ n < x
      BY <1>3, <1>4
    <3> HIDE DEF x
    <3>2. n = x * 0 + n /\ 0 \in Nat
      BY <3>1
    <3>3. n \div x = 0
      BY <3>1, <3>2, DivUnique
    <3>4. k - 0 = k
      OBVIOUS
    <3> QED BY <1>2, <2>1, <3>3, <3>4 DEF x
  <2>3. i \in 1..k /\ i - 1 \in Nat /\ i - 1 \notin Bad /\ k - i \in Nat /\ k - (i - 1) = (k - i) + 1
    BY <2>1, <2>2
  <2> DEFINE x == P(k - i)
             y == n \div x
  <2>4. x \in Nat /\ x > 0 /\ P(k - (i - 1)) = b * x
    BY <1>3, <2>3
  <2>5. v[i - 1] = n \div (b * x)
    BY <2>3, <2>4
  <2> HIDE DEF x
  <2>6. y \in Nat
    BY <2>4, DivMod
  <2>7. y \div b = n \div (b * x)
    BY <2>4, DivDiv
  <2>8. s[i] = y % b /\ v[i] = v[i - 1] * b + s[i]
    BY <1>1, <1>2, <2>3 DEF x
  <2> HIDE DEF y
  <2>9. y = b * (y \div b) + (y % b) /\ y \div b \in Nat
    BY <2>6, DivMod
  <2>10. v[i] = y
    BY <2>5, <2>7, <2>8, <2>9
  <2> QED BY <2>1, <2>10 DEF x, y
<1>6. v[k] = n \div P(k - k)
  BY <1>5
<1>7. k - k = 0
  OBVIOUS
<1>8. n \div 1 = n
  OBVIOUS
<1> QED BY <1>2, <1>3, <1>6, <1>7, <1>8 DEF s

(* Digits are the digits of their value. *)
LEMMA ValueDigits ==
    ASSUME NEW b \in Nat, b > 0, NEW s \in Seq(0..(b - 1))
    PROVE  /\ FromDigits(s, b) \in Nat /\ FromDigits(s, b) < Power(b, Len(s))
           /\ Digits(FromDigits(s, b), b, Len(s)) = s
<1> DEFINE v == ValueFcn(s, b)
           k == Len(s)
           n == v[k]
           P(i) == Power(b, i)
<1>1. s \in Seq(Nat) /\ k \in Nat /\ DOMAIN s = 1..k /\ \A i \in 1..k : s[i] \in Nat /\ s[i] < b
  OBVIOUS
<1>2. FromDigits(s, b) = n /\ v[0] = 0 /\ (\A i \in 1..k : v[i] = v[i - 1] * b + s[i]) /\ \A i \in 0..k : v[i] \in Nat
  BY <1>1, ValueSteps
<1>3. P(0) = 1 /\ \A i \in Nat : P(i) \in Nat /\ P(i) > 0 /\ P(i + 1) = b * P(i)
  BY PowerSteps
<1> HIDE DEF v, P, k
<1>4. n \in Nat
  BY <1>1, <1>2
<1> DEFINE Bad == {j \in Nat : j <= k /\ v[k - j] # n \div P(j)}
<1>5. ASSUME NEW i \in 1..k PROVE v[i] \div b = v[i - 1] /\ v[i] % b = s[i]
  <2> DEFINE x == v[i]
             y == v[i - 1]
             z == s[i]
  <2>0. i \in 0..k /\ i - 1 \in 0..k
    BY <1>1
  <2>1. x = y * b + z /\ x \in Nat /\ y \in Nat /\ z \in Nat /\ z < b
    BY <1>1, <1>2, <2>0
  <2> HIDE DEF x, y, z
  <2>3. x = b * y + z
    BY <2>1
  <2>2. x \div b = y /\ x % b = z
    BY <2>1, <2>3, DivUnique
  <2> QED BY <2>2 DEF x, y, z
<1>6. Bad = {}
  <2> HIDE DEF n
  <2> SUFFICES ASSUME Bad # {} PROVE FALSE
    OBVIOUS
  <2>1. PICK j \in Bad : \A m \in Bad : j <= m
    BY Least
  <2>2. j # 0
    <3>1. k - 0 = k /\ n \div 1 = n
      BY <1>1, <1>4
    <3> QED BY <1>3, <2>1, <3>1 DEF n
  <2>3. PICK i \in Nat : j = i + 1 /\ i \notin Bad /\ k - i \in 1..k /\ k - j = (k - i) - 1
    <3>1. j - 1 \in Nat /\ j = (j - 1) + 1 /\ j - 1 \notin Bad /\ k - (j - 1) \in 1..k /\ k - j = (k - (j - 1)) - 1
      BY <1>1, <2>1, <2>2
    <3> QED BY <3>1
  <2>4. v[k - i] = n \div P(i)
    BY <1>1, <2>1, <2>3
  <2>5. v[k - j] = v[k - i] \div b
    BY <1>5, <2>3
  <2> DEFINE x == P(i)
  <2>6. x \in Nat /\ x > 0 /\ P(j) = b * x
    BY <1>3, <2>3
  <2> HIDE DEF x
  <2>7. (n \div x) \div b = n \div (b * x)
    BY <1>4, <2>6, DivDiv
  <2> QED BY <2>1, <2>4, <2>5, <2>6, <2>7 DEF x
<1>7. n < P(k)
  <2> HIDE DEF n
  <2>1. v[k - k] = n \div P(k) /\ k - k = 0
    BY <1>1, <1>6
  <2> DEFINE x == P(k)
  <2>2. x \in Nat /\ x > 0 /\ n \div x = 0
    BY <1>1, <1>2, <1>3, <2>1
  <2> HIDE DEF x
  <2>3. n = x * (n \div x) + (n % x) /\ n % x \in Nat /\ n % x < x
    BY <1>4, <2>2, DivMod
  <2>4. n < x
    BY <1>4, <2>2, <2>3
  <2> QED BY <2>4 DEF x
<1> DEFINE d == Digits(n, b, k)
<1>8. d \in Seq(Nat) /\ Len(d) = k /\ \A i \in 1..k : d[i] = (n \div P(k - i)) % b
  <2> HIDE DEF n
  <2> QED BY <1>1, <1>4, DigitsAre DEF P
<1> HIDE DEF d, n
<1>9. ASSUME NEW i \in 1..k PROVE d[i] = s[i]
  <2>1. k - i \in Nat /\ k - i <= k /\ k - (k - i) = i
    BY <1>1
  <2>2. v[i] = n \div P(k - i)
    BY <1>6, <2>1
  <2> QED BY <1>5, <1>8, <2>2
<1>10. d = s
  BY <1>1, <1>8, <1>9, SeqEqual DEF k
<1> QED BY <1>2, <1>4, <1>7, <1>10 DEF d, k, P

-----------------------------------------------------------------------------
(* Byte strings *)

(* Bytes is as many digits as the number needs, and no more. *)
LEMMA BytesAre ==
    ASSUME NEW n \in Nat
    PROVE  \E k \in Nat : /\ n < Power(Base, k) /\ \A j \in 0..(k - 1) : n >= Power(Base, j)
                          /\ Bytes(n) = Digits(n, Base, k)
<1> DEFINE P(k) == Power(Base, k)
           Good == {k \in Nat : n < P(k)}
           Size(k) == n < P(k) /\ \A j \in 0..(k - 1) : n >= P(j)
<1>1. Base \in Nat /\ Base > 1 /\ Base > 0
  BY BaseAssumption
<1>2. n < P(n) /\ \A k \in Nat : P(k) \in Nat
  BY <1>1, PowerGrows, PowerSteps
<1> HIDE DEF P
<1>3. n \in Good
  BY <1>2
<1>4. PICK k \in Good : \A m \in Good : k <= m
  BY <1>3, Least
<1>5. k \in 0..n
  BY <1>3, <1>4
<1>6. ASSUME NEW j \in 0..(k - 1) PROVE n >= P(j)
  <2>1. j \in Nat /\ ~(k <= j)
    BY <1>5
  <2>2. j \notin Good /\ P(j) \in Nat
    BY <1>2, <1>4, <2>1
  <2> QED BY <2>1, <2>2
<1>7. Size(k)
  BY <1>4, <1>6
<1> DEFINE size == CHOOSE i \in 0..n : Size(i)
<1>8. size \in 0..n /\ Size(size)
  BY <1>5, <1>7
<1>9. Bytes(n) = Digits(n, Base, size)
  BY DEF Bytes, P
<1> HIDE DEF size
<1> QED BY <1>8, <1>9 DEF P

(* SetBytes inverts Bytes. *)
LEMMA BytesValue ==
    ASSUME NEW n \in Nat
    PROVE  SetBytes(Bytes(n)) = n /\ Bytes(n) \in Seq(Nat)
<1>1. Base \in Nat /\ Base > 0
  BY BaseAssumption
<1>2. PICK k \in Nat : n < Power(Base, k) /\ Bytes(n) = Digits(n, Base, k)
  BY BytesAre
<1>3. FromDigits(Digits(n, Base, k), Base) = n /\ Digits(n, Base, k) \in Seq(Nat)
  BY <1>1, <1>2, DigitsValue, DigitsAre
<1> QED BY <1>2, <1>3 DEF SetBytes

(* padByteSlice puts the leading zeros back. *)
LEMMA PadBytes ==
    ASSUME NEW n \in Nat, NEW length \in Nat, n < Power(Base, length)
    PROVE  padByteSlice(Bytes(n), length) = Digits(n, Base, length)
<1> DEFINE P(k) == Power(Base, k)
<1>1. Base \in Nat /\ Base > 1 /\ Base > 0
  BY BaseAssumption
<1>2. PICK k \in Nat : n < P(k) /\ (\A j \in 0..(k - 1) : n >= P(j)) /\ Bytes(n) = Digits(n, Base, k)
  BY BytesAre
<1>3. \A i \in Nat : P(i) \in Nat /\ P(i) > 0
  BY <1>1, PowerSteps
<1>4. \A i \in Nat : \A j \in 0..i : P(j) <= P(i)
  BY <1>1, PowerGrows
<1>5. n < P(length)
  OBVIOUS
<1> DEFINE s == Bytes(n)
           d == Digits(n, Base, length)
           z == length - k
           pad == [i \in 1..z |-> 0]
<1>6. s \in Seq(Nat) /\ Len(s) = k /\ \A i \in 1..k : s[i] = (n \div P(k - i)) % Base
  <2> DEFINE t == Digits(n, Base, k)
  <2>1. t \in Seq(Nat) /\ Len(t) = k /\ \A i \in 1..k : t[i] = (n \div P(k - i)) % Base
    BY <1>1, DigitsAre
  <2>2. s = t
    BY <1>2
  <2> HIDE DEF s, t
  <2> QED BY <2>1, <2>2
<1>7. d \in Seq(Nat) /\ Len(d) = length /\ \A i \in 1..length : d[i] = (n \div P(length - i)) % Base
  BY <1>1, DigitsAre
<1> HIDE DEF P
<1>8. k <= length
  <2> SUFFICES ASSUME ~(k <= length) PROVE FALSE
    OBVIOUS
  <2>1. length \in 0..(k - 1)
    OBVIOUS
  <2> QED BY <1>2, <1>3, <1>5, <2>1
<1>9. z \in Nat
  BY <1>8
<1>10. pad \in Seq(Nat) /\ Len(pad) = z /\ \A i \in 1..z : pad[i] = 0
  <2> HIDE DEF z
  <2>1. pad \in [1..z -> Nat]
    OBVIOUS
  <2> QED BY <1>9, <2>1
<1>11. padByteSlice(s, length) = pad \o s
  <2>1. length > k \/ length = k
    BY <1>8
  <2>2. (IF length > Len(s) THEN length - Len(s) ELSE 0) = z
    BY <1>6, <2>1
  <2> HIDE DEF z, s
  <2> QED BY <2>2 DEF padByteSlice
<1> HIDE DEF s, d, pad
<1>12. pad \o s \in Seq(Nat) /\ Len(pad \o s) = length
  BY <1>6, <1>8, <1>9, <1>10
<1>13. ASSUME NEW i \in 1..length PROVE (pad \o s)[i] = d[i]
  <2>1. CASE i <= z
    <3>1. (pad \o s)[i] = 0
      <4>1. i \in 1..Len(pad) /\ i \in 1..z
        BY <1>9, <1>10, <2>1
      <4>2. (pad \o s)[i] = pad[i]
        BY <1>6, <1>10, <4>1
      <4> QED BY <1>10, <4>1, <4>2
    <3>2. length - i \in Nat /\ k \in 0..(length - i)
      BY <1>8, <2>1
    <3> DEFINE x == P(length - i)
    <3>3. x \in Nat /\ x > 0 /\ n < x
      BY <1>2, <1>3, <1>4, <3>2
    <3> HIDE DEF x
    <3>4. n = x * 0 + n /\ 0 \in Nat
      BY <3>3
    <3>5. n \div x = 0
      BY <3>3, <3>4, DivUnique
    <3>6. 0 % Base = 0
      BY <1>1
    <3> QED BY <1>7, <3>1, <3>5, <3>6 DEF x
  <2>2. CASE i > z
    <3>1. i - z \in 1..k /\ k - (i - z) = length - i
      BY <1>8, <1>9, <2>2
    <3>2. (pad \o s)[i] = s[i - z]
      <4>1. i > Len(pad) /\ i \in 1..(Len(pad) + Len(s))
        BY <1>6, <1>8, <1>9, <1>10, <2>2, <3>1
      <4>2. (pad \o s)[i] = s[i - Len(pad)]
        BY <1>6, <1>10, <4>1
      <4> QED BY <1>10, <4>2
    <3> DEFINE j == i - z
    <3>3. s[j] = (n \div P(k - j)) % Base
      BY <1>6, <3>1
    <3> HIDE DEF j
    <3>4. s[j] = (n \div P(length - i)) % Base
      BY <3>1, <3>3 DEF j
    <3>5. (pad \o s)[i] = s[j]
      BY <3>2 DEF j
    <3>6. d[i] = (n \div P(length - i)) % Base
      BY <1>7
    <3> QED BY <3>4, <3>5, <3>6
  <2>3. i <= z \/ i > z
    BY <1>9
  <2> HIDE DEF z
  <2> QED BY <2>1, <2>2, <2>3
<1>14. pad \o s = d
  BY <1>7, <1>12, <1>13, SeqEqual
<1> QED BY <1>11, <1>14 DEF s, d

(* Bytes of a byte string loses its leading zeros, and padding to its      *)
(* length restores it.                                                     *)
LEMMA PadRestores ==
    ASSUME NEW s \in Seq(0..(Base - 1))
    PROVE  /\ SetBytes(s) \in Nat /\ SetBytes(s) < Power(Base, Len(s))
           /\ padByteSlice(Bytes(SetBytes(s)), Len(s)) = s
<1> DEFINE n == FromDigits(s, Base)
           k == Len(s)
<1>1. Base \in Nat /\ Base > 0 /\ k \in Nat
  BY BaseAssumption
<1>2. n \in Nat /\ n < Power(Base, k) /\ Digits(n, Base, k) = s
  BY <1>1, ValueDigits
<1> HIDE DEF n, k
<1>3. padByteSlice(Bytes(n), k) = s
  BY <1>1, <1>2, PadBytes
<1> QED BY <1>2, <1>3 DEF n, k, SetBytes

(* Padding changes the length of a number and not its value. *)
LEMMA PadValue ==
    ASSUME NEW n \in Nat, NEW length \in Nat, n < Power(Base, length)
    PROVE  /\ padByteSlice(Bytes(n), length) \in Seq(Nat)
           /\ Len(padByteSlice(Bytes(n), length)) = length
           /\ SetBytes(padByteSlice(Bytes(n), length)) = n
<1>1. Base \in Nat /\ Base > 0
  BY BaseAssumption
<1>2. FromDigits(Digits(n, Base, length), Base) = n
  BY <1>1, DigitsValue
<1>3. Digits(n, Base, length) \in Seq(Nat) /\ Len(Digits(n, Base, length)) = length
  BY <1>1, DigitsAre
<1>4. padByteSlice(Bytes(n), length) = Digits(n, Base, length)
  BY PadBytes
<1> QED BY <1>2, <1>3, <1>4 DEF SetBytes

-----------------------------------------------------------------------------
(* Words *)

(* A number below a product has a quotient below the other factor. *)
LEMMA DivBound ==
    ASSUME NEW n \in Nat, NEW d \in Nat, NEW m \in Nat, d > 0, n < d * m
    PROVE  n \div d \in Nat /\ n \div d < m
<1> DEFINE q == n \div d
           r == n % d
<1>1. q \in Nat /\ r \in Nat /\ n = d * q + r
  BY DivMod
<1> HIDE DEF q, r
<1>2. ~(m <= q)
  <2> SUFFICES ASSUME m <= q PROVE FALSE
    OBVIOUS
  <2>1. d * m <= d * q
    BY <1>1
  <2>2. d * m \in Nat /\ d * q \in Nat
    BY <1>1
  <2> QED BY <1>1, <2>1, <2>2
<1> QED BY <1>1, <1>2 DEF q

(* A function on 1..k is a sequence. *)
LEMMA FcnIsSeq ==
    ASSUME NEW S, NEW k \in Nat, NEW s \in [1..k -> S]
    PROVE  s \in Seq(S) /\ Len(s) = k /\ DOMAIN s = 1..k
OBVIOUS

SizesOK(u) == u \in Nat /\ u > 0 /\ u <= ByteBits /\ u \in Units

(* A size is at least one and has no more checksum bits than a byte. *)
LEMMA UnitIs ==
    ASSUME NEW u \in Units
    PROVE  SizesOK(u)
BY MnemonicAssumption DEF SizesOK

(* What encoding computes: the number, its words. *)
LEMMA WordsFit ==
    ASSUME NEW u, SizesOK(u), NEW n \in Nat, NEW c \in Nat, n < Power(Base, 4 * u), c < Power(2, u)
    PROVE  n * Power(2, u) + c \in Nat /\ n * Power(2, u) + c < Power(Power(2, WordBits), 3 * u)
<1> DEFINE T == Power(2, u)
           A == Power(Base, 4 * u)
<1>1. u \in Nat /\ WordBits \in Nat /\ ByteBits \in Nat /\ Base = Power(2, ByteBits) /\ 4 * ByteBits + 1 = 3 * WordBits
  BY MnemonicAssumption DEF SizesOK
<1>2. 2 \in Nat /\ 2 > 0 /\ 4 * u \in Nat /\ 3 * u \in Nat
  BY <1>1
<1>3. A = Power(2, ByteBits * (4 * u))
  BY <1>1, <1>2, PowerTimes
<1>4. Power(Power(2, WordBits), 3 * u) = Power(2, WordBits * (3 * u))
  BY <1>1, <1>2, PowerTimes
<1>5. WordBits * (3 * u) = ByteBits * (4 * u) + u
  <2>1. WordBits * (3 * u) = (3 * WordBits) * u /\ ByteBits * (4 * u) = (4 * ByteBits) * u
    BY <1>1
  <2>2. (4 * ByteBits + 1) * u = (4 * ByteBits) * u + u
    BY <1>1
  <2> QED BY <1>1, <2>1, <2>2
<1>6. ByteBits * (4 * u) \in Nat
  BY <1>1
<1>7. Power(2, ByteBits * (4 * u) + u) = A * T
  <2> DEFINE x == ByteBits * (4 * u)
  <2>1. x \in Nat
    BY <1>6
  <2> HIDE DEF x
  <2>2. Power(2, x + u) = Power(2, x) * Power(2, u)
    BY <1>1, <1>2, <2>1, PowerPlus
  <2> QED BY <1>3, <2>2 DEF x
<1>8. T \in Nat /\ A \in Nat /\ T > 0
  <2>1. T \in Nat /\ T > 0
    BY <1>1, <1>2, PowerSteps
  <2>2. A \in Nat
    BY <1>2, <1>3, <1>6, PowerSteps
  <2> QED BY <2>1, <2>2
<1>9. n < A /\ c < T
  OBVIOUS
<1> HIDE DEF A, T
<1>10. T * n + T <= T * A
  BY <1>8, <1>9, TimesLess
<1>11. T * n \in Nat /\ n * T = T * n /\ T * A \in Nat /\ T * A = A * T
  BY <1>8
<1>12. n * T + c \in Nat /\ n * T + c < A * T
  BY <1>8, <1>9, <1>10, <1>11
<1> QED BY <1>4, <1>5, <1>7, <1>12 DEF T

(* The first bits of the hash *)
LEMMA ChecksumFits ==
    ASSUME NEW u, SizesOK(u), NEW h \in Nat, h < Base
    PROVE  h \div Power(2, ByteBits - u) \in Nat /\ h \div Power(2, ByteBits - u) < Power(2, u)
<1> DEFINE d == Power(2, ByteBits - u)
           T == Power(2, u)
<1>1. u \in Nat /\ ByteBits \in Nat /\ ByteBits - u \in Nat /\ ByteBits = (ByteBits - u) + u /\ 2 \in Nat /\ 2 > 0
      /\ Base = Power(2, ByteBits)
  BY MnemonicAssumption DEF SizesOK
<1>2. Base = d * T
  <2> DEFINE m == ByteBits - u
  <2> HIDE DEF m
  <2>1. Power(2, m + u) = Power(2, m) * T
    BY <1>1, PowerPlus DEF m
  <2>2. Power(2, ByteBits) = Power(2, m + u)
    BY <1>1 DEF m
  <2> QED BY <1>1, <2>1, <2>2 DEF m
<1>3. d \in Nat /\ d > 0 /\ T \in Nat
  BY <1>1, PowerSteps
<1> HIDE DEF d, T
<1>4. h \div d \in Nat /\ h \div d < T
  BY <1>2, <1>3, DivBound
<1> QED BY <1>4 DEF d, T

(* The words of a list of positions, and back *)
LEMMA WordOf ==
    ASSUME NEW j \in Nat, j < Power(2, WordBits)
    PROVE  wordList[j + 1] \in Range(wordList) /\ SetWordList[wordList[j + 1]] = j
<1> DEFINE W == Power(2, WordBits)
           i == j + 1
           S == {x \in DOMAIN wordList : wordList[x] = wordList[i]}
<1>1. W \in Nat
  BY MnemonicAssumption, PowerSteps
<1>2. DOMAIN wordList = 1..W
  BY MnemonicAssumption
<1>3. \A x, y \in DOMAIN wordList : wordList[x] = wordList[y] => x = y
  BY MnemonicAssumption
<1> HIDE DEF W
<1>4. i \in DOMAIN wordList /\ i \in Nat /\ i - 1 = j
  BY <1>1, <1>2 DEF W
<1> HIDE DEF i
<1>5. S = {i}
  BY <1>3, <1>4
<1>6. Max(S) = i
  <2>1. \E x \in S : \A y \in S : x >= y
    BY <1>4, <1>5
  <2>2. Max(S) \in S
    <3> HIDE DEF S
    <3> QED BY <2>1 DEF Max
  <2> QED BY <1>5, <2>2
<1>7. wordList[i] \in Range(wordList)
  BY <1>4 DEF Range
<1> HIDE DEF S
<1>8. SetWordList[wordList[i]] = Max(S) - 1
  BY <1>7 DEF SetWordList, S
<1> QED BY <1>4, <1>6, <1>7, <1>8 DEF i

IsBackup(words, u, V) ==
    /\ Len(words) = 3 * u
    /\ IsMnemonicValid(words)
    /\ WordsValue(words) = V

(* NewMnemonic gives valid words whose number is the entropy and its       *)
(* checksum.                                                               *)
LEMMA WordsAre ==
    ASSUME NEW u, SizesOK(u), NEW V \in Nat, V < Power(Power(2, WordBits), 3 * u), NEW words,
           words = [i \in 1..(3 * u) |-> wordList[Digits(V, Power(2, WordBits), 3 * u)[i] + 1]]
    PROVE  IsBackup(words, u, V)
<1> DEFINE W == Power(2, WordBits)
           k == 3 * u
           D == Digits(V, W, k)
<1>1. u \in Nat /\ u \in Units /\ WordBits \in Nat
  BY MnemonicAssumption DEF SizesOK
<1>2. W \in Nat /\ W > 0 /\ k \in Nat /\ V < Power(W, k)
  BY <1>1, PowerSteps
<1>3. words = [i \in 1..k |-> wordList[D[i] + 1]]
  OBVIOUS
<1>4. k % 3 = 0 /\ k \div 3 = u
  BY <1>1
<1> HIDE DEF W, k
<1>5. D \in Seq(0..(W - 1)) /\ D \in Seq(Nat) /\ Len(D) = k /\ DOMAIN D = 1..k
  BY <1>2, DigitsAre
<1>6. FromDigits(D, W) = V
  BY <1>2, DigitsValue
<1> HIDE DEF D
<1>7. ASSUME NEW i \in 1..k PROVE D[i] \in Nat /\ D[i] < W
  <2> DEFINE S == 0..(W - 1)
  <2>0. D \in Seq(S) /\ i \in 1..Len(D)
    BY <1>5
  <2> HIDE DEF S
  <2>2. D[i] \in S
    BY <2>0, ElementOfSeq
  <2>1. D[i] \in 0..(W - 1)
    BY <2>2 DEF S
  <2> QED BY <1>2, <2>1
<1>8. ASSUME NEW i \in 1..k PROVE words[i] \in Range(wordList) /\ SetWordList[words[i]] = D[i]
  <2> DEFINE j == D[i]
  <2>1. j \in Nat /\ j < W /\ words[i] = wordList[j + 1]
    BY <1>3, <1>7
  <2> HIDE DEF j
  <2>2. wordList[j + 1] \in Range(wordList) /\ SetWordList[wordList[j + 1]] = j
    BY <2>1, WordOf DEF W
  <2> QED BY <2>1, <2>2 DEF j
<1>9. DOMAIN words = 1..k /\ Len(words) = k
  <2>1. words \in [1..k -> Range(wordList)]
    <3>1. DOMAIN words = 1..k /\ words = [i \in 1..k |-> words[i]]
      BY <1>3
    <3> QED BY <1>8, <3>1
  <2> DEFINE R == Range(wordList)
  <2> HIDE DEF R
  <2>2. words \in [1..k -> R]
    BY <2>1 DEF R
  <2> QED BY <1>2, <2>2, FcnIsSeq
<1>10. IsMnemonicValid(words)
  <2>1. splitMnemonicWords(words)
    BY <1>1, <1>4, <1>9 DEF splitMnemonicWords
  <2>2. Range(words) \subseteq Range(wordList)
    <3>1. \A x \in Range(words) : \E i \in DOMAIN words : x = words[i]
      BY DEF Range
    <3> QED BY <1>8, <1>9, <3>1
  <2> QED BY <2>1, <2>2 DEF IsMnemonicValid
<1>11. [i \in 1..Len(words) |-> SetWordList[words[i]]] = D
  <2> DEFINE X == [i \in 1..k |-> SetWordList[words[i]]]
  <2>1. DOMAIN X = 1..k /\ \A i \in 1..k : X[i] = D[i]
    BY <1>8
  <2>2. D = [i \in 1..k |-> D[i]]
    BY <1>5
  <2>3. X = D
    BY <1>8, <2>2
  <2> QED BY <1>9, <2>3
<1>12. WordsValue(words) = V
  BY <1>6, <1>11 DEF WordsValue, W
<1> QED BY <1>9, <1>10, <1>12 DEF IsBackup, k

(* EntropyFromMnemonic and MnemonicToByteArray take these words apart again. *)
LEMMA BackupRestores ==
    ASSUME NEW e \in Entropy
    PROVE  Restored(e)
<1>1. PICK u \in Units : e \in [1..(4 * u) -> 0..(Base - 1)]
  BY MnemonicAssumption
<1>2. SizesOK(u) /\ u \in Nat /\ u > 0 /\ u <= ByteBits /\ u \in Units
  BY UnitIs DEF SizesOK
<1>3. Base \in Nat /\ Base > 1 /\ ByteBits \in Nat /\ WordBits \in Nat
  BY BaseAssumption, MnemonicAssumption
<1> DEFINE k == 4 * u
           n == SetBytes(e)
           T == Power(2, u)
           h == Sha256(e)
           c == h \div Power(2, ByteBits - u)
           V == n * T + c
           words == NewMnemonic(e)
<1>4. k \in Nat /\ k % 4 = 0 /\ k \div 4 = u
  BY <1>2
<1>5. e \in Seq(0..(Base - 1)) /\ Len(e) = k
  <2> DEFINE S == 0..(Base - 1)
  <2>1. e \in [1..k -> S]
    BY <1>1
  <2> HIDE DEF S, k
  <2>2. e \in Seq(S) /\ Len(e) = k
    BY <1>4, <2>1, FcnIsSeq
  <2> QED BY <2>2 DEF S
<1>6. n \in Nat /\ n < Power(Base, k) /\ padByteSlice(Bytes(n), k) = e
  BY <1>5, PadRestores
<1>7. h \in Nat /\ h < Base
  <2>1. h \in 0..(Base - 1)
    BY MnemonicAssumption
  <2> QED BY <1>3, <2>1
<1>8. c \in Nat /\ c < T
  <2> HIDE DEF h
  <2> QED BY <1>2, <1>7, ChecksumFits
<1>9. T \in Nat /\ T > 0
  BY <1>2, PowerSteps
<1> HIDE DEF n, c
<1>10. V \in Nat /\ V < Power(Power(2, WordBits), 3 * u)
  BY <1>2, <1>6, <1>8, WordsFit
<1>11. addChecksum(e) = Bytes(V)
  BY <1>4, <1>5 DEF addChecksum, n, c
<1>12. V \div T = n /\ V % T = c
  <2>1. V = T * n + c
    BY <1>6, <1>8, <1>9
  <2> HIDE DEF V, T
  <2> QED BY <1>6, <1>8, <1>9, <1>10, <2>1, DivUnique DEF V
<1> HIDE DEF V, T, h
<1>13. SetBytes(addChecksum(e)) = V
  BY <1>10, <1>11, BytesValue
<1>14. words = [i \in 1..(3 * u) |-> wordList[Digits(V, Power(2, WordBits), 3 * u)[i] + 1]]
  <2>1. validateEntropyBitSize(e)
    BY <1>2, <1>4, <1>5 DEF validateEntropyBitSize
  <2>2. Len(e) \div 4 = u
    BY <1>4, <1>5
  <2> QED BY <1>13, <2>1, <2>2 DEF NewMnemonic
<1> HIDE DEF words
<1>15. Len(words) = 3 * u /\ IsMnemonicValid(words) /\ WordsValue(words) = V
  <2>1. IsBackup(words, u, V)
    BY <1>2, <1>10, <1>14, WordsAre
  <2> QED BY <2>1 DEF IsBackup
<1>16. (3 * u) \div 3 = u /\ u * 4 = k
  BY <1>2
<1>17. EntropyFromMnemonic(words) = e
  <2>1. EntropyBytes(V, u) = e
    BY <1>6, <1>12, <1>16 DEF EntropyBytes, T
  <2>2. V % Power(2, u) = Sha256(e) \div Power(2, ByteBits - u)
    BY <1>12 DEF T, c, h
  <2>3. Len(words) \div 3 = u
    BY <1>15, <1>16
  <2> QED BY <1>15, <2>1, <2>2, <2>3 DEF EntropyFromMnemonic
<1>18. MnemonicToByteArray(words) # <<>>
  <2> DEFINE bits == Len(words) * WordBits
             check == bits % (4 * ByteBits)
             full == ((bits - check) \div ByteBits) + 1
             size == full - (full % 4)
  <2>1. bits = (4 * ByteBits) * u + u
    <3>1. 4 * ByteBits + 1 = 3 * WordBits
      BY MnemonicAssumption
    <3>2. (3 * u) * WordBits = (3 * WordBits) * u
      BY <1>2, <1>3
    <3>3. (4 * ByteBits + 1) * u = (4 * ByteBits) * u + u
      BY <1>2, <1>3
    <3> QED BY <1>15, <3>1, <3>2, <3>3
  <2> HIDE DEF bits
  <2>2. check = u /\ bits \in Nat
    <3> DEFINE d == 4 * ByteBits
    <3>1. d \in Nat /\ d > 0 /\ u < d
      BY <1>2, <1>3
    <3>2. d * u \in Nat /\ bits = d * u + u
      BY <1>2, <1>3, <2>1
    <3> HIDE DEF d
    <3>3. bits \in Nat
      BY <1>2, <3>2
    <3>4. bits % d = u
      BY <1>2, <3>1, <3>2, <3>3, DivUnique
    <3> QED BY <3>3, <3>4 DEF d
  <2> HIDE DEF check
  <2>3. bits - check = ByteBits * (4 * u)
    <3>1. (4 * ByteBits) * u = ByteBits * (4 * u) /\ (4 * ByteBits) * u \in Nat
      BY <1>2, <1>3
    <3> QED BY <1>2, <2>1, <2>2, <3>1
  <2>4. (bits - check) \div ByteBits = k
    <3> DEFINE x == bits - check
    <3>1. x = ByteBits * k + 0 /\ x \in Nat /\ 0 \in Nat /\ ByteBits > 0
      BY <1>2, <1>3, <1>4, <2>3
    <3> HIDE DEF x, k
    <3>2. x \div ByteBits = k
      BY <1>3, <1>4, <3>1, DivUnique
    <3> QED BY <3>2 DEF x
  <2>5. full = k + 1
    BY <2>4
  <2>6. size = k
    BY <1>2, <2>5
  <2> HIDE DEF full, size
  <2>7. padByteSlice(Bytes(V \div Power(2, check)), size) = e
    BY <1>6, <1>12, <2>2, <2>6 DEF T
  <2>8. padByteSlice(Bytes(V), full) = padByteSlice(addChecksum(e), full)
    BY <1>11
  <2>9. MnemonicToByteArray(words) = padByteSlice(Bytes(V), full)
    BY <1>15, <2>7, <2>8 DEF MnemonicToByteArray, bits, check, full, size
  <2>10. padByteSlice(Bytes(V), full) # <<>>
    <3> DEFINE s == Bytes(V)
    <3>1. s \in Seq(Nat)
      BY <1>10, BytesValue
    <3>2. full \in Nat /\ full > 0
      BY <1>4, <2>5
    <3> HIDE DEF s
    <3>3. Len(padByteSlice(s, full)) > 0
      <4> DEFINE z == IF full > Len(s) THEN full - Len(s) ELSE 0
                 pad == [i \in 1..z |-> 0]
      <4>1. z \in Nat /\ z + Len(s) > 0
        BY <3>1, <3>2
      <4>2. padByteSlice(s, full) = pad \o s
        BY DEF padByteSlice
      <4> HIDE DEF z
      <4>3. pad \in [1..z -> Nat]
        OBVIOUS
      <4>4. pad \in Seq(Nat) /\ Len(pad) = z
        BY <4>1, <4>3
      <4> HIDE DEF pad
      <4> QED BY <3>1, <4>1, <4>2, <4>4
    <3>4. Len(<<>>) = 0
      OBVIOUS
    <3> QED BY <3>3, <3>4 DEF s
  <2> QED BY <2>9, <2>10
<1> QED BY <1>17, <1>18 DEF Restored, words

(* Every entropy comes back from its words. *)
LEMMA NoLostBackups == LostBackups = {}
BY BackupRestores DEF LostBackups

-----------------------------------------------------------------------------
(* Keys *)

(* One step of derivation below the account, on the number a key is. *)
ChildHash(v, c, i) == Hmac512(c, Append(<<v>>, i))
ChildNumber(v, c, i) == (ChildHash(v, c, i)[1] + v) % CurveN
Holds(key, v) == v \in 0..(CurveN - 1) /\ SetBytes(key) = v

(* The constants of the curve as numbers; a private key fits KeySize bytes. *)
LEMMA CurveIs ==
    /\ CurveN \in Nat /\ CurveN > 1 /\ KeySize \in Nat /\ HardenedKeyStart \in Nat /\ HardenedKeyStart > 1
    /\ \A v \in 0..(CurveN - 1) : v \in Nat /\ v < CurveN /\ v < Power(Base, KeySize)
<1>1. Power(Base, KeySize) \in Nat
  <2>1. Base \in Nat /\ Base > 0 /\ KeySize \in Nat
    BY BaseAssumption, CurveAssumption
  <2> QED BY <2>1, PowerSteps
<1> DEFINE P == Power(Base, KeySize)
<1>2. CurveN \in 2..P
  BY CurveAssumption
<1> HIDE DEF P
<1> QED BY <1>1, <1>2, CurveAssumption DEF P

(* A private key is not the invalid one, *)
LEMMA PrivateIs ==
    ASSUME NEW key, NEW c
    PROVE  PrivateKey(key, c) # InvalidKey
<1>1. PrivateKey(key, c).isPrivate = TRUE /\ InvalidKey.isPrivate = FALSE
  BY DEF PrivateKey, InvalidKey
<1> QED BY <1>1

(* nor is a public one. *)
LEMMA PublicIs ==
    ASSUME NEW v, NEW c
    PROVE  PublicKey(v, c) # InvalidKey
<1>1. PublicKey(v, c).key = <<v>> /\ InvalidKey.key = <<>> /\ <<v>> # <<>>
  BY DEF PublicKey, InvalidKey
<1> QED BY <1>1

(* A key is its own remainder, and a sum has one. *)
LEMMA ModIs ==
    ASSUME NEW x \in Nat, NEW v \in 0..(CurveN - 1)
    PROVE  v % CurveN = v /\ (x + v) % CurveN \in 0..(CurveN - 1)
BY CurveIs

(* The public key of a private one is the point of its number, however it  *)
(* is written.                                                             *)
LEMMA NeuterIs ==
    ASSUME NEW key, NEW v, Holds(key, v), NEW c
    PROVE  pubKeyBytes(PrivateKey(key, c)) = <<v>> /\ Neuter(PrivateKey(key, c)) = PublicKey(v, c)
<1>1. v % CurveN = v
  BY ModIs, 0 \in Nat DEF Holds
<1>2. pubKeyBytes(PrivateKey(key, c)) = <<v>>
  BY <1>1 DEF pubKeyBytes, Holds, PrivateKey
<1> DEFINE k == PrivateKey(key, c)
<1>3. k.isPrivate = TRUE /\ k.chainCode = c
  BY DEF PrivateKey
<1> HIDE DEF k
<1>4. Neuter(k) = PublicKey(pubKeyBytes(k)[1], c)
  BY <1>3 DEF Neuter
<1> QED BY <1>2, <1>4 DEF k

(* Bytes writes a key as its number. *)
LEMMA BytesHold ==
    ASSUME NEW v \in 0..(CurveN - 1)
    PROVE  Holds(Bytes(v), v)
BY BytesValue, CurveIs DEF Holds

(* Below an invalid key there are invalid keys only. *)
LEMMA InvalidStays ==
    ASSUME NEW i
    PROVE  Child(InvalidKey, i) = InvalidKey /\ Neuter(InvalidKey) = InvalidKey
BY DEF Child, Neuter, InvalidKey

(* Below the account, Child of a private key depends on its number only, *)
LEMMA ChildOfPrivate ==
    ASSUME NEW key, NEW v, Holds(key, v), NEW c, NEW i \in 0..(HardenedKeyStart - 1)
    PROVE  Child(PrivateKey(key, c), i) =
             IF Usable(ChildHash(v, c, i)[1])
             THEN PrivateKey(Bytes(ChildNumber(v, c, i)), ChildHash(v, c, i)[2])
             ELSE InvalidKey
<1> DEFINE k == PrivateKey(key, c)
<1>1. k # InvalidKey /\ k.isPrivate = TRUE /\ k.key = key /\ k.chainCode = c
  BY PrivateIs DEF PrivateKey
<1>2. ~(i >= HardenedKeyStart)
  BY CurveIs
<1>3. pubKeyBytes(k) = <<v>>
  BY NeuterIs
<1> HIDE DEF k
<1>4. Child(k, i) = IF Usable(ChildHash(v, c, i)[1])
                    THEN PrivateKey(Bytes((ChildHash(v, c, i)[1] + SetBytes(k.key)) % CurveN), ChildHash(v, c, i)[2])
                    ELSE InvalidKey
  BY <1>1, <1>2, <1>3 DEF Child, ChildHash
<1> QED BY <1>1, <1>4 DEF ChildNumber, Holds, k

(* and Child of its public key uses the same hash and adds the same number. *)
LEMMA ChildOfPublic ==
    ASSUME NEW v, NEW c, NEW i \in 0..(HardenedKeyStart - 1)
    PROVE  Child(PublicKey(v, c), i) =
             IF Usable(ChildHash(v, c, i)[1])
             THEN PublicKey(ChildNumber(v, c, i), ChildHash(v, c, i)[2])
             ELSE InvalidKey
<1> DEFINE k == PublicKey(v, c)
<1>1. k # InvalidKey /\ k.isPrivate = FALSE /\ k.key = <<v>> /\ k.chainCode = c
  BY PublicIs DEF PublicKey
<1>2. ~(i >= HardenedKeyStart)
  BY CurveIs
<1>3. pubKeyBytes(k) = <<v>> /\ <<v>>[1] = v
  BY <1>1 DEF pubKeyBytes
<1> HIDE DEF k
<1>4. Child(k, i) = IF Usable(ChildHash(v, c, i)[1])
                    THEN PublicKey((ChildHash(v, c, i)[1] + k.key[1]) % CurveN, ChildHash(v, c, i)[2])
                    ELSE InvalidKey
  BY <1>1, <1>2, <1>3 DEF Child, ChildHash
<1> QED BY <1>1, <1>3, <1>4 DEF ChildNumber, k

(* A child is a key again. *)
LEMMA ChildNumberIs ==
    ASSUME NEW v \in 0..(CurveN - 1), NEW c, NEW i, Usable(ChildHash(v, c, i)[1])
    PROVE  ChildNumber(v, c, i) \in 0..(CurveN - 1)
<1>1. ChildHash(v, c, i)[1] \in Nat
  BY CurveIs DEF Usable
<1> QED BY <1>1, ModIs DEF ChildNumber

(* Above the account too, whatever is hashed, a child is written by Bytes. *)
LEMMA ChildOfAny ==
    ASSUME NEW key, NEW c, NEW i, SetBytes(key) \in Nat, Child(PrivateKey(key, c), i) # InvalidKey
    PROVE  \E v \in 0..(CurveN - 1) : \E d : Child(PrivateKey(key, c), i) = PrivateKey(Bytes(v), d) /\ SetBytes(Bytes(v)) = v
<1> DEFINE k == PrivateKey(key, c)
           n == SetBytes(key)
           data == Append(IF i >= HardenedKeyStart THEN HardenedData(k) ELSE pubKeyBytes(k), i)
           h == Hmac512(c, data)
           v == (h[1] + n) % CurveN
<1>1. k # InvalidKey /\ k.isPrivate = TRUE /\ k.key = key /\ k.chainCode = c
  BY PrivateIs DEF PrivateKey
<1>2. Child(k, i) = IF Usable(h[1]) THEN PrivateKey(Bytes(v), h[2]) ELSE InvalidKey
  <2> HIDE DEF k
  <2> QED BY <1>1 DEF Child
<1> HIDE DEF h, k, n
<1>3. Usable(h[1])
  BY <1>2 DEF k
<1>4. h[1] \in Nat /\ n \in Nat /\ CurveN \in Nat /\ CurveN > 1
  BY <1>3, CurveIs DEF Usable, n
<1>5. v \in 0..(CurveN - 1)
  BY <1>4
<1> HIDE DEF v
<1>6. SetBytes(Bytes(v)) = v
  BY <1>5, BytesHold DEF Holds
<1> QED BY <1>2, <1>3, <1>5, <1>6 DEF k

(* The account key that is stored is a private key, and not zero. *)
LEMMA AccountKeys ==
    ASSUME NEW a \in Accounts
    PROVE  \E v \in 1..(CurveN - 1) : \E c : a = PrivateKey(Bytes(v), c)
<1>1. PICK r \in Roots : a = deriveAccountKey(r)
  BY DEF Accounts
<1>2. a # InvalidKey /\ SetBytes(a.key) # 0
  BY DEF Accounts
<1>3. PICK s \in [1..KeySize -> 0..(Base - 1)], c \in ChainCode : r = NewMaster(s, c) /\ r # InvalidKey
  BY DEF Roots
<1>4. r = PrivateKey(s, c) /\ SetBytes(s) \in Nat
  <2>1. Usable(SetBytes(s)) /\ r = PrivateKey(s, c)
    BY <1>3 DEF NewMaster
  <2> QED BY <2>1, CurveIs DEF Usable
<1> DEFINE k1 == Child(r, Purpose + HardenedKeyStart)
           k2 == Child(k1, Coin + HardenedKeyStart)
           k3 == Child(k2, Account + HardenedKeyStart)
<1>5. a = k3
  BY <1>1 DEF deriveAccountKey, deriveCoinTypeKey
<1>6. k3 # InvalidKey /\ k2 # InvalidKey /\ k1 # InvalidKey
  BY <1>2, <1>5, InvalidStays
<1>7. PICK v1, d1 : v1 \in 0..(CurveN - 1) /\ k1 = PrivateKey(Bytes(v1), d1) /\ SetBytes(Bytes(v1)) = v1
  <2> DEFINE i == Purpose + HardenedKeyStart
  <2>1. Child(PrivateKey(s, c), i) # InvalidKey
    BY <1>4, <1>6
  <2> HIDE DEF i
  <2> QED BY <1>4, <2>1, ChildOfAny DEF i
<1>8. PICK v2, d2 : v2 \in 0..(CurveN - 1) /\ k2 = PrivateKey(Bytes(v2), d2) /\ SetBytes(Bytes(v2)) = v2
  <2> DEFINE i == Coin + HardenedKeyStart
  <2>1. Child(PrivateKey(Bytes(v1), d1), i) # InvalidKey /\ SetBytes(Bytes(v1)) \in Nat
    BY <1>6, <1>7, CurveIs
  <2> HIDE DEF i, k1
  <2> QED BY <1>7, <2>1, ChildOfAny DEF i
<1>9. PICK v3, d3 : v3 \in 0..(CurveN - 1) /\ k3 = PrivateKey(Bytes(v3), d3) /\ SetBytes(Bytes(v3)) = v3
  <2> DEFINE i == Account + HardenedKeyStart
  <2>1. Child(PrivateKey(Bytes(v2), d2), i) # InvalidKey /\ SetBytes(Bytes(v2)) \in Nat
    BY <1>6, <1>8, CurveIs
  <2> HIDE DEF i, k2
  <2> QED BY <1>8, <2>1, ChildOfAny DEF i
<1> HIDE DEF k3
<1>10. a.key = Bytes(v3) /\ a = PrivateKey(Bytes(v3), d3)
  BY <1>5, <1>9 DEF PrivateKey
<1>11. v3 # 0 /\ v3 \in 1..(CurveN - 1)
  <2>1. v3 # 0
    BY <1>2, <1>9, <1>10
  <2> QED BY <1>9, <2>1, CurveIs
<1> QED BY <1>10, <1>11

(* String and NewKeyFromString keep the number of a private key and all    *)
(* of a public one.                                                        *)
LEMMA StoredKeys ==
    ASSUME NEW v \in 1..(CurveN - 1), NEW c
    PROVE  /\ \E key : Stored(PrivateKey(Bytes(v), c)) = PrivateKey(key, c) /\ Holds(key, v)
           /\ Stored(PublicKey(v, c)) = PublicKey(v, c)
<1> DEFINE p == paddedAppend(Bytes(v))
           J == [i \in 1..KeySize |-> Base - 1]
           read == SubSeq(p \o J, 1, KeySize)
<1>1. v \in 0..(CurveN - 1) /\ v \in Nat /\ v < Power(Base, KeySize) /\ KeySize \in Nat
  BY CurveIs
<1>2. p \in Seq(Nat) /\ Len(p) = KeySize /\ SetBytes(p) = v
  BY <1>1, PadValue DEF paddedAppend
<1>3. J \in Seq(Nat) /\ Len(J) = KeySize
  <2>1. Base - 1 \in Nat
    BY BaseAssumption
  <2>2. J \in [1..KeySize -> Nat]
    BY <2>1
  <2> HIDE DEF J
  <2> QED BY <1>1, <2>2
<1> HIDE DEF p, J
<1>4. read = p
  BY <1>1, <1>2, <1>3
<1> HIDE DEF read
<1>5. Bytes(v) # <<>>
  <2> SUFFICES ASSUME Bytes(v) = <<>> PROVE FALSE
    OBVIOUS
  <2>1. SetBytes(<<>>) = v
    BY <1>1, BytesValue
  <2>2. <<>> \in Seq(Nat) /\ Len(<<>>) = 0 /\ Base \in Nat
    BY BaseAssumption
  <2>3. FromDigits(<<>>, Base) = 0
    BY <2>2, ValueSteps
  <2> QED BY <1>1, <2>1, <2>3 DEF SetBytes
<1>6. Usable(v)
  BY DEF Usable
<1> DEFINE k == PrivateKey(Bytes(v), c)
<1>7. k # InvalidKey /\ k.isPrivate = TRUE /\ k.key = Bytes(v) /\ k.chainCode = c
  BY PrivateIs DEF PrivateKey
<1>8. Stored(k) = PrivateKey(p, c)
  <2> HIDE DEF k
  <2>1. Stored(k) = IF Usable(SetBytes(read)) THEN PrivateKey(read, c) ELSE InvalidKey
    BY <1>5, <1>7 DEF Stored, read, p, J
  <2> QED BY <1>2, <1>4, <1>6, <2>1
<1>9. Stored(PublicKey(v, c)) = PublicKey(v, c)
  <2> DEFINE q == PublicKey(v, c)
  <2>1. q # InvalidKey /\ q.isPrivate = FALSE /\ q.key # <<>>
    BY PublicIs DEF PublicKey
  <2> HIDE DEF q
  <2>2. Stored(q) = q
    BY <2>1 DEF Stored
  <2> QED BY <2>2 DEF q
<1> QED BY <1>1, <1>2, <1>8, <1>9 DEF Holds

(* Both ways down from an account meet: the signing key is the private     *)
(* one of the address.                                                     *)
LEMMA NoUnspendable == Unspendable = {}
<1> SUFFICES ASSUME NEW a \in Accounts, NEW branch \in {0, 1}, NEW i \in 0..(HardenedKeyStart - 1)
             PROVE  SignsFor(a, branch, i)
  BY DEF Unspendable
<1>1. PICK v, c : v \in 1..(CurveN - 1) /\ a = PrivateKey(Bytes(v), c)
  BY AccountKeys
<1>2. PICK key : Stored(a) = PrivateKey(key, c) /\ Holds(key, v)
  BY <1>1, StoredKeys
<1>3. v \in 0..(CurveN - 1) /\ branch \in 0..(HardenedKeyStart - 1)
  BY <1>1, CurveIs
<1>4. Holds(Bytes(v), v)
  BY <1>3, BytesHold
<1>5. Neuter(a) = PublicKey(v, c) /\ Stored(Neuter(a)) = PublicKey(v, c)
  BY <1>1, <1>4, NeuterIs, StoredKeys
<1> DEFINE h == ChildHash(v, c, branch)
           w == ChildNumber(v, c, branch)
           signing == SigningKey(a, branch, i)
           address == AddressKey(a, branch, i)
           imported == ImportedKey(a, branch, i)
<1>6. /\ Child(PrivateKey(key, c), branch) = IF Usable(h[1]) THEN PrivateKey(Bytes(w), h[2]) ELSE InvalidKey
      /\ Child(a, branch) = IF Usable(h[1]) THEN PrivateKey(Bytes(w), h[2]) ELSE InvalidKey
      /\ Child(PublicKey(v, c), branch) = IF Usable(h[1]) THEN PublicKey(w, h[2]) ELSE InvalidKey
  BY <1>1, <1>2, <1>3, <1>4, ChildOfPrivate, ChildOfPublic
<1>7. CASE ~Usable(h[1])
  <2> HIDE DEF h, w
  <2>1. signing = InvalidKey /\ address = InvalidKey /\ imported = InvalidKey
    BY <1>2, <1>5, <1>6, <1>7, InvalidStays DEF SigningKey, AddressKey, ImportedKey
  <2> QED BY <2>1 DEF SignsFor
<1>8. CASE Usable(h[1])
  <2>1. w \in 0..(CurveN - 1)
    BY <1>3, <1>8, ChildNumberIs
  <2> HIDE DEF h, w
  <2>2. Holds(Bytes(w), w)
    BY <2>1, BytesHold
  <2>3. Neuter(PrivateKey(Bytes(w), h[2])) = PublicKey(w, h[2])
    BY <2>2, NeuterIs
  <2> DEFINE g == ChildHash(w, h[2], i)
             x == ChildNumber(w, h[2], i)
  <2>4. signing = IF Usable(g[1]) THEN PrivateKey(Bytes(x), g[2]) ELSE InvalidKey
    <3>1. signing = Child(PrivateKey(Bytes(w), h[2]), i)
      BY <1>2, <1>6, <1>8 DEF SigningKey
    <3> QED BY <2>2, <3>1, ChildOfPrivate
  <2>5. Child(PublicKey(w, h[2]), i) = IF Usable(g[1]) THEN PublicKey(x, g[2]) ELSE InvalidKey
    BY ChildOfPublic
  <2>6. address = Child(PublicKey(w, h[2]), i) /\ imported = Child(PublicKey(w, h[2]), i)
    BY <1>5, <1>6, <1>8, <2>3 DEF AddressKey, ImportedKey
  <2>7. CASE ~Usable(g[1])
    <3> HIDE DEF g, x
    <3> QED BY <2>4, <2>5, <2>6, <2>7 DEF SignsFor
  <2>8. CASE Usable(g[1])
    <3>1. x \in 0..(CurveN - 1)
      BY <2>1, <2>8, ChildNumberIs
    <3> HIDE DEF g, x
    <3>2. Neuter(PrivateKey(Bytes(x), g[2])) = PublicKey(x, g[2])
      BY <3>1, BytesHold, NeuterIs
    <3>3. signing # InvalidKey
      BY <2>4, <2>8, PrivateIs
    <3> QED BY <2>4, <2>5, <2>6, <2>8, <3>2, <3>3 DEF SignsFor
  <2> QED BY <2>7, <2>8
<1> QED BY <1>7, <1>8

(* Once a wallet is stored, its words give its entropy back: for every     *)
(* entropy, with or without leading zero bytes, EntropyFromMnemonic        *)
(* inverts NewMnemonic and NewSeedWithErrorChecking accepts the words.     *)
THEOREM BackupsRestore == Spec => []MnemonicRestores
<1>1. MnemonicRestores
  BY NoLostBackups DEF MnemonicRestores
<1> QED BY <1>1, PTL

(* Once a keystore is unlocked, getPrivKeyBtcec derives the key of every   *)
(* address that nextAddresses and createManagerKeyScope derive, although   *)
(* the account key was stored and read back in between and Child writes    *)
(* private keys without their leading zero bytes.                          *)
THEOREM KeysSign == Spec => []SigningKeyOfAddress
<1>1. SigningKeyOfAddress
  BY NoUnspendable DEF SigningKeyOfAddress
<1> QED BY <1>1, PTL
=============================================================================
