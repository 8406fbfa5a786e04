------------------------------ MODULE KeyProofs ------------------------------
(* The flat keys of the wallet database can be read back: whatever bytes  *)
(* names, keys and values have, a legal bucket's keys are those of no      *)
(* other bucket, its scans find its own entries and children only, and the *)
(* range of an iterator over it is the range of its prefix.                *)
EXTENDS BucketKeys, SequenceTheorems, WellFoundedInduction, TLAPS

(* A non-empty set of numbers has a least element. *)
LEMMA Least ==
    ASSUME NEW T \in SUBSET Nat, T # {}
    PROVE  \E x \in T : \A y \in T : x <= y
<1> DEFINE R == OpToRel(<, Nat)
<1>1. IsWellFoundedOn(R, Nat)
  BY NatLessThanWellFounded
<1>2. PICK x \in T : \A y \in T : ~(<<y, x>> \in R)
  <2> HIDE DEF R
  <2> QED
    BY <1>1, WFMin
<1>3. \A y \in T : ~(y < x)
  BY <1>2 DEF OpToRel
<1> QED
  BY <1>3

-----------------------------------------------------------------------------
(* What joinBucketPath computes: the string after each name.               *)

After(arr) == CHOOSE f : f = [i \in 1..Len(arr) |-> IF i = 1 THEN arr[1] ELSE f[i - 1] \o <<Sep>> \o arr[i]]

(* The joined string is the one after the last name. *)
LEMMA JoinIsLast == \A arr : joinBucketPath(arr) = After(arr)[Len(arr)]
BY DEF joinBucketPath, After

(* The recursion has a solution. *)
LEMMA AfterIs ==
    ASSUME NEW arr \in Seq(ByteString)
    PROVE  After(arr) = [i \in 1..Len(arr) |-> IF i = 1 THEN arr[1] ELSE After(arr)[i - 1] \o <<Sep>> \o arr[i]]
<1> DEFINE Solves(f, n) == f = [i \in 1..n |-> IF i = 1 THEN arr[1] ELSE f[i - 1] \o <<Sep>> \o arr[i]]
           Bad == {n \in Nat : ~ \E f : Solves(f, n)}
<1>1. \E f : Solves(f, 0)
  <2>1. Solves([i \in {} |-> arr], 0)
    OBVIOUS
  <2> QED
    BY <2>1
<1>2. ASSUME NEW n \in Nat, NEW f, Solves(f, n)
      PROVE  \E g : Solves(g, n + 1)
  <2> DEFINE v == IF n = 0 THEN arr[1] ELSE f[n] \o <<Sep>> \o arr[n + 1]
             g == [i \in 1..(n + 1) |-> IF i <= n THEN f[i] ELSE v]
  <2>1. \A i \in 1..n : g[i] = f[i]
    OBVIOUS
  <2>2. g[n + 1] = v
    OBVIOUS
  <2>3. \A i \in 1..n : f[i] = IF i = 1 THEN arr[1] ELSE f[i - 1] \o <<Sep>> \o arr[i]
    BY <1>2
  <2>4. DOMAIN g = 1..(n + 1) /\ g = [i \in DOMAIN g |-> g[i]]
    OBVIOUS
  <2> HIDE DEF g
  <2>5. \A i \in 1..(n + 1) : g[i] = IF i = 1 THEN arr[1] ELSE g[i - 1] \o <<Sep>> \o arr[i]
    <3> TAKE i \in 1..(n + 1)
    <3>1. CASE i <= n
      BY <2>1, <2>3, <3>1
    <3>2. CASE i = n + 1
      BY <2>1, <2>2, <3>2
    <3> QED
      BY <3>1, <3>2
  <2>6. Solves(g, n + 1)
    BY <2>4, <2>5
  <2> QED
    BY <2>6
<1>3. Bad = {}
  <2> HIDE DEF Solves
  <2> SUFFICES ASSUME Bad # {} PROVE FALSE
    OBVIOUS
  <2>1. PICK n \in Bad : \A m \in Bad : n <= m
    BY Least
  <2>2. n # 0 /\ n - 1 \in Nat /\ n - 1 \notin Bad
    BY <2>1, <1>1
  <2>3. PICK f : Solves(f, n - 1)
    BY <2>2
  <2>4. \E g : Solves(g, (n - 1) + 1)
    BY <2>2, <2>3, <1>2
  <2> QED
    BY <2>1, <2>2, <2>4
<1>4. \E f : Solves(f, Len(arr))
  <2> HIDE DEF Solves
  <2>1. Len(arr) \in Nat
    OBVIOUS
  <2> QED
    BY <1>3, <2>1
<1> QED
  BY <1>4 DEF After

(* One name more. *)
With(s, x) == s \o <<Sep>> \o x

(* The bytes of s, a separator, the bytes of x. *)
LEMMA WithIs ==
    ASSUME NEW s \in ByteString, NEW x \in ByteString
    PROVE  /\ With(s, x) \in ByteString
           /\ Len(With(s, x)) = Len(s) + 1 + Len(x)
           /\ \A i \in 1..Len(s) : With(s, x)[i] = s[i]
           /\ With(s, x)[Len(s) + 1] = Sep
           /\ \A i \in 1..Len(x) : With(s, x)[Len(s) + 1 + i] = x[i]
<1>1. With(s, x) \in ByteString
  BY DEF With, ByteString, Sep
<1>2. Len(With(s, x)) = Len(s) + 1 + Len(x)
  BY DEF With, ByteString
<1>3. \A i \in 1..Len(s) : With(s, x)[i] = s[i]
  BY DEF With, ByteString
<1>4. With(s, x)[Len(s) + 1] = Sep
  BY DEF With, ByteString
<1>5. \A i \in 1..Len(x) : With(s, x)[Len(s) + 1 + i] = x[i]
  BY DEF With, ByteString
<1> QED
  BY <1>1, <1>2, <1>3, <1>4, <1>5

(* The strings after the first name and after each further one. *)
LEMMA AfterSteps ==
    ASSUME NEW arr \in Seq(ByteString), arr # <<>>
    PROVE  /\ Len(arr) \in Nat \ {0}
           /\ After(arr)[1] = arr[1]
           /\ \A i \in 2..Len(arr) : After(arr)[i] = With(After(arr)[i - 1], arr[i])
           /\ \A i \in 1..Len(arr) : arr[i] \in ByteString /\ After(arr)[i] \in ByteString
<1>1. Len(arr) \in Nat \ {0} /\ \A i \in 1..Len(arr) : arr[i] \in ByteString
  OBVIOUS
<1>2. \A i \in 1..Len(arr) : After(arr)[i] = IF i = 1 THEN arr[1] ELSE After(arr)[i - 1] \o <<Sep>> \o arr[i]
  <2> DEFINE A == After(arr)
  <2>1. A = [i \in 1..Len(arr) |-> IF i = 1 THEN arr[1] ELSE A[i - 1] \o <<Sep>> \o arr[i]]
    BY AfterIs
  <2> HIDE DEF A
  <2>2. \A i \in 1..Len(arr) : A[i] = IF i = 1 THEN arr[1] ELSE A[i - 1] \o <<Sep>> \o arr[i]
    BY <2>1
  <2> QED
    BY <2>2 DEF A
<1>3. After(arr)[1] = arr[1] /\ \A i \in 2..Len(arr) : After(arr)[i] = With(After(arr)[i - 1], arr[i])
  <2>1. After(arr)[1] = arr[1]
    BY <1>1, <1>2
  <2>2. ASSUME NEW i \in 2..Len(arr)
        PROVE  After(arr)[i] = With(After(arr)[i - 1], arr[i])
    <3>1. i \in 1..Len(arr) /\ i # 1
      BY <1>1
    <3> QED
      BY <1>2, <3>1, Zenon DEF With
  <2> QED
    BY <2>1, <2>2
<1>4. \A i \in 1..Len(arr) : After(arr)[i] \in ByteString
  <2> DEFINE Bad == {i \in Nat : i \in 1..Len(arr) /\ After(arr)[i] \notin ByteString}
  <2> SUFFICES ASSUME Bad # {} PROVE FALSE
    BY <1>1
  <2>1. PICK i \in Bad : \A j \in Bad : i <= j
    BY Least
  <2>2. i # 1 /\ i \in 2..Len(arr) /\ i - 1 \in 1..Len(arr)
    BY <1>1, <1>3, <2>1
  <2>3. After(arr)[i - 1] \in ByteString
    BY <1>1, <2>1, <2>2
  <2> QED
    BY <1>1, <1>3, <2>1, <2>2, <2>3, WithIs
<1> QED
  BY <1>1, <1>3, <1>4

(* Each string continues the ones before it with a separator. *)
LEMMA AfterGrows ==
    ASSUME NEW arr \in Seq(ByteString), arr # <<>>,
           NEW i \in 1..Len(arr), NEW j \in 1..Len(arr), i <= j
    PROVE  /\ Len(After(arr)[i]) \in Nat /\ Len(After(arr)[j]) \in Nat
           /\ Len(After(arr)[i]) <= Len(After(arr)[j])
           /\ \A m \in 1..Len(After(arr)[i]) : After(arr)[j][m] = After(arr)[i][m]
           /\ i < j => /\ Len(After(arr)[i]) < Len(After(arr)[j])
                       /\ After(arr)[j][Len(After(arr)[i]) + 1] = Sep
<1> DEFINE A == After(arr)
           Continues(a, c) ==
               /\ Len(a) <= Len(c)
               /\ \A m \in 1..Len(a) : c[m] = a[m]
           Cut(a, c) == Len(a) < Len(c) /\ c[Len(a) + 1] = Sep
           Good(k) == Continues(A[i], A[k]) /\ (i < k => Cut(A[i], A[k]))
           Bad == {k \in Nat : k \in i..Len(arr) /\ ~Good(k)}
<1>1. /\ Len(arr) \in Nat \ {0}
      /\ \A k \in 2..Len(arr) : A[k] = With(A[k - 1], arr[k])
      /\ \A k \in 1..Len(arr) : arr[k] \in ByteString /\ A[k] \in ByteString
  BY AfterSteps
<1> HIDE DEF A
<1>2. \A a \in ByteString : Len(a) \in Nat
  BY DEF ByteString
<1>3. Good(i)
  BY <1>1, <1>2
<1>4. ASSUME NEW k \in i..(Len(arr) - 1), Good(k)
      PROVE  Good(k + 1)
  <2>1. k \in 1..Len(arr) /\ k + 1 \in 2..Len(arr) /\ (k + 1) - 1 = k /\ i \in 1..Len(arr)
    BY <1>1
  <2>2. A[k + 1] = With(A[k], arr[k + 1]) /\ A[k] \in ByteString /\ arr[k + 1] \in ByteString /\ A[i] \in ByteString
    BY <1>1, <2>1
  <2>3. Continues(A[k], A[k + 1]) /\ Cut(A[k], A[k + 1])
    <3> DEFINE a == A[k]
               x == arr[k + 1]
    <3>1. /\ Len(With(a, x)) = Len(a) + 1 + Len(x)
          /\ \A m \in 1..Len(a) : With(a, x)[m] = a[m]
          /\ With(a, x)[Len(a) + 1] = Sep
      BY <2>2, WithIs
    <3>2. Len(a) \in Nat /\ Len(x) \in Nat /\ A[k + 1] = With(a, x)
      BY <1>2, <2>2
    <3> HIDE DEF a, x
    <3>3. Continues(a, A[k + 1]) /\ Cut(a, A[k + 1])
      BY <3>1, <3>2
    <3> QED
      BY <3>3 DEF a
  <2>4. CASE i = k
    BY <2>3, <2>4
  <2>5. CASE i < k
    <3> DEFINE a == A[i]
               d == A[k]
               e == A[k + 1]
    <3>1. Len(a) \in Nat /\ Len(d) \in Nat /\ Len(e) \in Nat
      BY <1>1, <1>2, <2>1
    <3>2. Continues(a, d) /\ Cut(a, d) /\ Continues(d, e)
      BY <1>4, <2>3, <2>5
    <3> HIDE DEF a, d, e
    <3>3. Continues(a, e) /\ Cut(a, e)
      BY <3>1, <3>2
    <3> QED
      BY <3>3 DEF a, e
  <2> QED
    BY <2>1, <2>4, <2>5
<1>5. Bad = {}
  <2> HIDE DEF Good
  <2> SUFFICES ASSUME Bad # {} PROVE FALSE
    OBVIOUS
  <2>1. PICK k \in Bad : \A m \in Bad : k <= m
    BY Least
  <2>2. k # i /\ k - 1 \in i..(Len(arr) - 1) /\ k - 1 \notin Bad /\ k - 1 \in Nat /\ (k - 1) + 1 = k
    BY <1>1, <1>3, <2>1
  <2>3. Good(k - 1)
    BY <1>1, <2>2
  <2> QED
    BY <1>4, <2>1, <2>2, <2>3
<1>6. Good(j)
  <2> HIDE DEF Good
  <2>1. j \in Nat /\ j \in i..Len(arr)
    BY <1>1
  <2> QED
    BY <1>5, <2>1
<1> QED
  BY <1>1, <1>2, <1>6 DEF A

(* Appending a name leaves the strings before it alone. *)
LEMMA JoinAppend ==
    ASSUME NEW s \in Seq(ByteString), s # <<>>, NEW x \in ByteString
    PROVE  joinBucketPath(s \o <<x>>) = With(joinBucketPath(s), x)
<1> DEFINE t == s \o <<x>>
           Bad == {k \in Nat : k \in 1..Len(s) /\ After(t)[k] # After(s)[k]}
<1>1. t \in Seq(ByteString) /\ t # <<>> /\ Len(t) = Len(s) + 1 /\ t[Len(s) + 1] = x
      /\ \A k \in 1..Len(s) : t[k] = s[k]
  OBVIOUS
<1> HIDE DEF t
<1>2. /\ Len(s) \in Nat \ {0}
      /\ After(s)[1] = s[1]
      /\ \A i \in 2..Len(s) : After(s)[i] = With(After(s)[i - 1], s[i])
  BY AfterSteps
<1>3. /\ After(t)[1] = t[1]
      /\ \A i \in 2..Len(t) : After(t)[i] = With(After(t)[i - 1], t[i])
  BY <1>1, AfterSteps
<1>4. Bad = {}
  <2> SUFFICES ASSUME Bad # {} PROVE FALSE
    OBVIOUS
  <2>1. PICK k \in Bad : \A m \in Bad : k <= m
    BY Least
  <2>2. k # 1 /\ k \in 2..Len(s) /\ k \in 2..Len(t) /\ k - 1 \in Nat /\ k - 1 \in 1..Len(s) /\ t[k] = s[k]
    BY <1>1, <1>2, <1>3, <2>1
  <2>3. After(t)[k - 1] = After(s)[k - 1]
    BY <2>1, <2>2
  <2> QED
    BY <1>2, <1>3, <2>1, <2>2, <2>3
<1>5. After(t)[Len(s)] = After(s)[Len(s)]
  BY <1>2, <1>4
<1>6. After(t)[Len(t)] = With(After(t)[Len(s)], x)
  BY <1>1, <1>2, <1>3
<1>7. joinBucketPath(t) = After(t)[Len(t)] /\ joinBucketPath(s) = After(s)[Len(s)]
  BY JoinIsLast
<1> QED
  BY <1>5, <1>6, <1>7 DEF t

(* Joining two names. *)
LEMMA JoinTwo ==
    ASSUME NEW a \in ByteString, NEW x \in ByteString
    PROVE  joinBucketPath(<<a, x>>) = With(a, x)
<1> DEFINE t == <<a, x>>
<1>1. t \in Seq(ByteString) /\ t # <<>> /\ Len(t) = 2 /\ t[1] = a /\ t[2] = x
  OBVIOUS
<1> HIDE DEF t
<1>2. After(t)[1] = a /\ After(t)[2] = With(After(t)[2 - 1], x)
  BY <1>1, AfterSteps
<1>3. joinBucketPath(t) = After(t)[2]
  BY <1>1, JoinIsLast
<1> QED
  BY <1>2, <1>3 DEF t

-----------------------------------------------------------------------------
(* Names without a separator can be read back from the joined string.      *)

SepFree(x) == \A i \in 1..Len(x) : x[i] # Sep

Ends(arr, i) == Len(After(arr)[i])

(* Where each name ends, and the bytes it has there. *)
LEMMA EndsStep ==
    ASSUME NEW arr \in Seq(ByteString), arr # <<>>
    PROVE  /\ Len(arr) \in Nat \ {0}
           /\ \A i \in 1..Len(arr) : Ends(arr, i) \in Nat /\ Len(arr[i]) \in Nat
           /\ Ends(arr, 1) = Len(arr[1])
           /\ \A i \in 2..Len(arr) : Ends(arr, i) = Ends(arr, i - 1) + 1 + Len(arr[i])
           /\ \A j \in 1..Ends(arr, 1) : After(arr)[1][j] = arr[1][j]
           /\ \A i \in 2..Len(arr) : \A j \in 1..Len(arr[i]) :
                After(arr)[i][Ends(arr, i - 1) + 1 + j] = arr[i][j]
<1>1. /\ Len(arr) \in Nat \ {0}
      /\ After(arr)[1] = arr[1]
      /\ \A i \in 2..Len(arr) : After(arr)[i] = With(After(arr)[i - 1], arr[i])
      /\ \A i \in 1..Len(arr) : arr[i] \in ByteString /\ After(arr)[i] \in ByteString
  BY AfterSteps
<1>2. \A i \in 1..Len(arr) : Ends(arr, i) \in Nat /\ Len(arr[i]) \in Nat
  BY <1>1 DEF Ends, ByteString
<1>3. Ends(arr, 1) = Len(arr[1]) /\ \A j \in 1..Ends(arr, 1) : After(arr)[1][j] = arr[1][j]
  BY <1>1 DEF Ends
<1>4. ASSUME NEW i \in 2..Len(arr)
      PROVE  /\ Ends(arr, i) = Ends(arr, i - 1) + 1 + Len(arr[i])
             /\ \A j \in 1..Len(arr[i]) : After(arr)[i][Ends(arr, i - 1) + 1 + j] = arr[i][j]
  <2>1. i - 1 \in 1..Len(arr) /\ i \in 1..Len(arr)
    BY <1>1
  <2>2. After(arr)[i - 1] \in ByteString /\ arr[i] \in ByteString /\ After(arr)[i] = With(After(arr)[i - 1], arr[i])
    BY <1>1, <2>1
  <2> DEFINE a == After(arr)[i - 1]
             x == arr[i]
             w == After(arr)[i]
  <2>3. a \in ByteString /\ x \in ByteString /\ w = With(a, x)
    BY <2>2
  <2>4. Ends(arr, i) = Len(w) /\ Ends(arr, i - 1) = Len(a)
    BY DEF Ends
  <2> HIDE DEF a, x, w
  <2>5. Len(w) = Len(a) + 1 + Len(x) /\ \A j \in 1..Len(x) : w[Len(a) + 1 + j] = x[j]
    BY <2>3, WithIs
  <2> QED
    BY <2>4, <2>5 DEF w, x
<1> QED
  BY <1>1, <1>2, <1>3, <1>4

(* The separators that end the names of B do not come before the ends of   *)
(* the names of A, which have none inside.                                 *)
LEMMA LeftEnds ==
    ASSUME NEW A \in Seq(ByteString), A # <<>>, NEW B \in Seq(ByteString), B # <<>>,
           NEW c \in Nat, c <= Len(A), c <= Len(B), NEW S,
           \A i \in 1..c : SepFree(A[i]),
           \A i \in 1..c : \A j \in 1..Ends(A, i) : S[j] = After(A)[i][j],
           \A i \in 1..c : S[Ends(B, i) + 1] = Sep
    PROVE  \A i \in 1..c : Ends(A, i) <= Ends(B, i)
<1> DEFINE Bad == {i \in Nat : i \in 1..c /\ ~(Ends(A, i) <= Ends(B, i))}
<1>1. /\ Len(A) \in Nat /\ Len(B) \in Nat
      /\ \A i \in 1..c : Ends(A, i) \in Nat /\ Ends(B, i) \in Nat /\ Len(A[i]) \in Nat /\ Len(B[i]) \in Nat
      /\ Ends(A, 1) = Len(A[1])
      /\ \A i \in 2..c : Ends(A, i) = Ends(A, i - 1) + 1 + Len(A[i]) /\ Ends(B, i) = Ends(B, i - 1) + 1 + Len(B[i])
      /\ \A j \in 1..Ends(A, 1) : After(A)[1][j] = A[1][j]
      /\ \A i \in 2..c : \A j \in 1..Len(A[i]) : After(A)[i][Ends(A, i - 1) + 1 + j] = A[i][j]
  <2>1. Len(A) \in Nat \ {0} /\ Len(B) \in Nat \ {0}
    OBVIOUS
  <2>2. \A i \in 1..c : i \in 1..Len(A) /\ i \in 1..Len(B)
    BY <2>1
  <2>3. \A i \in 2..c : i \in 2..Len(A) /\ i \in 2..Len(B)
    BY <2>1
  <2>4. /\ \A i \in 1..Len(A) : Ends(A, i) \in Nat /\ Len(A[i]) \in Nat
        /\ Ends(A, 1) = Len(A[1])
        /\ \A i \in 2..Len(A) : Ends(A, i) = Ends(A, i - 1) + 1 + Len(A[i])
        /\ \A j \in 1..Ends(A, 1) : After(A)[1][j] = A[1][j]
        /\ \A i \in 2..Len(A) : \A j \in 1..Len(A[i]) : After(A)[i][Ends(A, i - 1) + 1 + j] = A[i][j]
    BY EndsStep
  <2>5. /\ \A i \in 1..Len(B) : Ends(B, i) \in Nat /\ Len(B[i]) \in Nat
        /\ \A i \in 2..Len(B) : Ends(B, i) = Ends(B, i - 1) + 1 + Len(B[i])
    BY EndsStep
  <2> QED
    BY <2>1, <2>2, <2>3, <2>4, <2>5
<1> SUFFICES ASSUME Bad # {} PROVE FALSE
  <2>1. \A i \in 1..c : i \in Nat
    OBVIOUS
  <2> QED
    BY <2>1
<1>2. PICK i \in Bad : \A k \in Bad : i <= k
  BY Least
<1> DEFINE pos == Ends(B, i) + 1
<1>3. i \in 1..c /\ pos \in 1..Ends(A, i)
  BY <1>1, <1>2
<1>4. After(A)[i][pos] = Sep
  BY <1>3
<1>5. CASE i = 1
  <2>1. A[1][pos] = Sep /\ pos \in 1..Len(A[1])
    BY <1>1, <1>3, <1>4, <1>5
  <2> QED
    BY <1>3, <1>5, <2>1 DEF SepFree
<1>6. CASE i # 1
  <2>1. i \in 2..c /\ i - 1 \in 1..c /\ i - 1 \in Nat
    BY <1>3, <1>6
  <2>2. Ends(A, i - 1) <= Ends(B, i - 1)
    BY <1>2, <2>1
  <2> DEFINE j == pos - Ends(A, i - 1) - 1
  <2>3. j \in 1..Len(A[i]) /\ pos = Ends(A, i - 1) + 1 + j
    <3> DEFINE a == Ends(A, i) o == Ends(A, i - 1) n == Len(A[i]) d == Ends(B, i) e == Ends(B, i - 1) m == Len(B[i])
    <3>1. a \in Nat /\ o \in Nat /\ n \in Nat /\ d \in Nat /\ e \in Nat /\ m \in Nat
      BY <1>1, <1>3, <2>1
    <3>2. a = o + 1 + n /\ d = e + 1 + m /\ o <= e /\ d + 1 <= a
      BY <1>1, <1>3, <2>1, <2>2
    <3> HIDE DEF a, o, n, d, e, m
    <3>3. (d + 1) - o - 1 \in 1..n /\ d + 1 = o + 1 + ((d + 1) - o - 1)
      BY <3>1, <3>2
    <3> QED
      BY <3>3 DEF a, o, n, d
  <2>4. A[i][j] = Sep
    <3> HIDE DEF j, pos
    <3> QED
      BY <1>1, <1>4, <2>1, <2>3
  <2> QED
    BY <1>3, <2>3, <2>4 DEF SepFree
<1> QED
  BY <1>5, <1>6

(* Nor after them, if both lists join to the same string. *)
LEMMA RightEnds ==
    ASSUME NEW A \in Seq(ByteString), A # <<>>, NEW B \in Seq(ByteString), Len(B) = Len(A),
           joinBucketPath(A) = joinBucketPath(B),
           \A i \in 1..Len(A) : SepFree(A[i])
    PROVE  \A i \in 1..Len(A) : Ends(B, i) <= Ends(A, i)
<1> DEFINE n == Len(A)
           S == joinBucketPath(A)
           Bad == {d \in Nat : d < n /\ ~(Ends(B, n - d) <= Ends(A, n - d))}
<1>1. /\ n \in Nat \ {0} /\ B # <<>>
      /\ \A i \in 1..n : Ends(A, i) \in Nat /\ Ends(B, i) \in Nat /\ Len(A[i]) \in Nat /\ Len(B[i]) \in Nat
      /\ \A i \in 2..n : Ends(A, i) = Ends(A, i - 1) + 1 + Len(A[i]) /\ Ends(B, i) = Ends(B, i - 1) + 1 + Len(B[i])
      /\ \A i \in 2..n : \A j \in 1..Len(A[i]) : After(A)[i][Ends(A, i - 1) + 1 + j] = A[i][j]
  <2>1. B # <<>>
    OBVIOUS
  <2> QED
    BY <2>1, EndsStep
<1>2. S = After(A)[n] /\ S = After(B)[n] /\ Ends(A, n) = Ends(B, n)
  BY JoinIsLast DEF Ends
<1>3. /\ \A i \in 1..n : \A j \in 1..Ends(A, i) : S[j] = After(A)[i][j]
      /\ \A i \in 1..(n - 1) : S[Ends(B, i) + 1] = Sep
  <2>1. ASSUME NEW i \in 1..n
        PROVE  \A j \in 1..Ends(A, i) : S[j] = After(A)[i][j]
    <3>1. n \in 1..Len(A) /\ i \in 1..Len(A) /\ i <= n
      BY <1>1
    <3>2. \A m \in 1..Len(After(A)[i]) : After(A)[n][m] = After(A)[i][m]
      <4> HIDE DEF n
      <4> QED
        BY <3>1, AfterGrows
    <3> QED
      BY <1>2, <3>2 DEF Ends
  <2>2. ASSUME NEW i \in 1..(n - 1)
        PROVE  S[Ends(B, i) + 1] = Sep
    <3>1. n \in 1..Len(B) /\ i \in 1..Len(B) /\ i <= n /\ i < n
      BY <1>1
    <3>2. After(B)[n][Len(After(B)[i]) + 1] = Sep
      <4> HIDE DEF n
      <4> QED
        BY <1>1, <3>1, AfterGrows
    <3> QED
      BY <1>2, <3>2 DEF Ends
  <2> QED
    BY <2>1, <2>2
<1> HIDE DEF S, n
<1> SUFFICES ASSUME Bad # {} PROVE FALSE
  <2>1. ASSUME NEW i \in 1..n PROVE n - i \in Nat /\ n - i < n /\ n - (n - i) = i
    BY <1>1
  <2> QED
    BY <2>1 DEF n
<1>4. PICK d \in Bad : \A e \in Bad : d <= e
  BY Least
<1> DEFINE i == n - d
           pos == Ends(B, i) + 1
<1>5. d # 0 /\ i \in 1..(n - 1) /\ i + 1 \in 2..n /\ i \in 1..n /\ i + 1 \in 1..n /\ Ends(A, i) < Ends(B, i)
  BY <1>1, <1>2, <1>4
<1>6. Ends(B, i + 1) <= Ends(A, i + 1)
  <2>1. d \in Nat /\ d < n
    BY <1>4
  <2>2. d - 1 \in Nat /\ d - 1 < n /\ n - (d - 1) = i + 1 /\ ~(d <= d - 1)
    BY <1>1, <1>5, <2>1
  <2>3. d - 1 \notin Bad
    BY <1>4, <2>2
  <2> QED
    BY <2>2, <2>3
<1> HIDE DEF i
<1> DEFINE j == pos - Ends(A, i) - 1
<1>7. (i + 1) - 1 = i
  BY <1>1, <1>5
<1>8. /\ Ends(A, i + 1) = Ends(A, i) + 1 + Len(A[i + 1]) /\ Ends(B, i + 1) = Ends(B, i) + 1 + Len(B[i + 1])
      /\ Ends(A, i) \in Nat /\ Ends(B, i) \in Nat /\ Len(A[i + 1]) \in Nat /\ Len(B[i + 1]) \in Nat
  BY <1>1, <1>5, <1>7
<1>9. j \in 1..Len(A[i + 1]) /\ pos = Ends(A, i) + 1 + j /\ pos \in 1..Ends(A, i + 1)
  <2> DEFINE a == Ends(A, i + 1) o == Ends(A, i) m == Len(A[i + 1]) d1 == Ends(B, i + 1) e == Ends(B, i) m1 == Len(B[i + 1])
  <2>1. o \in Nat /\ m \in Nat /\ e \in Nat /\ m1 \in Nat /\ a = o + 1 + m /\ d1 = e + 1 + m1 /\ d1 <= a /\ o < e
    BY <1>5, <1>6, <1>8
  <2> HIDE DEF a, o, m, d1, e, m1
  <2>2. (e + 1) - o - 1 \in 1..m /\ e + 1 = o + 1 + ((e + 1) - o - 1) /\ e + 1 \in 1..a
    BY <2>1
  <2> QED
    BY <2>2 DEF a, o, m, e
<1>10. S[pos] = Sep /\ S[pos] = After(A)[i + 1][pos]
  BY <1>3, <1>5, <1>9
<1> HIDE DEF j, pos
<1>11. After(A)[i + 1][pos] = A[i + 1][j]
  BY <1>1, <1>5, <1>7, <1>9
<1> QED
  BY <1>5, <1>9, <1>10, <1>11 DEF SepFree, n

(* Sequences with the same elements are equal. *)
LEMMA SameSeq ==
    ASSUME NEW T, NEW s \in Seq(T), NEW t \in Seq(T), Len(s) = Len(t), \A i \in 1..Len(s) : s[i] = t[i]
    PROVE  s = t
OBVIOUS

(* Byte strings with the same bytes are equal. *)
LEMMA SameString ==
    ASSUME NEW s \in ByteString, NEW t \in ByteString, Len(s) = Len(t), \A i \in 1..Len(s) : s[i] = t[i]
    PROVE  s = t
BY SameSeq DEF ByteString

(* S starts with the first c names of A. *)
Starts(A, c, S) == \A i \in 1..c : \A j \in 1..Ends(A, i) : S[j] = After(A)[i][j]

(* Where the ends are the same, so are the names. *)
LEMMA EndsTellNames ==
    ASSUME NEW A \in Seq(ByteString), A # <<>>, NEW B \in Seq(ByteString), B # <<>>,
           NEW c \in Nat, c <= Len(A), c <= Len(B), NEW S,
           Starts(A, c, S), Starts(B, c, S),
           \A i \in 1..c : Ends(A, i) = Ends(B, i)
    PROVE  \A i \in 1..c : A[i] = B[i]
<1> SUFFICES ASSUME NEW i \in 1..c PROVE A[i] = B[i]
  OBVIOUS
<1> USE DEF Starts
<1>1. i \in 1..Len(A) /\ i \in 1..Len(B) /\ A[i] \in ByteString /\ B[i] \in ByteString
  OBVIOUS
<1>2. CASE i = 1
  <2>1. After(A)[1] = A[1] /\ After(B)[1] = B[1]
    BY AfterSteps
  <2>2. Len(A[1]) = Len(B[1]) /\ \A j \in 1..Len(A[1]) : A[1][j] = B[1][j]
    BY <1>2, <2>1 DEF Ends
  <2>3. A[1] \in ByteString /\ B[1] \in ByteString
    BY <1>1, <1>2
  <2> QED
    BY <1>2, <2>2, <2>3, SameString
<1>3. CASE i # 1
  <2>1. i \in 2..Len(A) /\ i \in 2..Len(B) /\ i - 1 \in 1..c /\ i - 1 \in 1..Len(A)
    BY <1>1, <1>3
  <2> DEFINE e == Ends(A, i - 1)
             a == A[i]
             d == B[i]
             wa == After(A)[i]
             wb == After(B)[i]
             n == Ends(A, i)
  <2>2. /\ e \in Nat /\ Len(a) \in Nat /\ n = e + 1 + Len(a)
        /\ \A j \in 1..Len(a) : wa[e + 1 + j] = a[j]
    BY <1>1, <2>1, EndsStep
  <2>3. Len(d) \in Nat /\ n = e + 1 + Len(d)
    BY <1>1, <2>1, EndsStep
  <2>4. \A j \in 1..Len(d) : wb[e + 1 + j] = d[j]
    <3>1. Ends(B, i - 1) = e
      BY <2>1
    <3> QED
      BY <2>1, <3>1, EndsStep
  <2>5. /\ \A j \in 1..n : S[j] = wa[j]
        /\ \A j \in 1..n : S[j] = wb[j]
    OBVIOUS
  <2>6. a \in ByteString /\ d \in ByteString
    BY <1>1
  <2> HIDE DEF e, a, d, wa, wb, n
  <2>7. Len(a) = Len(d)
    BY <2>2, <2>3
  <2>8. \A j \in 1..Len(a) : a[j] = d[j]
    <3> TAKE j \in 1..Len(a)
    <3>1. e + 1 + j \in 1..n
      BY <2>2
    <3> QED
      BY <2>2, <2>4, <2>5, <2>7, <3>1
  <2>9. a = d
    BY <2>6, <2>7, <2>8, SameString
  <2> QED
    BY <2>9 DEF a, d
<1> QED
  BY <1>2, <1>3

(* S starts with the first c names of A, each followed by a separator. *)
Reads(A, c, S) ==
    \A i \in 1..c : /\ \A j \in 1..Ends(A, i) : S[j] = After(A)[i][j]
                    /\ S[Ends(A, i) + 1] = Sep

(* The joined string reads all its names but the last, which no separator  *)
(* ends.                                                                   *)
LEMMA ReadsJoin ==
    ASSUME NEW A \in Seq(ByteString), A # <<>>
    PROVE  Reads(A, Len(A) - 1, joinBucketPath(A))
<1> DEFINE n == Len(A)
<1>1. n \in Nat \ {0} /\ joinBucketPath(A) = After(A)[n]
  BY JoinIsLast
<1>2. ASSUME NEW i \in 1..(n - 1)
      PROVE  /\ \A j \in 1..Ends(A, i) : After(A)[n][j] = After(A)[i][j]
             /\ After(A)[n][Ends(A, i) + 1] = Sep
  <2>1. i \in 1..Len(A) /\ n \in 1..Len(A) /\ i <= n /\ i < n
    BY <1>1
  <2> HIDE DEF n
  <2> QED
    BY <2>1, AfterGrows DEF Ends
<1> QED
  BY <1>1, <1>2 DEF Reads

(* With a separator behind it, it reads the last one as well. *)
LEMMA ReadsAll ==
    ASSUME NEW A \in Seq(ByteString), A # <<>>, NEW S,
           \A j \in 1..Len(joinBucketPath(A)) : S[j] = joinBucketPath(A)[j],
           S[Len(joinBucketPath(A)) + 1] = Sep
    PROVE  Reads(A, Len(A), S)
<1> DEFINE n == Len(A)
<1>1. n \in Nat \ {0} /\ joinBucketPath(A) = After(A)[n]
  BY JoinIsLast
<1>2. ASSUME NEW i \in 1..n
      PROVE  /\ \A j \in 1..Ends(A, i) : S[j] = After(A)[i][j]
             /\ S[Ends(A, i) + 1] = Sep
  <2>1. i \in 1..Len(A) /\ n \in 1..Len(A) /\ i <= n
    BY <1>1
  <2>2. /\ \A j \in 1..Ends(A, n) : S[j] = After(A)[n][j]
        /\ S[Ends(A, n) + 1] = Sep
    BY <1>1 DEF Ends
  <2> HIDE DEF n
  <2>3. /\ Ends(A, i) \in Nat /\ Ends(A, n) \in Nat /\ Ends(A, i) <= Ends(A, n)
        /\ \A j \in 1..Ends(A, i) : After(A)[n][j] = After(A)[i][j]
        /\ i < n => /\ Ends(A, i) < Ends(A, n)
                    /\ After(A)[n][Ends(A, i) + 1] = Sep
    BY <2>1, AfterGrows DEF Ends
  <2>4. \A j \in 1..Ends(A, i) : S[j] = After(A)[i][j]
    BY <2>2, <2>3
  <2>5. CASE i < n
    <3>1. Ends(A, i) + 1 \in 1..Ends(A, n)
      BY <2>3, <2>5
    <3> QED
      BY <2>2, <2>3, <2>4, <2>5, <3>1
  <2>6. CASE i = n
    BY <2>2, <2>4, <2>6
  <2> QED
    BY <1>1, <2>1, <2>5, <2>6
<1> QED
  BY <1>2 DEF Reads

(* Two lists of names without separators that a string starts with agree. *)
LEMMA SameStart ==
    ASSUME NEW A \in Seq(ByteString), A # <<>>, NEW B \in Seq(ByteString), B # <<>>,
           NEW c \in Nat, c <= Len(A), c <= Len(B), NEW S,
           \A i \in 1..c : SepFree(A[i]) /\ SepFree(B[i]),
           Reads(A, c, S), Reads(B, c, S)
    PROVE  \A i \in 1..c : A[i] = B[i]
<1>1. /\ \A i \in 1..c : \A j \in 1..Ends(A, i) : S[j] = After(A)[i][j]
      /\ \A i \in 1..c : S[Ends(A, i) + 1] = Sep
      /\ \A i \in 1..c : \A j \in 1..Ends(B, i) : S[j] = After(B)[i][j]
      /\ \A i \in 1..c : S[Ends(B, i) + 1] = Sep
  BY DEF Reads
<1>2. \A i \in 1..c : Ends(A, i) <= Ends(B, i)
  BY <1>1, LeftEnds
<1>3. \A i \in 1..c : Ends(B, i) <= Ends(A, i)
  BY <1>1, LeftEnds
<1>4. \A i \in 1..c : Ends(A, i) \in Nat /\ Ends(B, i) \in Nat
  BY EndsStep
<1>5. \A i \in 1..c : Ends(A, i) = Ends(B, i)
  BY <1>2, <1>3, <1>4
<1>6. Starts(A, c, S) /\ Starts(B, c, S)
  BY <1>1 DEF Starts
<1> QED
  BY <1>5, <1>6, EndsTellNames

(* As many names that join to the same string: one list without separators *)
(* inside is enough.                                                       *)
LEMMA SameNames ==
    ASSUME NEW A \in Seq(ByteString), A # <<>>, NEW B \in Seq(ByteString), Len(B) = Len(A),
           joinBucketPath(A) = joinBucketPath(B),
           \A i \in 1..Len(A) : SepFree(A[i])
    PROVE  A = B
<1> DEFINE n == Len(A)
           S == joinBucketPath(A)
<1>1. n \in Nat \ {0} /\ B # <<>> /\ S = After(A)[n] /\ S = After(B)[n]
  <2>1. n \in Nat \ {0} /\ B # <<>>
    OBVIOUS
  <2> QED
    BY <2>1, JoinIsLast
<1>2. \A i \in 1..n : Ends(B, i) <= Ends(A, i)
  BY RightEnds
<1>3. Reads(A, n - 1, S) /\ Reads(B, n - 1, S)
  BY <1>1, ReadsJoin
<1>4. \A i \in 1..n : Ends(A, i) \in Nat /\ Ends(B, i) \in Nat
  BY <1>1, EndsStep
<1> HIDE DEF n, S
<1>5. \A i \in 1..(n - 1) : Ends(A, i) <= Ends(B, i)
  <2>1. /\ \A i \in 1..(n - 1) : \A j \in 1..Ends(A, i) : S[j] = After(A)[i][j]
        /\ \A i \in 1..(n - 1) : S[Ends(B, i) + 1] = Sep
    BY <1>3 DEF Reads
  <2>2. n - 1 \in Nat /\ n - 1 <= Len(A) /\ n - 1 <= Len(B) /\ \A i \in 1..(n - 1) : SepFree(A[i])
    BY <1>1 DEF n
  <2> DEFINE c == n - 1
  <2> HIDE DEF c
  <2>3. \A i \in 1..c : Ends(A, i) <= Ends(B, i)
    BY <1>1, <2>1, <2>2, LeftEnds DEF c
  <2> QED
    BY <2>3 DEF c
<1>6. Ends(A, n) = Ends(B, n)
  BY <1>1 DEF Ends
<1>7. \A i \in 1..n : Ends(A, i) = Ends(B, i)
  <2> TAKE i \in 1..n
  <2>1. CASE i = n
    BY <1>6, <2>1
  <2>2. CASE i # n
    <3>1. i \in 1..(n - 1)
      BY <1>1, <2>2
    <3> QED
      BY <1>2, <1>4, <1>5, <3>1
  <2> QED
    BY <2>1, <2>2
<1>8. /\ \A i \in 1..n : \A j \in 1..Ends(A, i) : S[j] = After(A)[i][j]
      /\ \A i \in 1..n : \A j \in 1..Ends(B, i) : S[j] = After(B)[i][j]
  <2> SUFFICES ASSUME NEW i \in 1..n
               PROVE  /\ \A j \in 1..Ends(A, i) : S[j] = After(A)[i][j]
                      /\ \A j \in 1..Ends(B, i) : S[j] = After(B)[i][j]
    OBVIOUS
  <2>1. CASE i = n
    BY <1>1, <2>1
  <2>2. CASE i # n
    <3>1. i \in 1..(n - 1)
      BY <1>1, <2>2
    <3> QED
      BY <1>3, <3>1 DEF Reads
  <2> QED
    BY <2>1, <2>2
<1>9. n \in Nat /\ n <= Len(A) /\ n <= Len(B) /\ n = Len(A)
  BY <1>1 DEF n
<1>10. \A i \in 1..n : A[i] = B[i]
  <2>1. Starts(A, n, S) /\ Starts(B, n, S)
    BY <1>8 DEF Starts
  <2> QED
    BY <1>1, <1>7, <1>9, <2>1, EndsTellNames
<1>11. Len(A) = Len(B) /\ \A i \in 1..Len(A) : A[i] = B[i]
  BY <1>9, <1>10
<1> QED
  BY <1>11, SameSeq, Zenon

-----------------------------------------------------------------------------
(* The keys of the database.                                               *)

NamesOf(n, p) == <<Itoa(n)>> \o p

(* A depth is one byte, and no separator. *)
LEMMA DigitIs ==
    ASSUME NEW n \in 0..9
    PROVE  /\ Itoa(n) \in ByteString /\ Len(Itoa(n)) = 1 /\ Itoa(n)[1] = 48 + n
           /\ SepFree(Itoa(n))
<1>1. Itoa(n) \in ByteString /\ Len(Itoa(n)) = 1 /\ Itoa(n)[1] = 48 + n
  BY DEF Itoa, ByteString
<1>2. 48 + n # Sep
  BY DEF Sep
<1> QED
  BY <1>1, <1>2 DEF SepFree

(* The names that a path is joined from. *)
LEMMA NamesAre ==
    ASSUME NEW p \in Path, NEW n \in 0..9
    PROVE  /\ p \in Seq(ByteString) /\ Len(p) \in 1..8
           /\ NamesOf(n, p) \in Seq(ByteString) /\ NamesOf(n, p) # <<>>
           /\ Len(NamesOf(n, p)) = Len(p) + 1
           /\ NamesOf(n, p)[1] = Itoa(n)
           /\ \A i \in 1..Len(p) : NamesOf(n, p)[i + 1] = p[i]
           /\ Legal(p) => \A i \in 1..(Len(p) + 1) : SepFree(NamesOf(n, p)[i])
<1>1. p \in Seq(ByteString) /\ Len(p) \in 1..8
  BY PathAssumption
<1>2. Itoa(n) \in ByteString /\ SepFree(Itoa(n))
  BY DigitIs
<1> DEFINE s == NamesOf(n, p)
<1>3. s \in Seq(ByteString) /\ s # <<>> /\ Len(s) = Len(p) + 1 /\ s[1] = Itoa(n) /\ \A i \in 1..Len(p) : s[i + 1] = p[i]
  <2> HIDE DEF Itoa
  <2> QED
    BY <1>1, <1>2 DEF NamesOf
<1> HIDE DEF s
<1>4. ASSUME Legal(p), NEW i \in 1..(Len(p) + 1)
      PROVE  SepFree(s[i])
  <2>1. CASE i = 1
    BY <1>2, <1>3, <2>1
  <2>2. CASE i # 1
    <3>1. i - 1 \in 1..Len(p) /\ (i - 1) + 1 = i
      BY <1>1, <2>2
    <3>2. s[i] = p[i - 1] /\ isValidBucketName(p[i - 1])
      BY <1>3, <1>4, <3>1 DEF Legal
    <3> QED
      BY <3>2 DEF isValidBucketName, SepFree
  <2> QED
    BY <2>1, <2>2
<1> QED
  BY <1>1, <1>3, <1>4 DEF s

(* The first byte of a path is its depth. *)
LEMMA JoinNames ==
    ASSUME NEW p \in Path, NEW n \in 0..9
    PROVE  /\ joinBucketPath(NamesOf(n, p)) \in ByteString
           /\ Len(joinBucketPath(NamesOf(n, p))) >= 1
           /\ joinBucketPath(NamesOf(n, p))[1] = 48 + n
<1> DEFINE A == NamesOf(n, p)
           m == Len(A)
<1>1. A \in Seq(ByteString) /\ A # <<>> /\ m \in Nat \ {0} /\ A[1] = Itoa(n)
  <2>1. A \in Seq(ByteString) /\ A # <<>> /\ m = Len(p) + 1 /\ Len(p) \in 1..8 /\ A[1] = Itoa(n)
    BY NamesAre
  <2> HIDE DEF A, m
  <2> QED
    BY <2>1
<1>2. Len(Itoa(n)) = 1 /\ Itoa(n)[1] = 48 + n
  BY DigitIs
<1> HIDE DEF A
<1>3. joinBucketPath(A) = After(A)[m]
  BY JoinIsLast
<1>4. After(A)[1] = Itoa(n) /\ After(A)[m] \in ByteString
  BY <1>1, AfterSteps
<1>5. 1 \in 1..Len(A) /\ m \in 1..Len(A) /\ 1 <= m
  BY <1>1
<1>6. /\ Len(After(A)[1]) <= Len(After(A)[m])
      /\ \A j \in 1..Len(After(A)[1]) : After(A)[m][j] = After(A)[1][j]
  <2> HIDE DEF m
  <2> QED
    BY <1>1, <1>5, AfterGrows
<1>7. Len(After(A)[1]) = 1 /\ After(A)[1][1] = 48 + n /\ Len(After(A)[m]) \in Nat
  BY <1>2, <1>4 DEF ByteString
<1>8. After(A)[m][1] = 48 + n /\ Len(After(A)[m]) >= 1
  BY <1>6, <1>7
<1> QED
  BY <1>3, <1>4, <1>8 DEF A

(* A prefix has the same elements, as far as it goes. *)
LEMMA PrefixIs ==
    ASSUME NEW T, NEW s \in Seq(T), NEW t \in Seq(T)
    PROVE  IsPrefix(s, t) <=> (Len(s) <= Len(t) /\ \A i \in 1..Len(s) : s[i] = t[i])
<1>1. ASSUME Len(s) <= Len(t)
      PROVE  /\ SubSeq(s, 1, Len(s)) \in Seq(T) /\ SubSeq(t, 1, Len(s)) \in Seq(T)
             /\ Len(SubSeq(s, 1, Len(s))) = Len(s) /\ Len(SubSeq(t, 1, Len(s))) = Len(s)
             /\ \A i \in 1..Len(s) : SubSeq(s, 1, Len(s))[i] = s[i] /\ SubSeq(t, 1, Len(s))[i] = t[i]
  BY <1>1
<1>2. ASSUME Len(s) <= Len(t), \A i \in 1..Len(s) : s[i] = t[i]
      PROVE  SubSeq(s, 1, Len(s)) = SubSeq(t, 1, Len(s))
  <2> DEFINE x == SubSeq(s, 1, Len(s))
             y == SubSeq(t, 1, Len(s))
  <2>1. x \in Seq(T) /\ y \in Seq(T) /\ Len(x) = Len(y) /\ \A i \in 1..Len(x) : x[i] = y[i]
    BY <1>1, <1>2
  <2> HIDE DEF x, y
  <2>2. x = y
    BY <2>1, SameSeq
  <2> QED
    BY <2>2 DEF x, y
<1> QED
  BY <1>1, <1>2 DEF IsPrefix

(* The same of byte strings. *)
LEMMA PrefixOfString ==
    ASSUME NEW s \in ByteString, NEW t \in ByteString
    PROVE  IsPrefix(s, t) <=> (Len(s) <= Len(t) /\ \A i \in 1..Len(s) : s[i] = t[i])
BY PrefixIs DEF ByteString

(* Behind the same start, the rest decides. *)
LEMMA PrefixOfWith ==
    ASSUME NEW a \in ByteString, NEW x \in ByteString, NEW y \in ByteString
    PROVE  /\ IsPrefix(With(a, x), With(a, y)) <=> IsPrefix(x, y)
           /\ With(a, x) = With(a, y) => x = y
<1> DEFINE s == With(a, x)
           t == With(a, y)
           n == Len(a)
<1>1. /\ s \in ByteString /\ Len(s) = n + 1 + Len(x)
      /\ \A i \in 1..n : s[i] = a[i]
      /\ s[n + 1] = Sep
      /\ \A i \in 1..Len(x) : s[n + 1 + i] = x[i]
  BY WithIs
<1>2. /\ t \in ByteString /\ Len(t) = n + 1 + Len(y)
      /\ \A i \in 1..n : t[i] = a[i]
      /\ t[n + 1] = Sep
      /\ \A i \in 1..Len(y) : t[n + 1 + i] = y[i]
  BY WithIs
<1>3. n \in Nat /\ Len(x) \in Nat /\ Len(y) \in Nat
  BY DEF ByteString
<1>4. /\ IsPrefix(s, t) <=> (Len(s) <= Len(t) /\ \A i \in 1..Len(s) : s[i] = t[i])
      /\ IsPrefix(x, y) <=> (Len(x) <= Len(y) /\ \A i \in 1..Len(x) : x[i] = y[i])
  BY <1>1, <1>2, PrefixOfString
<1> HIDE DEF s, t, n
<1>5. ASSUME IsPrefix(s, t) PROVE IsPrefix(x, y)
  <2>1. Len(s) <= Len(t) /\ \A i \in 1..Len(s) : s[i] = t[i]
    BY <1>4, <1>5
  <2>2. Len(x) <= Len(y)
    BY <1>1, <1>2, <1>3, <2>1
  <2>3. ASSUME NEW i \in 1..Len(x) PROVE x[i] = y[i]
    <3>1. n + 1 + i \in 1..Len(s) /\ i \in 1..Len(y)
      BY <1>1, <1>3, <2>2
    <3> QED
      BY <1>1, <1>2, <2>1, <3>1
  <2> QED
    BY <1>4, <2>2, <2>3
<1>6. ASSUME IsPrefix(x, y) PROVE IsPrefix(s, t)
  <2>1. Len(x) <= Len(y) /\ \A i \in 1..Len(x) : x[i] = y[i]
    BY <1>4, <1>6
  <2>2. Len(s) <= Len(t)
    BY <1>1, <1>2, <1>3, <2>1
  <2>3. ASSUME NEW i \in 1..Len(s) PROVE s[i] = t[i]
    <3>1. CASE i \in 1..n
      BY <1>1, <1>2, <3>1
    <3>2. CASE i = n + 1
      BY <1>1, <1>2, <3>2
    <3>3. CASE i > n + 1
      <4> DEFINE j == i - n - 1
      <4>1. j \in 1..Len(x) /\ j \in 1..Len(y) /\ i = n + 1 + j
        BY <1>1, <1>3, <2>1, <3>3
      <4> HIDE DEF j
      <4> QED
        BY <1>1, <1>2, <2>1, <4>1
    <3> QED
      BY <1>1, <1>3, <3>1, <3>2, <3>3
  <2> QED
    BY <1>4, <2>2, <2>3
<1>7. ASSUME s = t PROVE x = y
  <2>1. Len(x) = Len(y)
    BY <1>1, <1>2, <1>3, <1>7
  <2>2. \A i \in 1..Len(x) : x[i] = y[i]
    BY <1>1, <1>2, <1>7, <2>1
  <2> QED
    BY <2>1, <2>2, SameString
<1> QED
  BY <1>5, <1>6, <1>7 DEF s, t

(* The keys in terms of the joined paths. *)
LEMMA KeysAre ==
    ASSUME NEW p \in Path
    PROVE  /\ BucketPath(p) \in ByteString
           /\ IndexKey[p] = With(Index, BucketPath(p))
           /\ IndexPrefix[p] = With(Index, With(joinBucketPath(NamesOf(Len(p) + 1, p)), Nil))
           /\ \A k \in Key \cup {Nil} : k \in ByteString /\ innerKey[p][k] = With(BucketPath(p), k)
<1>0. Index \in ByteString /\ Nil \in ByteString
  BY DEF Index, Nil, ByteString
<1>1. Len(p) \in 0..9 /\ Len(p) + 1 \in 0..9 /\ p \in Seq(ByteString)
  <2> DEFINE n == Len(p)
  <2>1. n \in 1..8 /\ p \in Seq(ByteString)
    BY PathAssumption
  <2> HIDE DEF n
  <2>2. n \in 0..9 /\ n + 1 \in 0..9
    BY <2>1
  <2> QED
    BY <2>1, <2>2 DEF n
<1>2. BucketPath(p) = joinBucketPath(NamesOf(Len(p), p)) /\ BucketPath(p) \in ByteString
  <2>1. BucketPath(p) = joinBucketPath(NamesOf(Len(p), p))
    BY DEF BucketPath, NamesOf
  <2> QED
    BY <1>1, <2>1, JoinNames
<1>3. IndexKey[p] = With(Index, BucketPath(p))
  BY <1>0, <1>2, JoinTwo DEF IndexKey
<1>4. \A k \in Key \cup {Nil} : k \in ByteString /\ innerKey[p][k] = With(BucketPath(p), k)
  BY <1>0, <1>2, JoinTwo, KeyAssumption DEF innerKey
<1>5. IndexPrefix[p] = With(Index, With(joinBucketPath(NamesOf(Len(p) + 1, p)), Nil))
  <2> DEFINE s == NamesOf(Len(p) + 1, p)
             j == joinBucketPath(s)
  <2>1. s \in Seq(ByteString) /\ s # <<>> /\ j \in ByteString
    BY <1>1, NamesAre, JoinNames
  <2>2. IndexPrefix[p] = joinBucketPath(<<Index, joinBucketPath(s \o <<Nil>>)>>)
    BY DEF IndexPrefix, NamesOf
  <2> HIDE DEF s
  <2>3. joinBucketPath(s \o <<Nil>>) = With(j, Nil)
    BY <1>0, <2>1, JoinAppend
  <2>4. With(j, Nil) \in ByteString
    BY <1>0, <2>1, WithIs
  <2> QED
    BY <1>0, <2>2, <2>3, <2>4, JoinTwo DEF s
<1> QED
  BY <1>2, <1>3, <1>4, <1>5

(* The bytes that a bucket's path begins with. *)
LEMMA PathIs ==
    ASSUME NEW p \in Path
    PROVE  /\ BucketPath(p) = joinBucketPath(NamesOf(Len(p), p))
           /\ BucketPath(p) \in ByteString /\ Len(BucketPath(p)) >= 1
           /\ BucketPath(p)[1] = 48 + Len(p)
           /\ Len(p) \in 1..8 /\ Len(p) \in 0..9 /\ Len(p) + 1 \in 0..9
<1>1. Len(p) \in 1..8
  BY PathAssumption
<1>2. Len(p) \in 0..9 /\ Len(p) + 1 \in 0..9
  <2> DEFINE n == Len(p)
  <2>1. n \in 1..8
    BY <1>1
  <2> HIDE DEF n
  <2>2. n \in 0..9 /\ n + 1 \in 0..9
    BY <2>1
  <2> QED
    BY <2>2 DEF n
<1>3. BucketPath(p) = joinBucketPath(NamesOf(Len(p), p))
  BY DEF BucketPath, NamesOf
<1>4. /\ joinBucketPath(NamesOf(Len(p), p)) \in ByteString
      /\ Len(joinBucketPath(NamesOf(Len(p), p))) >= 1
      /\ joinBucketPath(NamesOf(Len(p), p))[1] = 48 + Len(p)
  BY <1>2, JoinNames
<1> QED
  BY <1>1, <1>2, <1>3, <1>4

(* Paths with the same names are equal. *)
LEMMA SamePath ==
    ASSUME NEW p \in Path, NEW q \in Path, Len(p) = Len(q),
           \A i \in 1..Len(p) : p[i] = q[i]
    PROVE  p = q
<1>1. p \in Seq(ByteString) /\ q \in Seq(ByteString)
  BY PathAssumption
<1> QED
  BY <1>1, SameSeq

(* No bucket shares its path with a legal one. *)
LEMMA PathUnique ==
    ASSUME NEW p \in Path, NEW q \in Path, Legal(p), BucketPath(p) = BucketPath(q)
    PROVE  p = q
<1>1. Len(p) = Len(q) /\ Len(p) \in 0..9
  BY PathIs
<1> DEFINE A == NamesOf(Len(p), p)
           B == NamesOf(Len(p), q)
<1>2. /\ A \in Seq(ByteString) /\ A # <<>> /\ Len(A) = Len(p) + 1
      /\ \A i \in 1..Len(p) : A[i + 1] = p[i]
      /\ \A i \in 1..(Len(p) + 1) : SepFree(A[i])
  BY <1>1, NamesAre
<1>3. B \in Seq(ByteString) /\ Len(B) = Len(p) + 1 /\ \A i \in 1..Len(p) : B[i + 1] = q[i]
  BY <1>1, NamesAre
<1>4. joinBucketPath(A) = joinBucketPath(B)
  BY <1>1, PathIs
<1> HIDE DEF A, B
<1>5. A = B
  BY <1>2, <1>3, <1>4, SameNames
<1>6. \A i \in 1..Len(p) : p[i] = q[i]
  BY <1>2, <1>3, <1>5
<1> QED
  BY <1>1, <1>6, SamePath

(* No bucket, legal or not, has the index key of a legal bucket: NewBucket *)
(* and Bucket ask for the bucket they name (joinBucketPath,                *)
(* isValidBucketName).                                                     *)
THEOREM IndexKeyUnique ==
    ASSUME NEW p \in Path, NEW q \in Path, Legal(p), IndexKey[p] = IndexKey[q]
    PROVE  p = q
<1>1. Index \in ByteString
  BY DEF Index, ByteString
<1>2. BucketPath(p) = BucketPath(q)
  BY <1>1, KeysAre, PrefixOfWith
<1> QED
  BY <1>2, PathUnique

(* The first byte tells an index entry from an entry of a bucket. *)
LEMMA FirstBytes ==
    ASSUME NEW p \in Path, NEW k \in Key \cup {Nil}
    PROVE  /\ IndexKey[p] \in ByteString /\ Len(IndexKey[p]) >= 1 /\ IndexKey[p][1] = 98
           /\ IndexPrefix[p] \in ByteString /\ Len(IndexPrefix[p]) >= 1 /\ IndexPrefix[p][1] = 98
           /\ innerKey[p][k] \in ByteString /\ Len(innerKey[p][k]) >= 1 /\ innerKey[p][k][1] = 48 + Len(p)
           /\ 48 + Len(p) < 98
<1>1. Index \in ByteString /\ Len(Index) = 1 /\ Index[1] = 98 /\ Nil \in ByteString
  BY DEF Index, Nil, ByteString
<1>2. ASSUME NEW a \in ByteString, NEW x \in ByteString, Len(a) >= 1
      PROVE  With(a, x) \in ByteString /\ Len(With(a, x)) >= 1 /\ With(a, x)[1] = a[1]
  <2>1. Len(a) \in Nat /\ Len(x) \in Nat /\ 1 \in 1..Len(a)
    BY <1>2 DEF ByteString
  <2>2. With(a, x) \in ByteString /\ Len(With(a, x)) = Len(a) + 1 + Len(x) /\ \A i \in 1..Len(a) : With(a, x)[i] = a[i]
    BY WithIs
  <2> QED
    BY <1>2, <2>1, <2>2
<1>3. /\ BucketPath(p) \in ByteString /\ Len(BucketPath(p)) >= 1 /\ BucketPath(p)[1] = 48 + Len(p)
      /\ Len(p) \in 1..8 /\ Len(p) + 1 \in 0..9
  BY PathIs
<1>4. With(joinBucketPath(NamesOf(Len(p) + 1, p)), Nil) \in ByteString
  BY <1>1, <1>3, JoinNames, WithIs
<1>5. 48 + Len(p) < 98
  BY <1>3
<1>6. IndexKey[p] \in ByteString /\ Len(IndexKey[p]) >= 1 /\ IndexKey[p][1] = 98
  <2>1. Len(Index) >= 1
    BY <1>1
  <2>2. /\ With(Index, BucketPath(p)) \in ByteString
        /\ Len(With(Index, BucketPath(p))) >= 1 /\ With(Index, BucketPath(p))[1] = Index[1]
    BY <1>1, <1>2, <1>3, <2>1
  <2> QED
    BY <1>1, <2>2, KeysAre
<1>7. IndexPrefix[p] \in ByteString /\ Len(IndexPrefix[p]) >= 1 /\ IndexPrefix[p][1] = 98
  <2>1. Len(Index) >= 1
    BY <1>1
  <2> QED
    BY <1>1, <1>2, <1>4, <2>1, KeysAre
<1>8. innerKey[p][k] \in ByteString /\ Len(innerKey[p][k]) >= 1 /\ innerKey[p][k][1] = 48 + Len(p)
  BY <1>2, <1>3, KeysAre
<1> QED
  BY <1>5, <1>6, <1>7, <1>8

(* An index key is no entry's key, and no scan for one kind finds the      *)
(* other.                                                                  *)
LEMMA KindsApart ==
    ASSUME NEW p \in Path, NEW q \in Path, NEW k \in Key \cup {Nil}
    PROVE  /\ IndexKey[p] # innerKey[q][k]
           /\ ~IsPrefix(innerKey[q][k], IndexKey[p])
           /\ ~IsPrefix(IndexPrefix[p], innerKey[q][k])
<1> DEFINE a == IndexKey[p]
           x == IndexPrefix[p]
           n == innerKey[q][k]
<1>1. /\ a \in ByteString /\ Len(a) >= 1 /\ a[1] = 98
      /\ x \in ByteString /\ Len(x) >= 1 /\ x[1] = 98
      /\ n \in ByteString /\ Len(n) >= 1 /\ n[1] # 98
  <2>1. n \in ByteString /\ Len(n) >= 1 /\ n[1] = 48 + Len(q) /\ 48 + Len(q) < 98 /\ Len(q) \in 1..8
    BY FirstBytes, PathIs
  <2> HIDE DEF n
  <2>2. n[1] # 98
    BY <2>1
  <2> QED
    BY <2>1, <2>2, FirstBytes
<1> HIDE DEF a, x, n
<1>2. 1 \in 1..Len(n) /\ 1 \in 1..Len(x)
  BY <1>1 DEF ByteString
<1> QED
  BY <1>1, <1>2, PrefixOfString DEF a, x, n

(* A string that starts with a path and a separator reads its names. *)
LEMMA PathReads ==
    ASSUME NEW A \in Seq(ByteString), A # <<>>, NEW x \in ByteString, NEW S \in ByteString,
           joinBucketPath(A) \in ByteString,
           IsPrefix(With(joinBucketPath(A), x), S)
    PROVE  Reads(A, Len(A), S)
<1> DEFINE j == joinBucketPath(A)
           w == With(j, x)
<1>1. /\ w \in ByteString /\ Len(w) = Len(j) + 1 + Len(x)
      /\ \A i \in 1..Len(j) : w[i] = j[i]
      /\ w[Len(j) + 1] = Sep
  BY WithIs
<1>2. Len(j) \in Nat /\ Len(x) \in Nat
  BY DEF ByteString
<1>3. \A i \in 1..Len(w) : w[i] = S[i]
  BY <1>1, PrefixOfString
<1> HIDE DEF w, j
<1>4. (\A i \in 1..Len(j) : S[i] = j[i]) /\ S[Len(j) + 1] = Sep
  BY <1>1, <1>2, <1>3
<1> QED
  BY <1>4, ReadsAll DEF j

(* A scan of a legal bucket for a prefix meets the entries of that bucket  *)
(* whose keys have the prefix, and of no other legal bucket: what          *)
(* GetByPrefix, Clear and the iterators rely on (innerKey).                *)
THEOREM InnerScan ==
    ASSUME NEW p \in Path, NEW q \in Path, Legal(p), Legal(q),
           NEW pre \in Key \cup {Nil}, NEW k \in Key \cup {Nil}
    PROVE  IsPrefix(innerKey[p][pre], innerKey[q][k]) <=> (p = q /\ IsPrefix(pre, k))
<1> DEFINE S == innerKey[q][k]
           n == Len(q)
           A == NamesOf(n, p)
           B == NamesOf(n, q)
<1>1. /\ S = With(BucketPath(q), k) /\ innerKey[p][pre] = With(BucketPath(p), pre)
      /\ pre \in ByteString /\ k \in ByteString
      /\ BucketPath(p) \in ByteString /\ BucketPath(q) \in ByteString
  BY KeysAre
<1>2. S \in ByteString /\ Len(S) >= 1 /\ S[1] = 48 + n /\ n \in 1..8 /\ n \in 0..9
  BY FirstBytes, PathIs
<1>3. ASSUME IsPrefix(innerKey[p][pre], S)
      PROVE  p = q
  <2>1. Len(p) = n
    <3> DEFINE a == innerKey[p][pre]
    <3>1. a \in ByteString /\ Len(a) >= 1 /\ a[1] = 48 + Len(p) /\ Len(p) \in 1..8 /\ IsPrefix(a, S)
      BY <1>3, FirstBytes, PathIs
    <3> HIDE DEF a, S, n
    <3>2. 1 \in 1..Len(a)
      BY <3>1 DEF ByteString
    <3>3. a[1] = S[1]
      BY <1>2, <3>1, <3>2, PrefixOfString
    <3> QED
      BY <1>2, <3>1, <3>3
  <2>2. BucketPath(p) = joinBucketPath(A) /\ BucketPath(q) = joinBucketPath(B)
    BY <2>1, PathIs
  <2>3. /\ A \in Seq(ByteString) /\ A # <<>> /\ Len(A) = n + 1
        /\ \A i \in 1..n : A[i + 1] = p[i]
        /\ \A i \in 1..(n + 1) : SepFree(A[i])
    BY <1>2, <2>1, NamesAre
  <2>4. /\ B \in Seq(ByteString) /\ B # <<>> /\ Len(B) = n + 1
        /\ \A i \in 1..n : B[i + 1] = q[i]
        /\ \A i \in 1..(n + 1) : SepFree(B[i])
    BY <1>2, NamesAre
  <2>5. IsPrefix(With(BucketPath(q), k), S)
    <3> HIDE DEF S
    <3>1. \A i \in 1..Len(S) : S[i] = S[i]
      OBVIOUS
    <3>2. Len(S) <= Len(S)
      BY <1>2 DEF ByteString
    <3>3. IsPrefix(S, S)
      BY <1>2, <3>1, <3>2, PrefixOfString
    <3> QED
      BY <1>1, <3>3
  <2> HIDE DEF A, B, S
  <2>6. Reads(A, Len(A), S)
    BY <1>1, <1>2, <1>3, <2>2, <2>3, PathReads
  <2>7. Reads(B, Len(B), S)
    BY <1>1, <1>2, <2>2, <2>4, <2>5, PathReads
  <2>8. \A i \in 1..(n + 1) : A[i] = B[i]
    <3> DEFINE c == n + 1
    <3>1. c \in Nat /\ c <= Len(A) /\ c <= Len(B) /\ Reads(A, c, S) /\ Reads(B, c, S)
          /\ \A i \in 1..c : SepFree(A[i]) /\ SepFree(B[i])
      BY <1>2, <2>3, <2>4, <2>6, <2>7
    <3> HIDE DEF c
    <3>2. \A i \in 1..c : A[i] = B[i]
      BY <2>3, <2>4, <3>1, SameStart
    <3> QED
      BY <3>2 DEF c
  <2>9. \A i \in 1..n : p[i] = q[i]
    <3> TAKE i \in 1..n
    <3>1. i + 1 \in 1..(n + 1)
      BY <1>2
    <3> QED
      BY <2>3, <2>4, <2>8, <3>1
  <2> QED
    BY <2>1, <2>9, SamePath
<1>4. p = q => (IsPrefix(innerKey[p][pre], S) <=> IsPrefix(pre, k))
  BY <1>1, PrefixOfWith
<1> QED
  BY <1>3, <1>4

(* The keys of different entries of legal buckets differ. *)
LEMMA InnerUnique ==
    ASSUME NEW p \in Path, NEW q \in Path, Legal(p), Legal(q),
           NEW k \in Key, NEW l \in Key, innerKey[p][k] = innerKey[q][l]
    PROVE  p = q /\ k = l
<1>1. IsPrefix(innerKey[p][k], innerKey[q][l])
  <2> DEFINE a == innerKey[p][k]
  <2>1. a \in ByteString
    BY FirstBytes
  <2> HIDE DEF a
  <2>2. IsPrefix(a, a)
    BY <2>1, PrefixOfString DEF ByteString
  <2> QED
    BY <2>2 DEF a
<1>2. p = q
  BY <1>1, InnerScan
<1>3. With(BucketPath(p), k) = With(BucketPath(p), l) /\ k \in ByteString /\ l \in ByteString /\ BucketPath(p) \in ByteString
  BY <1>2, KeysAre
<1> QED
  BY <1>2, <1>3, PrefixOfWith

(* The key behind the path is the key that was put there. *)
LEMMA OuterIsKey ==
    ASSUME NEW p \in Path, NEW k \in Key
    PROVE  OuterKey(p, innerKey[p][k]) = k
<1> DEFINE a == BucketPath(p)
           w == innerKey[p][k]
           n == Len(a)
           o == SubSeq(w, n + 2, Len(w))
<1>1. a \in ByteString /\ k \in ByteString /\ w = With(a, k)
  BY KeysAre
<1> HIDE DEF a, w
<1>2. /\ w \in ByteString /\ Len(w) = n + 1 + Len(k)
      /\ \A i \in 1..Len(k) : w[n + 1 + i] = k[i]
  BY <1>1, WithIs
<1>3. n \in Nat /\ Len(k) \in Nat
  BY <1>1 DEF ByteString
<1> HIDE DEF n
<1>4. o \in ByteString /\ Len(o) = Len(k) /\ \A i \in 1..Len(k) : o[i] = w[n + 1 + i]
  <2>1. n + 2 \in Int /\ Len(w) \in Int /\ \A i \in (n + 2)..Len(w) : w[i] \in 0..255
    <3>1. Len(w) \in Nat /\ \A i \in 1..Len(w) : w[i] \in 0..255
      <4>1. w \in Seq(0..255)
        BY <1>2 DEF ByteString
      <4> DEFINE T == 0..255
      <4> HIDE DEF T
      <4>2. w \in Seq(T)
        BY <4>1 DEF T
      <4>3. Len(w) \in Nat /\ \A i \in 1..Len(w) : w[i] \in T
        BY <4>2
      <4> QED
        BY <4>3 DEF T
    <3>2. \A i \in (n + 2)..Len(w) : i \in 1..Len(w)
      BY <1>3, <3>1
    <3> QED
      BY <1>3, <3>1, <3>2
  <2>2. /\ o \in Seq(0..255) /\ Len(o) = IF n + 2 <= Len(w) THEN Len(w) - (n + 2) + 1 ELSE 0
        /\ \A i \in 1..(Len(w) - (n + 2) + 1) : o[i] = w[(n + 2) + i - 1]
    BY <2>1, SubSeqProperties
  <2>3. (IF n + 2 <= Len(w) THEN Len(w) - (n + 2) + 1 ELSE 0) = Len(k) /\ Len(w) - (n + 2) + 1 = Len(k) /\ \A i \in 1..Len(k) : (n + 2) + i - 1 = n + 1 + i
    BY <1>2, <1>3
  <2> HIDE DEF o
  <2> QED
    BY <2>2, <2>3 DEF ByteString
<1>5. o = k
  <2> HIDE DEF o
  <2> QED
    BY <1>1, <1>2, <1>4, SameString
<1> QED
  BY <1>5 DEF OuterKey, o, n, a, w

(* The parent of a bucket. *)
LEMMA ParentIs ==
    ASSUME NEW r \in Path, Len(r) > 1
    PROVE  /\ Parent(r) \in Path /\ Len(Parent(r)) = Len(r) - 1
           /\ \A i \in 1..(Len(r) - 1) : Parent(r)[i] = r[i]
           /\ Last(r) \in ByteString
           /\ Legal(r) => Legal(Parent(r))
<1> DEFINE n == Len(r) - 1
           p == Parent(r)
<1>1. r \in Seq(ByteString) /\ Len(r) \in Nat /\ n \in 1..Len(r) /\ n \in Nat
  BY PathAssumption
<1>2. p \in Path
  BY <1>1, PathAssumption DEF Parent
<1>3. Len(p) = n /\ \A i \in 1..n : p[i] = r[i]
  <2>1. p = SubSeq(r, 1, n)
    BY DEF Parent
  <2> HIDE DEF p, n
  <2> QED
    BY <1>1, <2>1
<1>4. Last(r) \in ByteString
  BY <1>1 DEF Last
<1>5. ASSUME Legal(r) PROVE Legal(p)
  <2>1. \A i \in 1..n : i \in 1..Len(r)
    BY <1>1
  <2> HIDE DEF p
  <2> QED
    BY <1>3, <1>5, <2>1 DEF Legal
<1> QED
  BY <1>2, <1>3, <1>4, <1>5

(* A scan of the index for the sub buckets of a legal bucket meets its     *)
(* children only, not their children and nobody else's: what BucketNames   *)
(* and deleteBucket rely on.                                               *)
THEOREM IndexScan ==
    ASSUME NEW p \in Path, NEW r \in Path, Legal(p), Legal(r),
           IsPrefix(IndexPrefix[p], IndexKey[r])
    PROVE  Len(r) > 1 /\ Parent(r) = p
<1> DEFINE S == BucketPath(r)
           n == Len(p)
           m == n + 1
           A == NamesOf(m, p)
           B == NamesOf(m, r)
           j == joinBucketPath(A)
<1>0. Index \in ByteString /\ Nil \in ByteString
  BY DEF Index, Nil, ByteString
<1>1. n \in 1..8 /\ m \in 0..9 /\ m \in Nat
  BY PathIs
<1>2. S \in ByteString /\ Len(S) >= 1 /\ S[1] = 48 + Len(r) /\ Len(r) \in 1..8
  BY PathIs
<1>3. j \in ByteString /\ Len(j) >= 1 /\ j[1] = 48 + m
  BY <1>1, JoinNames
<1>4. IsPrefix(With(j, Nil), S)
  <2>1. IndexPrefix[p] = With(Index, With(j, Nil)) /\ IndexKey[r] = With(Index, S)
    BY KeysAre
  <2>2. With(j, Nil) \in ByteString
    BY <1>0, <1>3, WithIs
  <2> HIDE DEF j, S
  <2> QED
    BY <1>0, <1>2, <2>1, <2>2, PrefixOfWith
<1>5. Len(r) = m
  <2> DEFINE w == With(j, Nil)
  <2> HIDE DEF j, S, m
  <2>1. w \in ByteString /\ Len(w) = Len(j) + 1 + Len(Nil) /\ \A i \in 1..Len(j) : w[i] = j[i]
    BY <1>0, <1>3, WithIs
  <2>2. Len(j) \in Nat /\ Len(Nil) \in Nat /\ 1 \in 1..Len(j) /\ 1 \in 1..Len(w)
    BY <1>0, <1>3, <2>1 DEF ByteString
  <2> HIDE DEF w
  <2>3. w[1] = S[1]
    BY <1>2, <1>4, <2>1, <2>2, PrefixOfString DEF w
  <2> QED
    BY <1>1, <1>2, <1>3, <2>1, <2>2, <2>3
<1>6. /\ A \in Seq(ByteString) /\ A # <<>> /\ Len(A) = m
      /\ \A i \in 1..n : A[i + 1] = p[i]
      /\ \A i \in 1..m : SepFree(A[i])
  BY <1>1, NamesAre
<1>7. /\ B \in Seq(ByteString) /\ B # <<>> /\ Len(B) = m + 1
      /\ \A i \in 1..m : B[i + 1] = r[i]
      /\ \A i \in 1..(m + 1) : SepFree(B[i])
  BY <1>1, <1>5, NamesAre
<1>8. S = joinBucketPath(B)
  BY <1>5, PathIs
<1> HIDE DEF A, B, S
<1>9. Reads(A, m, S)
  BY <1>0, <1>2, <1>3, <1>4, <1>6, PathReads
<1>10. Reads(B, m, S)
  <2>1. Len(B) - 1 = m
    BY <1>1, <1>7
  <2> QED
    BY <1>7, <1>8, <2>1, ReadsJoin
<1>11. \A i \in 1..m : A[i] = B[i]
  <2> HIDE DEF m
  <2>1. m <= Len(A) /\ m <= Len(B) /\ \A i \in 1..m : SepFree(A[i]) /\ SepFree(B[i])
    BY <1>1, <1>6, <1>7
  <2> QED
    BY <1>1, <1>6, <1>7, <1>9, <1>10, <2>1, SameStart
<1>12. \A i \in 1..n : p[i] = r[i]
  <2> TAKE i \in 1..n
  <2>1. i + 1 \in 1..m /\ i \in 1..m
    BY <1>1
  <2> QED
    BY <1>6, <1>7, <1>11, <2>1
<1>13. Len(r) > 1 /\ Len(r) - 1 = n
  <2> DEFINE l == Len(r)
  <2>1. n \in 1..8 /\ l = n + 1
    BY <1>1, <1>5
  <2> HIDE DEF n, l
  <2>2. l > 1 /\ l - 1 = n
    BY <2>1
  <2> QED
    BY <2>2 DEF l
<1>14. Parent(r) \in Path /\ Len(Parent(r)) = n /\ \A i \in 1..n : Parent(r)[i] = r[i]
  BY <1>13, ParentIs
<1> QED
  BY <1>12, <1>13, <1>14, SamePath

(* And the name of the child is the rest of its key. *)
LEMMA ChildKey ==
    ASSUME NEW r \in Path, Len(r) > 1
    PROVE  /\ IsPrefix(IndexPrefix[Parent(r)], IndexKey[r])
           /\ IndexKey[r] = IndexPrefix[Parent(r)] \o Last(r)
<1> DEFINE p == Parent(r)
           n == Len(r)
           A == NamesOf(n, p)
           j == joinBucketPath(A)
           x == Last(r)
<1>0. Index \in ByteString /\ Nil \in ByteString
  BY DEF Index, Nil, ByteString
<1>1. p \in Path /\ Len(p) = n - 1 /\ x \in ByteString /\ n \in 0..9 /\ n \in 1..8 /\ r \in Seq(ByteString)
  <2>1. p \in Path /\ Len(p) = n - 1 /\ x \in ByteString
    BY ParentIs
  <2>2. n \in 0..9 /\ n \in 1..8
    BY PathIs
  <2> QED
    BY <2>1, <2>2, PathAssumption
<1>2. Len(p) + 1 = n
  BY <1>1
<1>3. A \in Seq(ByteString) /\ A # <<>> /\ j \in ByteString
  BY <1>1, NamesAre, JoinNames
<1>4. NamesOf(n, r) = A \o <<x>>
  <2>1. r = p \o <<x>>
    BY <1>1 DEF Parent, Last
  <2>2. p \in Seq(ByteString) /\ Itoa(n) \in ByteString
    BY <1>1, PathAssumption, DigitIs
  <2> HIDE DEF p, x, n
  <2> QED
    BY <1>1, <2>1, <2>2 DEF NamesOf
<1>5. BucketPath(r) = With(j, x)
  <2>1. BucketPath(r) = joinBucketPath(NamesOf(n, r))
    BY PathIs
  <2> HIDE DEF A, x
  <2> QED
    BY <1>1, <1>3, <1>4, <2>1, JoinAppend
<1>6. IndexKey[r] = With(Index, With(j, x)) /\ IndexPrefix[p] = With(Index, With(j, Nil))
  <2>1. IndexKey[r] = With(Index, With(j, x))
    BY <1>5, KeysAre
  <2>2. IndexPrefix[p] = With(Index, With(joinBucketPath(NamesOf(Len(p) + 1, p)), Nil))
    BY <1>1, KeysAre
  <2> QED
    BY <1>2, <2>1, <2>2
<1>7. With(j, x) \in ByteString /\ With(j, Nil) \in ByteString
  BY <1>0, <1>1, <1>3, WithIs
<1> HIDE DEF j, x, p
<1>8. IsPrefix(Nil, x)
  <2>1. Len(Nil) = 0 /\ Len(x) \in Nat
    BY <1>1 DEF Nil, ByteString
  <2> QED
    BY <1>0, <1>1, <2>1, PrefixOfString
<1>9. IsPrefix(With(j, Nil), With(j, x))
  BY <1>0, <1>1, <1>3, <1>8, PrefixOfWith
<1>10. IsPrefix(With(Index, With(j, Nil)), With(Index, With(j, x)))
  BY <1>0, <1>7, <1>9, PrefixOfWith
<1>11. With(Index, With(j, x)) = With(Index, With(j, Nil)) \o x
  <2> DEFINE T == 0..255
  <2> HIDE DEF T
  <2>1. Index \in Seq(T) /\ j \in Seq(T) /\ x \in Seq(T) /\ <<Sep>> \in Seq(T)
    BY <1>0, <1>1, <1>3 DEF ByteString, T, Sep
  <2>2. ASSUME NEW a \in Seq(T), NEW s \in Seq(T), NEW y \in Seq(T)
        PROVE  a \o (s \o y) = (a \o s) \o y
    OBVIOUS
  <2>3. \A s \in Seq(T) : s \o <<>> = s
    OBVIOUS
  <2> QED
    BY <2>1, <2>2, <2>3 DEF With, Nil
<1> QED
  BY <1>6, <1>10, <1>11 DEF p, x

-----------------------------------------------------------------------------
(* The order of the flat keys, as the iterators use it.                    *)

(* A byte of s, or less than any byte behind its end. *)
At(s, i) == IF i <= Len(s) THEN s[i] ELSE -1

Parts(s, t, i) == At(s, i) < At(t, i) /\ \A j \in 1..(i - 1) : At(s, j) = At(t, j)

(* The bytes of a string, and what lies behind them. *)
LEMMA AtIs ==
    ASSUME NEW s \in ByteString, NEW i \in Nat \ {0}
    PROVE  /\ Len(s) \in Nat /\ At(s, i) \in Int /\ At(s, i) >= -1
           /\ i <= Len(s) => At(s, i) = s[i] /\ At(s, i) >= 0
           /\ At(s, i) >= 0 => i <= Len(s)
<1> DEFINE T == 0..255
<1>1. s \in Seq(T)
  BY DEF ByteString
<1> HIDE DEF T
<1>2. Len(s) \in Nat /\ (i <= Len(s) => s[i] \in T)
  BY <1>1
<1> DEFINE n == Len(s)
           x == s[i]
           y == At(s, i)
<1>3. n \in Nat /\ (i <= n => x \in 0..255) /\ y = IF i <= n THEN x ELSE -1
  BY <1>2 DEF At, T
<1> HIDE DEF n, x, y
<1>4. y \in Int /\ y >= -1 /\ (i <= n => y = x /\ y >= 0) /\ (y >= 0 => i <= n)
  BY <1>3
<1> QED
  BY <1>3, <1>4 DEF n, x, y

(* bytes.Compare finds the first byte in which two strings differ. *)
LEMMA BeforeIs ==
    ASSUME NEW s \in ByteString, NEW t \in ByteString
    PROVE  Before(s, t) <=> \E i \in Nat \ {0} : Parts(s, t, i)
<1> DEFINE m == Len(s)
           n == Len(t)
<1>1. m \in Nat /\ n \in Nat
  BY DEF ByteString
<1>2. \A i \in Nat \ {0} : At(s, i) \in Int /\ At(t, i) \in Int
                           /\ (i <= m => At(s, i) = s[i] /\ At(s, i) >= 0) /\ (At(s, i) >= 0 => i <= m)
                           /\ (i <= n => At(t, i) = t[i] /\ At(t, i) >= 0) /\ (At(t, i) >= 0 => i <= n)
                           /\ At(s, i) >= -1
  BY AtIs
<1>3. IsPrefix(s, t) <=> (m <= n /\ \A i \in 1..m : s[i] = t[i])
  BY PrefixOfString
<1>4. Before(s, t) <=> \/ m < n /\ IsPrefix(s, t)
                       \/ \E i \in 1..m : i <= n /\ s[i] < t[i] /\ \A j \in 1..(i - 1) : s[j] = t[j]
  BY DEF Before
<1> HIDE DEF m, n
<1>5. ASSUME m < n, IsPrefix(s, t) PROVE \E i \in Nat \ {0} : Parts(s, t, i)
  <2>1. m + 1 \in Nat \ {0} /\ m + 1 <= n /\ ~(m + 1 <= m)
    BY <1>1, <1>5
  <2>2. At(s, m + 1) < At(t, m + 1)
    BY <1>2, <2>1
  <2>3. \A j \in 1..((m + 1) - 1) : At(s, j) = At(t, j)
    BY <1>1, <1>2, <1>3, <1>5
  <2> QED
    BY <2>1, <2>2, <2>3 DEF Parts
<1>6. ASSUME NEW i \in 1..m, i <= n, s[i] < t[i], \A j \in 1..(i - 1) : s[j] = t[j]
      PROVE  \E k \in Nat \ {0} : Parts(s, t, k)
  <2>1. i \in Nat \ {0} /\ i <= m /\ \A j \in 1..(i - 1) : j \in Nat \ {0} /\ j <= m /\ j <= n
    BY <1>1, <1>6
  <2>2. At(s, i) = s[i] /\ At(t, i) = t[i] /\ \A j \in 1..(i - 1) : At(s, j) = s[j] /\ At(t, j) = t[j]
    BY <1>2, <1>6, <2>1
  <2> QED
    BY <1>6, <2>1, <2>2 DEF Parts
<1>7. ASSUME NEW i \in Nat \ {0}, Parts(s, t, i)
      PROVE  Before(s, t)
  <2>1. At(s, i) < At(t, i) /\ \A j \in 1..(i - 1) : At(s, j) = At(t, j)
    BY <1>7 DEF Parts
  <2>2. i <= n
    BY <1>2, <2>1
  <2>3. CASE i <= m
    <3>1. i \in 1..m /\ \A j \in 1..(i - 1) : j \in Nat \ {0} /\ j <= m /\ j <= n
      BY <1>1, <2>2, <2>3
    <3>2. s[i] < t[i] /\ \A j \in 1..(i - 1) : s[j] = t[j]
      BY <1>2, <2>1, <2>2, <2>3, <3>1
    <3> QED
      BY <1>4, <2>2, <3>1, <3>2
  <2>4. CASE m < i
    <3>1. m < n /\ m <= n
      BY <1>1, <2>2, <2>4
    <3>2. \A j \in 1..m : j \in 1..(i - 1) /\ j \in Nat \ {0} /\ j <= m /\ j <= n
      BY <1>1, <2>2, <2>4
    <3>3. \A j \in 1..m : s[j] = t[j]
      BY <1>2, <2>1, <3>2
    <3> QED
      BY <1>3, <1>4, <3>1, <3>3
  <2> QED
    BY <1>1, <2>3, <2>4
<1> QED
  BY <1>4, <1>5, <1>6, <1>7

(* It orders the byte strings: no two are alike to it. *)
LEMMA BeforeOrders ==
    ASSUME NEW s \in ByteString, NEW t \in ByteString
    PROVE  /\ ~Before(s, s)
           /\ s # t => Before(s, t) \/ Before(t, s)
           /\ \A u \in ByteString : Before(s, t) /\ Before(t, u) => Before(s, u)
<1>1. \A x \in ByteString : \A i \in Nat \ {0} : At(x, i) \in Int
  BY AtIs
<1>2. ~Before(s, s)
  BY <1>1, BeforeIs DEF Parts
<1>3. ASSUME NEW u \in ByteString, Before(s, t), Before(t, u) PROVE Before(s, u)
  <2>1. PICK i \in Nat \ {0} : Parts(s, t, i)
    BY <1>3, BeforeIs
  <2>2. PICK j \in Nat \ {0} : Parts(t, u, j)
    BY <1>3, BeforeIs
  <2>3. CASE i <= j
    <3>1. At(s, i) < At(t, i) /\ \A k \in 1..(i - 1) : At(s, k) = At(t, k)
      BY <2>1 DEF Parts
    <3>2. At(t, i) <= At(u, i) /\ \A k \in 1..(i - 1) : At(t, k) = At(u, k)
      <4>1. \A k \in 1..(i - 1) : k \in 1..(j - 1)
        BY <2>3
      <4>2. i \in 1..(j - 1) \/ i = j
        BY <2>3
      <4> QED
        BY <1>1, <2>2, <4>1, <4>2 DEF Parts
    <3>3. Parts(s, u, i)
      BY <1>1, <3>1, <3>2 DEF Parts
    <3> QED
      BY <3>3, BeforeIs
  <2>4. CASE j < i
    <3>1. At(t, j) < At(u, j) /\ \A k \in 1..(j - 1) : At(t, k) = At(u, k)
      BY <2>2 DEF Parts
    <3>2. At(s, j) = At(t, j) /\ \A k \in 1..(j - 1) : At(s, k) = At(t, k)
      <4>1. j \in 1..(i - 1) /\ \A k \in 1..(j - 1) : k \in 1..(i - 1)
        BY <2>4
      <4> QED
        BY <2>1, <4>1 DEF Parts
    <3>3. Parts(s, u, j)
      BY <3>1, <3>2 DEF Parts
    <3> QED
      BY <3>3, BeforeIs
  <2> QED
    BY <2>3, <2>4
<1>4. ASSUME s # t PROVE Before(s, t) \/ Before(t, s)
  <2> DEFINE D == {i \in Nat : i # 0 /\ At(s, i) # At(t, i)}
  <2>1. D # {}
    <3> SUFFICES ASSUME \A i \in Nat \ {0} : At(s, i) = At(t, i) PROVE s = t
      BY <1>4
    <3> DEFINE m == Len(s)
               n == Len(t)
    <3>1. m \in Nat /\ n \in Nat
      BY DEF ByteString
    <3>2. \A i \in Nat \ {0} : (i <= m => At(s, i) = s[i] /\ At(s, i) >= 0) /\ (At(s, i) >= 0 => i <= m)
                               /\ (i <= n => At(t, i) = t[i] /\ At(t, i) >= 0) /\ (At(t, i) >= 0 => i <= n)
      BY AtIs
    <3> HIDE DEF m, n
    <3>3. m <= n
      <4>1. CASE m = 0
        BY <3>1, <4>1
      <4>2. CASE m # 0
        BY <3>1, <3>2, <4>2
      <4> QED
        BY <4>1, <4>2
    <3>4. n <= m
      <4>1. CASE n = 0
        BY <3>1, <4>1
      <4>2. CASE n # 0
        BY <3>1, <3>2, <4>2
      <4> QED
        BY <4>1, <4>2
    <3>5. m = n /\ \A i \in 1..m : s[i] = t[i]
      <4>1. m = n
        BY <3>1, <3>3, <3>4
      <4>2. \A i \in 1..m : i \in Nat \ {0} /\ i <= m /\ i <= n
        BY <3>1, <4>1
      <4> QED
        BY <3>2, <4>1, <4>2
    <3> QED
      BY <3>5, SameString DEF m, n
  <2>2. PICK i \in D : \A j \in D : i <= j
    BY <2>1, Least
  <2>3. i \in Nat \ {0} /\ At(s, i) # At(t, i) /\ \A j \in 1..(i - 1) : At(s, j) = At(t, j)
    BY <2>2
  <2>4. At(s, i) < At(t, i) \/ At(t, i) < At(s, i)
    BY <1>1, <2>3
  <2>5. Parts(s, t, i) \/ Parts(t, s, i)
    BY <2>3, <2>4 DEF Parts
  <2> QED
    BY <2>3, <2>5, BeforeIs
<1> QED
  BY <1>2, <1>3, <1>4

(* db.BytesPrefix raises the last byte of a prefix that ends below 0xff. *)
LEMMA LimitIs ==
    ASSUME NEW s \in ByteString, s # <<>>, s[Len(s)] < 255
    PROVE  /\ BytesPrefixLimit(s) \in ByteString /\ Len(BytesPrefixLimit(s)) = Len(s)
           /\ BytesPrefixLimit(s)[Len(s)] = s[Len(s)] + 1
           /\ \A i \in 1..(Len(s) - 1) : BytesPrefixLimit(s)[i] = s[i]
<1> DEFINE n == Len(s)
           low == {i \in 1..n : s[i] < 255}
           top == CHOOSE i \in low : \A j \in low : j <= i
           T == 0..255
           c == SubSeq(s, 1, n - 1)
           x == s[n] + 1
<1>1. s \in Seq(T) /\ n \in Nat \ {0} /\ s[n] \in T /\ s[n] < 255
  <2>1. s \in Seq(T)
    BY DEF ByteString
  <2> HIDE DEF T
  <2>2. n \in Nat \ {0} /\ s[n] \in T
    BY <2>1
  <2> QED
    BY <2>1, <2>2
<1>2. n \in low /\ \A j \in low : j <= n
  BY <1>1
<1>3. top = n
  <2>1. top \in low /\ \A j \in low : j <= top
    BY <1>2
  <2>2. top <= n /\ n <= top /\ top \in Int /\ n \in Int
    <3>1. top \in 1..n
      BY <2>1
    <3> QED
      BY <1>1, <1>2, <2>1, <3>1
  <2> HIDE DEF top
  <2> QED
    BY <2>2
<1>4. BytesPrefixLimit(s) = Append(c, x)
  <2>1. low # {}
    BY <1>2
  <2>2. BytesPrefixLimit(s) = Append(SubSeq(s, 1, top - 1), s[top] + 1)
    BY <2>1 DEF BytesPrefixLimit
  <2> HIDE DEF top
  <2> QED
    BY <1>3, <2>2
<1>5. x \in T
  <2> DEFINE y == s[n]
  <2>1. y \in 0..255 /\ y < 255
    BY <1>1
  <2> HIDE DEF y
  <2>2. y + 1 \in 0..255
    BY <2>1
  <2> QED
    BY <2>2 DEF y
<1>6. c \in Seq(T) /\ Len(c) = n - 1 /\ \A i \in 1..(n - 1) : c[i] = s[i]
  <2>1. n - 1 \in Nat /\ n - 1 <= Len(s)
    BY <1>1
  <2> DEFINE k == n - 1
  <2> HIDE DEF T, k
  <2>2. SubSeq(s, 1, k) \in Seq(T) /\ Len(SubSeq(s, 1, k)) = k /\ \A i \in 1..k : SubSeq(s, 1, k)[i] = s[i]
    <3>1. k \in Nat /\ k <= Len(s) /\ s \in Seq(T)
      BY <1>1, <2>1 DEF k
    <3> QED
      BY <3>1
  <2> QED
    BY <2>2 DEF k
<1> HIDE DEF c, x
<1>7. /\ Append(c, x) \in Seq(T) /\ Len(Append(c, x)) = n
      /\ Append(c, x)[n] = x /\ \A i \in 1..(n - 1) : Append(c, x)[i] = c[i]
  <2> HIDE DEF T, n
  <2> QED
    BY <1>1, <1>5, <1>6
<1> QED
  BY <1>4, <1>6, <1>7 DEF x, ByteString

(* The keys from such a prefix up to its limit are those that start with   *)
(* it: neither end of the range cuts off one too many or too few.          *)
LEMMA RangeIsPrefix ==
    ASSUME NEW s \in ByteString, s # <<>>, s[Len(s)] < 255, NEW f \in ByteString
    PROVE  ~Before(f, s) /\ Before(f, BytesPrefixLimit(s)) <=> IsPrefix(s, f)
<1> DEFINE m == Len(s)
           t == BytesPrefixLimit(s)
<1>1. t \in ByteString /\ Len(t) = m /\ t[m] = s[m] + 1 /\ \A i \in 1..(m - 1) : t[i] = s[i]
  BY LimitIs
<1>2. m \in Nat \ {0}
  BY DEF ByteString
<1> HIDE DEF t
<1>3. \A i \in Nat \ {0} : /\ At(s, i) \in Int /\ At(t, i) \in Int /\ At(f, i) \in Int
                           /\ At(s, i) >= -1 /\ At(f, i) >= -1
                           /\ (i <= m => At(s, i) = s[i] /\ At(t, i) = t[i] /\ At(s, i) >= 0)
                           /\ (~(i <= m) => At(s, i) = -1 /\ At(t, i) = -1)
                           /\ (At(f, i) >= 0 => i <= Len(f))
                           /\ (i <= Len(f) => At(f, i) = f[i])
  <2> TAKE i \in Nat \ {0}
  <2>1. /\ At(s, i) \in Int /\ At(t, i) \in Int /\ At(f, i) \in Int /\ At(s, i) >= -1 /\ At(f, i) >= -1
        /\ (At(f, i) >= 0 => i <= Len(f)) /\ (i <= Len(f) => At(f, i) = f[i])
        /\ (i <= m => At(s, i) = s[i] /\ At(s, i) >= 0)
    BY <1>1, AtIs
  <2>2. (i <= m => At(t, i) = t[i]) /\ (~(i <= m) => At(s, i) = -1 /\ At(t, i) = -1)
    BY <1>1 DEF At
  <2> QED
    BY <2>1, <2>2
<1>4. IsPrefix(s, f) <=> (m <= Len(f) /\ \A i \in 1..m : s[i] = f[i])
  BY PrefixOfString
<1>5. Len(f) \in Nat
  BY DEF ByteString
<1> HIDE DEF m
<1>6. /\ At(t, m) = At(s, m) + 1
      /\ \A i \in 1..(m - 1) : At(t, i) = At(s, i)
  <2>1. m \in Nat \ {0} /\ m <= m /\ \A i \in 1..(m - 1) : i \in Nat \ {0} /\ i <= m
    BY <1>2
  <2> QED
    BY <1>1, <1>3, <2>1
<1>7. IsPrefix(s, f) <=> \A i \in 1..m : At(f, i) = At(s, i)
  <2>1. \A i \in 1..m : i \in Nat \ {0} /\ i <= m
    BY <1>2
  <2>2. ASSUME IsPrefix(s, f) PROVE \A i \in 1..m : At(f, i) = At(s, i)
    <3>1. \A i \in 1..m : i <= Len(f)
      BY <1>2, <1>4, <1>5, <2>2
    <3> QED
      BY <1>3, <1>4, <2>1, <2>2, <3>1
  <2>3. ASSUME \A i \in 1..m : At(f, i) = At(s, i) PROVE IsPrefix(s, f)
    <3>1. \A i \in 1..m : i <= Len(f) /\ s[i] = f[i]
      BY <1>3, <2>1, <2>3
    <3>2. m \in 1..m
      BY <1>2
    <3> QED
      BY <1>4, <3>1, <3>2
  <2> QED
    BY <2>2, <2>3
<1>8. ASSUME IsPrefix(s, f) PROVE ~Before(f, s) /\ Before(f, t)
  <2>1. \A i \in 1..m : At(f, i) = At(s, i)
    BY <1>7, <1>8
  <2>2. m \in 1..m /\ \A i \in 1..(m - 1) : i \in 1..m
    BY <1>2
  <2>3. Parts(f, t, m)
    <3>1. At(f, m) < At(t, m)
      BY <1>2, <1>3, <1>6, <2>1, <2>2
    <3>2. \A i \in 1..(m - 1) : At(f, i) = At(t, i)
      BY <1>6, <2>1, <2>2
    <3> QED
      BY <3>1, <3>2 DEF Parts
  <2>4. ASSUME NEW i \in Nat \ {0}, Parts(f, s, i) PROVE FALSE
    <3>1. At(f, i) < At(s, i)
      BY <2>4 DEF Parts
    <3>2. CASE i <= m
      <4>1. i \in 1..m
        BY <1>2, <3>2
      <4> QED
        BY <1>3, <2>1, <3>1, <4>1
    <3>3. CASE ~(i <= m)
      BY <1>3, <3>1, <3>3
    <3> QED
      BY <3>2, <3>3
  <2> QED
    BY <1>1, <1>2, <2>3, <2>4, BeforeIs
<1>9. ASSUME ~Before(f, s), Before(f, t) PROVE IsPrefix(s, f)
  <2>1. PICK i \in Nat \ {0} : Parts(f, t, i)
    BY <1>1, <1>9, BeforeIs
  <2>2. At(f, i) < At(t, i) /\ \A j \in 1..(i - 1) : At(f, j) = At(t, j)
    BY <2>1 DEF Parts
  <2>3. \A k \in Nat \ {0} : ~Parts(f, s, k)
    BY <1>9, BeforeIs
  <2>4. i <= m
    BY <1>3, <2>2
  <2>5. \A j \in 1..(i - 1) : At(f, j) = At(s, j)
    <3>1. \A j \in 1..(i - 1) : j \in 1..(m - 1)
      BY <1>2, <2>4
    <3> QED
      BY <1>6, <2>2, <3>1
  <2>6. ~(At(f, i) < At(s, i))
    BY <2>3, <2>5 DEF Parts
  <2>7. i = m
    <3>1. i \in 1..(m - 1) \/ i = m
      BY <1>2, <2>4
    <3> QED
      BY <1>6, <2>2, <2>6, <3>1
  <2>8. At(f, m) = At(s, m)
    BY <1>2, <1>3, <1>6, <2>2, <2>6, <2>7
  <2>9. \A j \in 1..m : j = m \/ j \in 1..(m - 1)
    BY <1>2
  <2> QED
    BY <1>7, <2>5, <2>7, <2>8, <2>9
<1> QED
  BY <1>8, <1>9 DEF t
=============================================================================
