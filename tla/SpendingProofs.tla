--------------------------- MODULE SpendingProofs ---------------------------
(***************************************************************************)
(* Spending.tla for any coins, sessions, amounts, chains and heights.      *)
(*                                                                         *)
(* The first parts are about what a request computes, and are invariants   *)
(* of the loops it computes it with: the histories of TxHistory (Batches,  *)
(* Selected), the heap and the greedy pass of CoinSelection (HeapBut, Kept, *)
(* Passed), and the turns over the fee (Turned).  A LET function of the    *)
(* model is named by the equation it satisfies (..Loop), shown to exist    *)
(* with TurnsExist, and followed turn by turn with Turn.                   *)
(*                                                                         *)
(* The last part is about the interleaving.  LedgerInv says that a coin    *)
(* enters the ledger once and that requests hold coins of the ledger;      *)
(* PickedInv and PromiseInv, which rest on it, strengthen PickedMature and *)
(* PromisedOnce.  Of the selection they use only that it names coins it    *)
(* was offered (SelectionPicksOffered).                                    *)
(***************************************************************************)
EXTENDS Spending, FiniteSetTheorems, WellFoundedInduction, TLAPS

(***************************************************************************)
(* Loops                                                                   *)
(***************************************************************************)
(* What holds at first and after each turn holds at every turn. *)
LEMMA Turn ==
    ASSUME NEW n \in Nat, NEW G, 0 \in G, \A i \in 0..(n - 1) : i \in G => i + 1 \in G
    PROVE  \A i \in 0..n : i \in G
<1> DEFINE T == {i \in Nat : i <= n /\ i \notin G}
<1>1. ASSUME T # {} PROVE FALSE
  <2>1. IsWellFoundedOn(OpToRel(<, Nat), Nat)
    BY NatLessThanWellFounded
  <2>2. PICK x \in T : \A y \in T : ~(<<y, x>> \in OpToRel(<, Nat))
    BY <1>1, <2>1, WFMin
  <2>3. \A y \in T : ~(y < x)
    BY <2>2 DEF OpToRel
  <2>4. x # 0 /\ x \in Nat /\ x <= n /\ x \notin G
    OBVIOUS
  <2>5. x - 1 \in 0..(n - 1) /\ x - 1 \in Nat /\ x - 1 < x /\ x - 1 <= n
    BY <2>4
  <2>6. x - 1 \in G
    BY <2>3, <2>5
  <2>7. (x - 1) + 1 \in G
    BY <2>5, <2>6
  <2> QED BY <2>4, <2>7
<1> QED BY <1>1

(* f[0] is a and every further value what F makes of the one before. *)
Unrolls(f, n, a, F) == f = [i \in 0..n |-> IF i = 0 THEN a ELSE F[<<f[i - 1], i>>]]

(* A function whose every value is made from the one before exists. *)
LEMMA TurnsExist ==
    ASSUME NEW n \in Nat, NEW S, NEW a \in S, NEW F \in [S \X (1..n) -> S]
    PROVE  \E f \in [0..n -> S] : Unrolls(f, n, a, F)
<1> DEFINE P(k) == \E f \in [0..k -> S] : \A i \in 0..k : f[i] = IF i = 0 THEN a ELSE F[<<f[i - 1], i>>]
           G == {k \in 0..n : P(k)}
<1>1. P(0)
  <2> DEFINE f == [i \in 0..0 |-> a]
  <2>1. f \in [0..0 -> S] /\ \A i \in 0..0 : f[i] = a /\ i = 0
    OBVIOUS
  <2> QED BY <2>1
<1>2. ASSUME NEW k \in 0..(n - 1), P(k) PROVE P(k + 1)
  <2>1. PICK g \in [0..k -> S] : \A i \in 0..k : g[i] = IF i = 0 THEN a ELSE F[<<g[i - 1], i>>]
    BY <1>2
  <2> DEFINE f == [i \in 0..(k + 1) |-> IF i <= k THEN g[i] ELSE F[<<g[k], k + 1>>]]
  <2>2. F[<<g[k], k + 1>>] \in S
    <3>1. k \in 0..k /\ k + 1 \in 1..n
      OBVIOUS
    <3>2. g[k] \in S
      BY <3>1
    <3> QED BY <3>1, <3>2
  <2>3. f \in [0..(k + 1) -> S]
    BY <2>2
  <2>4. ASSUME NEW i \in 0..(k + 1) PROVE f[i] = IF i = 0 THEN a ELSE F[<<f[i - 1], i>>]
    <3>1. CASE i <= k
      <4>1. i \in 0..k /\ f[i] = g[i] /\ (i # 0 => f[i - 1] = g[i - 1])
        BY <3>1
      <4> HIDE DEF f
      <4> QED BY <4>1, <2>1
    <3>2. CASE i = k + 1
      <4>1. i # 0 /\ f[i] = F[<<g[k], k + 1>>] /\ f[i - 1] = g[k]
        BY <3>2
      <4> HIDE DEF f
      <4> QED BY <4>1, <3>2
    <3> QED BY <3>1, <3>2
  <2> HIDE DEF f
  <2> QED BY <2>3, <2>4
<1> HIDE DEF P
<1>3. 0 \in G /\ \A i \in 0..(n - 1) : i \in G => i + 1 \in G
  BY <1>1, <1>2
<1>4. n \in G
  <2> HIDE DEF G
  <2>1. \A i \in 0..n : i \in G
    BY <1>3, Turn
  <2> QED BY <2>1
<1>5. PICK f \in [0..n -> S] : \A i \in 0..n : f[i] = IF i = 0 THEN a ELSE F[<<f[i - 1], i>>]
  BY <1>4 DEF P
<1>6. Unrolls(f, n, a, F)
  BY <1>5 DEF Unrolls
<1> QED BY <1>6

(***************************************************************************)
(* Histories                                                               *)
(***************************************************************************)
(* Transactions low to n of block h, of which there are n - low + 1. *)
Part(h, low, n) == {<<h, i>> : i \in low..n}

(* How many transactions a part of a block holds. *)
LEMMA BlockCount ==
    ASSUME NEW h, NEW low \in Nat, NEW n \in Nat, low <= n + 1
    PROVE  /\ IsFiniteSet(Part(h, low, n))
           /\ Cardinality(Part(h, low, n)) = n - low + 1
<1> DEFINE D == low..n
           T == {<<h, i>> : i \in D}
           f == [i \in D |-> <<h, i>>]
<1>1. IsFiniteSet(D) /\ Cardinality(D) = n - low + 1
  <2>1. low \in Int /\ n \in Int
    OBVIOUS
  <2>2. IsFiniteSet(D) /\ Cardinality(D) = IF low > n THEN 0 ELSE n - low + 1
    BY <2>1, FS_Interval
  <2> HIDE DEF D
  <2> QED BY <2>2
<1>2. f \in Bijection(D, T)
  <2>1. f \in [D -> T] /\ \A t \in T : \E i \in D : f[i] = t
    OBVIOUS
  <2>2. \A i, j \in D : f[i] = f[j] => i = j
    OBVIOUS
  <2> HIDE DEF f, D, T
  <2>3. f \in Injection(D, T)
    BY <2>1, <2>2 DEF Injection, IsInjective
  <2>4. f \in Surjection(D, T)
    BY <2>1 DEF Surjection
  <2> QED BY <2>3, <2>4 DEF Bijection
<1>3. ExistsBijection(D, T)
  BY <1>2 DEF ExistsBijection
<1> HIDE DEF D, T
<1> QED BY <1>1, <1>3, FS_Bijection DEF D, T, Part

(* A fetch is the transactions of its blocks. *)
LEMMA FetchIs ==
    ASSUME NEW related \in Seq(Nat), NEW start \in Nat, NEW end \in Nat, start > 0, end <= Len(related) + 1
    PROVE  /\ \A t \in FetchScriptHashRelatedTx(related, start, end) :
                /\ t[1] \in start..(end - 1) /\ t[2] \in 1..related[t[1]] /\ t = <<t[1], t[2]>>
           /\ \A h \in start..(end - 1) : \A i \in 1..related[h] :
                <<h, i>> \in FetchScriptHashRelatedTx(related, start, end)
<1>1. ASSUME NEW t \in FetchScriptHashRelatedTx(related, start, end)
      PROVE  t[1] \in start..(end - 1) /\ t[2] \in 1..related[t[1]] /\ t = <<t[1], t[2]>>
  <2>1. PICK h \in start..(end - 1) : t \in TxsAt(related, h)
    BY DEF FetchScriptHashRelatedTx
  <2>2. PICK i \in 1..related[h] : t = <<h, i>>
    BY <2>1 DEF TxsAt
  <2> QED BY <2>2
<1>2. ASSUME NEW h \in start..(end - 1), NEW i \in 1..related[h]
      PROVE  <<h, i>> \in FetchScriptHashRelatedTx(related, start, end)
  BY DEF FetchScriptHashRelatedTx, TxsAt
<1> QED BY <1>1, <1>2

(* A batch holds finitely many transactions. *)
LEMMA FetchFinite ==
    ASSUME NEW related \in Seq(Nat), NEW start \in Nat, NEW end \in Nat, start > 0, end <= Len(related) + 1
    PROVE  IsFiniteSet(FetchScriptHashRelatedTx(related, start, end))
<1> DEFINE D == start..(end - 1)
           T == {TxsAt(related, h) : h \in D}
           f == [h \in D |-> TxsAt(related, h)]
<1>1. IsFiniteSet(D)
  <2>1. start \in Int /\ end - 1 \in Int
    OBVIOUS
  <2> QED BY <2>1, FS_Interval
<1>2. f \in Surjection(D, T)
  BY DEF Surjection
<1>3. IsFiniteSet(T)
  <2> HIDE DEF f, D, T
  <2> QED BY <1>1, <1>2, FS_Surjection
<1>4. ASSUME NEW S \in T PROVE IsFiniteSet(S)
  <2>1. PICK h \in D : S = TxsAt(related, h)
    OBVIOUS
  <2>2. related[h] \in Nat
    <3>1. h \in 1..Len(related)
      OBVIOUS
    <3> QED BY <3>1
  <2>3. IsFiniteSet(Part(h, 1, related[h]))
    BY <2>2, BlockCount
  <2>4. S = Part(h, 1, related[h])
    BY <2>1 DEF TxsAt, Part
  <2> QED BY <2>3, <2>4
<1>5. IsFiniteSet(UNION T)
  <2> HIDE DEF T
  <2> QED BY <1>3, <1>4, FS_UNION
<1> QED BY <1>5 DEF FetchScriptHashRelatedTx

(* Two batches that meet have no transaction in common, and are one batch  *)
(* of as many transactions.                                                *)
LEMMA FetchSplit ==
    ASSUME NEW related \in Seq(Nat), NEW start \in Nat, NEW mid \in Nat, NEW end \in Nat,
           start > 0, start <= mid, mid <= end, end <= Len(related) + 1
    PROVE  /\ FetchScriptHashRelatedTx(related, start, end) =
                FetchScriptHashRelatedTx(related, mid, end) \cup FetchScriptHashRelatedTx(related, start, mid)
           /\ Cardinality(FetchScriptHashRelatedTx(related, start, end)) =
                Cardinality(FetchScriptHashRelatedTx(related, mid, end))
                + Cardinality(FetchScriptHashRelatedTx(related, start, mid))
<1> DEFINE A == FetchScriptHashRelatedTx(related, start, end)
           B == FetchScriptHashRelatedTx(related, mid, end)
           C == FetchScriptHashRelatedTx(related, start, mid)
<1>1. mid > 0 /\ mid <= Len(related) + 1
  OBVIOUS
<1>2. A = B \cup C
  <2>1. ASSUME NEW t \in A PROVE t \in B \cup C
    <3>1. t[1] \in start..(end - 1) /\ t[2] \in 1..related[t[1]] /\ t = <<t[1], t[2]>>
      BY FetchIs
    <3>2. t[1] \in mid..(end - 1) \/ t[1] \in start..(mid - 1)
      BY <3>1
    <3>3. CASE t[1] \in mid..(end - 1)
      <4>1. <<t[1], t[2]>> \in B
        BY <1>1, <3>1, <3>3, FetchIs
      <4> QED BY <3>1, <4>1
    <3>4. CASE t[1] \in start..(mid - 1)
      <4>1. <<t[1], t[2]>> \in C
        BY <1>1, <3>1, <3>4, FetchIs
      <4> QED BY <3>1, <4>1
    <3> QED BY <3>2, <3>3, <3>4
  <2>2. ASSUME NEW t \in B PROVE t \in A
    <3>1. t[1] \in mid..(end - 1) /\ t[2] \in 1..related[t[1]] /\ t = <<t[1], t[2]>>
      BY <1>1, FetchIs
    <3>2. t[1] \in start..(end - 1)
      BY <3>1
    <3>3. <<t[1], t[2]>> \in A
      BY <3>1, <3>2, FetchIs
    <3> QED BY <3>1, <3>3
  <2>3. ASSUME NEW t \in C PROVE t \in A
    <3>1. t[1] \in start..(mid - 1) /\ t[2] \in 1..related[t[1]] /\ t = <<t[1], t[2]>>
      BY <1>1, FetchIs
    <3>2. t[1] \in start..(end - 1)
      BY <3>1
    <3>3. <<t[1], t[2]>> \in A
      BY <3>1, <3>2, FetchIs
    <3> QED BY <3>1, <3>3
  <2> HIDE DEF A, B, C
  <2> QED BY <2>1, <2>2, <2>3
<1>3. B \cap C = {}
  <2>1. \A t \in B : t[1] \in mid..(end - 1)
    BY <1>1, FetchIs
  <2>2. \A t \in C : t[1] \in start..(mid - 1)
    BY <1>1, FetchIs
  <2> HIDE DEF B, C
  <2>3. ASSUME NEW t \in B, t \in C PROVE FALSE
    <3>1. t[1] \in mid..(end - 1) /\ t[1] \in start..(mid - 1)
      BY <2>1, <2>2, <2>3
    <3> QED BY <3>1
  <2> QED BY <2>3
<1>4. IsFiniteSet(B) /\ IsFiniteSet(C)
  BY <1>1, FetchFinite
<1>5. Cardinality(A) = Cardinality(B) + Cardinality(C)
  <2> HIDE DEF A, B, C
  <2>1. Cardinality(B \cup C) = Cardinality(B) + Cardinality(C) - Cardinality(B \cap C)
    BY <1>4, FS_Union
  <2>2. Cardinality(B) \in Nat /\ Cardinality(C) \in Nat
    BY <1>4, FS_CardinalityType
  <2>3. Cardinality(B \cap C) = 0
    BY <1>3, FS_EmptySet
  <2> QED BY <1>2, <2>1, <2>2, <2>3
<1> QED BY <1>2, <1>5

(* A batch of one block. *)
LEMMA FetchOne ==
    ASSUME NEW related \in Seq(Nat), NEW start \in Nat, NEW end \in Nat, start > 0, end <= Len(related) + 1,
           NEW h \in start..(end - 1)
    PROVE  /\ {t \in FetchScriptHashRelatedTx(related, start, end) : t[1] = h} =
                FetchScriptHashRelatedTx(related, h, h + 1)
           /\ FetchScriptHashRelatedTx(related, h, h + 1) = Part(h, 1, related[h])
           /\ related[h] \in Nat
           /\ Cardinality(FetchScriptHashRelatedTx(related, h, h + 1)) = related[h]
<1> DEFINE A == FetchScriptHashRelatedTx(related, start, end)
           B == FetchScriptHashRelatedTx(related, h, h + 1)
           C == Part(h, 1, related[h])
<1>1. h \in Nat /\ h > 0 /\ h + 1 \in Nat /\ h + 1 <= Len(related) + 1 /\ h \in 1..Len(related)
  OBVIOUS
<1>2. related[h] \in Nat
  BY <1>1
<1>3. B = C
  <2>1. ASSUME NEW t \in B PROVE t \in C
    <3>1. t[1] \in h..((h + 1) - 1) /\ t[2] \in 1..related[t[1]] /\ t = <<t[1], t[2]>>
      BY <1>1, FetchIs
    <3>2. t[1] = h
      BY <1>1, <3>1
    <3> QED BY <3>1, <3>2 DEF Part
  <2>2. ASSUME NEW t \in C PROVE t \in B
    <3>1. h \in h..((h + 1) - 1)
      BY <1>1
    <3> QED BY <1>1, <3>1, FetchIs DEF Part
  <2> QED BY <2>1, <2>2
<1>4. {t \in A : t[1] = h} = C
  <2>1. ASSUME NEW t \in A, t[1] = h PROVE t \in C
    <3>1. t[2] \in 1..related[t[1]] /\ t = <<t[1], t[2]>>
      BY FetchIs
    <3> QED BY <2>1, <3>1 DEF Part
  <2>2. ASSUME NEW t \in C PROVE t \in A /\ t[1] = h
    BY FetchIs DEF Part
  <2> HIDE DEF A, C
  <2> QED BY <2>1, <2>2
<1>5. Cardinality(C) = related[h]
  <2>1. Cardinality(Part(h, 1, related[h])) = related[h] - 1 + 1
    BY <1>2, BlockCount
  <2> QED BY <1>2, <2>1
<1> QED BY <1>2, <1>3, <1>4, <1>5

(* The loop of selectRelatedTx. *)
SelectLoop(txs, start, end, num, sel) ==
    sel = [i \in 0..(end - start) |->
             IF i = 0 THEN [result |-> {}, full |-> FALSE]
             ELSE Take(sel[i - 1], {t \in txs : t[1] = end - i}, num)]

(* selectRelatedTx returns what its loop has at the last turn. *)
LEMMA SelectTurns ==
    ASSUME NEW txs, NEW start \in Nat, NEW end \in Nat, start <= end, NEW num
    PROVE  \E sel :
             /\ selectRelatedTx(txs, start, end, num) = sel[end - start].result
             /\ SelectLoop(txs, start, end, num, sel)
<1> DEFINE S == [result : SUBSET txs, full : BOOLEAN]
           n == end - start
           data(i) == {t \in txs : t[1] = end - i}
           a == [result |-> {}, full |-> FALSE]
           F == [p \in S \X (1..n) |-> Take(p[1], data(p[2]), num)]
           Loop(f) == f = [i \in 0..n |-> IF i = 0 THEN a ELSE Take(f[i - 1], data(i), num)]
<1>1. n \in Nat /\ a \in S
  OBVIOUS
<1>2. F \in [S \X (1..n) -> S]
  <2> SUFFICES ASSUME NEW s \in S, NEW i \in 1..n
               PROVE  Take(s, data(i), num) \in S
    OBVIOUS
  <2>1. data(i) \in SUBSET txs
    OBVIOUS
  <2> DEFINE R == {t \in data(i) : t[2] > Cardinality(data(i)) - (num - Cardinality(s.result))}
  <2>2. [result |-> s.result \cup R, full |-> TRUE] \in S
    BY <2>1
  <2>3. [result |-> s.result \cup data(i), full |-> FALSE] \in S
    BY <2>1
  <2>4. Take(s, data(i), num) \in {s, [result |-> s.result \cup R, full |-> TRUE],
                                      [result |-> s.result \cup data(i), full |-> FALSE]}
    <3> HIDE DEF S, data
    <3> QED BY DEF Take
  <2> HIDE DEF S, data, R
  <2> QED BY <2>2, <2>3, <2>4
<1>3. PICK f \in [0..n -> S] : Unrolls(f, n, a, F)
  <2> HIDE DEF S, n, a, F
  <2> QED BY <1>1, <1>2, TurnsExist
<1>4. Loop(f)
  <2>1. ASSUME NEW i \in 0..n, i # 0 PROVE F[<<f[i - 1], i>>] = Take(f[i - 1], data(i), num)
    <3>1. i - 1 \in 0..n /\ i \in 1..n
      BY <1>1, <2>1
    <3>2. f[i - 1] \in S
      BY <3>1
    <3> HIDE DEF S, data
    <3> QED BY <3>1, <3>2
  <2> HIDE DEF F, S, data, a, n
  <2>2. \A i \in 0..n : f[i] = IF i = 0 THEN a ELSE Take(f[i - 1], data(i), num)
    BY <1>3, <2>1 DEF Unrolls
  <2> QED BY <1>3, <2>2 DEF Unrolls
<1>5. Loop(CHOOSE g : Loop(g))
  <2> HIDE DEF Loop
  <2> QED BY <1>4
<1>6. selectRelatedTx(txs, start, end, num) = (CHOOSE g : Loop(g))[n].result
  BY DEF selectRelatedTx
<1> DEFINE sel == CHOOSE g : Loop(g)
<1>7. selectRelatedTx(txs, start, end, num) = sel[n].result /\ Loop(sel)
  BY <1>5, <1>6
<1> HIDE DEF sel
<1> WITNESS sel
<1> QED BY <1>7 DEF SelectLoop

(* What is taken is newer than what is left. *)
NewerThanRest(taken, all) == \A t \in taken, u \in all \ taken : Newer(t, u)

(* Taking one block keeps the invariant of the loop: the blocks taken      *)
(* wholly are those from end - i up, or num transactions are taken, the    *)
(* newest.                                                                 *)
Selected(related, start, end, num, i, s) ==
    LET txs == FetchScriptHashRelatedTx(related, start, end) IN
    IF s.full
    THEN s.result \subseteq txs /\ Cardinality(s.result) = num /\ NewerThanRest(s.result, txs)
    ELSE s.result = FetchScriptHashRelatedTx(related, end - i, end) /\ Cardinality(s.result) <= num

(* Taking one block keeps the invariant of the loop. *)
LEMMA TakeBlock ==
    ASSUME NEW related \in Seq(Nat), NEW start \in Nat, NEW end \in Nat, start > 0,
           end <= Len(related) + 1, NEW num \in Nat, NEW i \in 0..(end - start - 1), NEW s,
           Selected(related, start, end, num, i, s), s.full = FALSE
    PROVE  Selected(related, start, end, num, i + 1,
                    Take(s, {t \in FetchScriptHashRelatedTx(related, start, end) : t[1] = end - (i + 1)}, num))
<1> DEFINE h == end - (i + 1)
           txs == FetchScriptHashRelatedTx(related, start, end)
           above == FetchScriptHashRelatedTx(related, h + 1, end)
           data == FetchScriptHashRelatedTx(related, h, h + 1)
           both == FetchScriptHashRelatedTx(related, h, end)
           new == Take(s, {t \in txs : t[1] = h}, num)
           rest == num - Cardinality(above)
<1>1. /\ h \in start..(end - 1) /\ h \in Nat /\ h > 0 /\ h + 1 \in Nat /\ h + 1 <= end /\ h < end
      /\ h + 1 <= Len(related) + 1 /\ end - i = h + 1 /\ end - (i + 1) = h /\ start <= h
  OBVIOUS
<1>2. {t \in txs : t[1] = h} = data /\ data = Part(h, 1, related[h]) /\ related[h] \in Nat
      /\ Cardinality(data) = related[h]
  <2> HIDE DEF h
  <2> QED BY <1>1, FetchOne
<1>3. s.result = above /\ Cardinality(above) <= num
  BY <1>1 DEF Selected
<1>4. both = above \cup data /\ Cardinality(both) = Cardinality(above) + Cardinality(data)
  <2> HIDE DEF h
  <2> QED BY <1>1, FetchSplit
<1>5. IsFiniteSet(above) /\ IsFiniteSet(data) /\ Cardinality(above) \in Nat
  <2> HIDE DEF h
  <2>1. IsFiniteSet(above) /\ IsFiniteSet(data)
    BY <1>1, FetchFinite
  <2> QED BY <2>1, FS_CardinalityType
<1>6. txs = both \cup FetchScriptHashRelatedTx(related, start, h)
  <2> HIDE DEF h
  <2> QED BY <1>1, FetchSplit
<1>7. /\ \A t \in above : t[1] \in (h + 1)..(end - 1)
      /\ \A t \in FetchScriptHashRelatedTx(related, start, h) : t[1] \in start..(h - 1)
  <2> HIDE DEF h
  <2>1. \A t \in above : t[1] \in (h + 1)..(end - 1)
    <3>1. h + 1 > 0
      BY <1>1
    <3> DEFINE g == h + 1
    <3>2. g \in Nat /\ g > 0
      BY <1>1, <3>1
    <3> HIDE DEF g
    <3>3. \A t \in FetchScriptHashRelatedTx(related, g, end) : t[1] \in g..(end - 1)
      BY <3>2, FetchIs
    <3> QED BY <3>3 DEF g
  <2>2. h <= Len(related) + 1
    BY <1>1
  <2>3. \A t \in FetchScriptHashRelatedTx(related, start, h) : t[1] \in start..(h - 1)
    BY <1>1, <2>2, FetchIs
  <2> QED BY <2>1, <2>3
<1>8. new = IF related[h] <= rest
            THEN [result |-> above \cup data, full |-> FALSE]
            ELSE [result |-> above \cup {t \in data : t[2] > related[h] - rest}, full |-> TRUE]
  <2> HIDE DEF h, above, data, txs
  <2> QED BY <1>2, <1>3 DEF Take
<1> HIDE DEF new
<1>9. CASE related[h] <= rest
  <2>1. new.full = FALSE /\ new.result = both
    BY <1>4, <1>8, <1>9
  <2>2. Cardinality(both) <= num
    BY <1>2, <1>4, <1>5, <1>9
  <2>3. Selected(related, start, end, num, i + 1, new)
    BY <1>1, <2>1, <2>2 DEF Selected
  <2> QED BY <2>3 DEF new
<1>10. CASE ~(related[h] <= rest)
  <2> DEFINE low == related[h] - rest + 1
             last == Part(h, low, related[h])
  <2>1. low \in Nat /\ low > 0 /\ low <= related[h] + 1 /\ related[h] - low + 1 = rest /\ rest \in Nat
    <3> DEFINE m == related[h]
               ca == Cardinality(above)
    <3>1. m \in Nat /\ ca \in Nat /\ ca <= num /\ ~(m <= num - ca)
      BY <1>2, <1>3, <1>5, <1>10
    <3> HIDE DEF m, ca
    <3>2. /\ m - (num - ca) + 1 \in Nat /\ m - (num - ca) + 1 > 0
          /\ m - (num - ca) + 1 <= m + 1 /\ m - (m - (num - ca) + 1) + 1 = num - ca
          /\ num - ca \in Nat
      BY <3>1
    <3> QED BY <3>2 DEF m, ca
  <2>2. {t \in data : t[2] > related[h] - rest} = last
    <3> DEFINE m == related[h]
               x == rest
    <3>0. m \in Nat /\ x \in Nat /\ low = m - x + 1 /\ low > 0
      BY <1>2, <2>1
    <3> HIDE DEF h, m, x
    <3>1. \A j \in 1..m : j > m - x <=> j \in low..m
      <4> HIDE DEF low
      <4> QED BY <3>0
    <3>2. low..m \subseteq 1..m
      <4> HIDE DEF low
      <4> QED BY <3>0
    <3>3. data = {<<h, j>> : j \in 1..m} /\ last = {<<h, j>> : j \in low..m}
      <4> HIDE DEF data, low
      <4> QED BY <1>2 DEF Part, m
    <3> HIDE DEF low, data, last
    <3>4. {t \in data : t[2] > m - x} = last
      <4>1. ASSUME NEW t \in data, t[2] > m - x PROVE t \in last
        <5>1. PICK j \in 1..m : t = <<h, j>>
          BY <3>3
        <5> QED BY <5>1, <4>1, <3>1, <3>3
      <4>2. ASSUME NEW t \in last PROVE t \in data /\ t[2] > m - x
        <5>1. PICK j \in low..m : t = <<h, j>>
          BY <3>3
        <5> QED BY <5>1, <3>1, <3>2, <3>3
      <4> QED BY <4>1, <4>2
    <3> QED BY <3>4 DEF m, x
  <2>3. new.full = TRUE /\ new.result = above \cup last
    BY <1>8, <1>10, <2>2
  <2>4. IsFiniteSet(last) /\ Cardinality(last) = rest
    <3> HIDE DEF h, low, rest
    <3> QED BY <1>2, <2>1, BlockCount
  <2>5. last \subseteq data
    <3> HIDE DEF h, low, rest
    <3> QED BY <2>2
  <2>6. \A t \in last : t[1] = h /\ t[2] \in low..related[h]
    <3> HIDE DEF h, low, rest
    <3> QED BY DEF Part
  <2>7. Cardinality(above \cup last) = num
    <3>1. above \cap last = {}
      <4>1. \A t \in above : t[1] # h
        <5> HIDE DEF above
        <5> QED BY <1>1, <1>7
      <4> HIDE DEF above, last
      <4> QED BY <4>1, <2>6
    <3>2. Cardinality(above \cup last) = Cardinality(above) + Cardinality(last) - Cardinality(above \cap last)
      <4> HIDE DEF above, last, rest
      <4> QED BY <1>5, <2>4, FS_Union
    <3>3. Cardinality(above \cap last) = 0
      BY <3>1, FS_EmptySet
    <3> DEFINE ca == Cardinality(above)
               cl == Cardinality(last)
    <3>4. cl = num - ca /\ ca \in Nat
      BY <2>4, <1>5
    <3> HIDE DEF ca, cl
    <3>5. ca + cl - 0 = num
      BY <3>4
    <3> QED BY <3>2, <3>3, <3>5 DEF ca, cl
  <2>8. above \cup last \subseteq txs
    <3> HIDE DEF h, above, data, last, txs
    <3> QED BY <1>4, <1>6, <2>5
  <2>9. ASSUME NEW t \in above \cup last, NEW u \in txs, u \notin above \cup last PROVE Newer(t, u)
    <3>1. t[1] \in Nat /\ t[1] >= h /\ (t[1] = h => t \in last)
      <4> HIDE DEF above, last
      <4> QED BY SMTT(30), <1>1, <1>7, <2>6
    <3>2. u \in data \/ u \in FetchScriptHashRelatedTx(related, start, h)
      <4> HIDE DEF h, above, data, last, txs
      <4> QED BY <1>4, <1>6, <2>9
    <3>3. CASE u \in FetchScriptHashRelatedTx(related, start, h)
      <4>1. u[1] \in start..(h - 1)
        BY <3>3, <1>7
      <4> QED BY SMTT(30), <3>1, <4>1, <1>1 DEF Newer
    <3>4. CASE u \in data
      <4>1. u[1] = h /\ u[2] \in 1..related[h] /\ ~(u[2] > related[h] - rest)
        <5>1. u \notin last
          BY <2>9
        <5> HIDE DEF h, rest, last
        <5>2. ~(u[2] > related[h] - rest)
          BY <2>2, <3>4, <5>1
        <5>3. u[1] = h /\ u[2] \in 1..related[h]
          BY <1>2, <3>4 DEF Part
        <5> QED BY <5>2, <5>3
      <4>2. CASE t[1] # h
        BY SMTT(30), <3>1, <4>1, <4>2, <1>1 DEF Newer
      <4>3. CASE t[1] = h
        <5>1. t[2] \in low..related[h]
          BY <3>1, <4>3, <2>6
        <5>2. t[2] > u[2]
          <6> DEFINE m == related[h]
                     x == rest
          <6>1. m \in Nat /\ x \in Nat /\ t[2] \in (m - x + 1)..m /\ u[2] \in 1..m /\ ~(u[2] > m - x)
            BY <5>1, <4>1, <2>1, <1>2
          <6> HIDE DEF m, x
          <6> QED BY SMTT(30), <6>1
        <5> HIDE DEF h, rest, last
        <5> QED BY <5>2, <4>1, <4>3 DEF Newer
      <4> QED BY <4>2, <4>3
    <3> QED BY <3>2, <3>3, <3>4
  <2>10. NewerThanRest(above \cup last, txs)
    <3> HIDE DEF above, last, txs
    <3> QED BY <2>9 DEF NewerThanRest
  <2>11. Selected(related, start, end, num, i + 1, new)
    <3> HIDE DEF above, last
    <3> QED BY <2>3, <2>7, <2>8, <2>10 DEF Selected
  <2> QED BY <2>11 DEF new
<1> QED BY <1>9, <1>10

(* selectRelatedTx: num transactions of the batch, and the newest. *)
LEMMA SelectNewest ==
    ASSUME NEW related \in Seq(Nat), NEW start \in Nat, NEW end \in Nat, start > 0, start <= end,
           end <= Len(related) + 1, NEW num \in Nat,
           Cardinality(FetchScriptHashRelatedTx(related, start, end)) > num
    PROVE  LET txs == FetchScriptHashRelatedTx(related, start, end)
               result == selectRelatedTx(txs, start, end, num)
           IN  result \subseteq txs /\ Cardinality(result) = num /\ NewerThanRest(result, txs)
<1> DEFINE txs == FetchScriptHashRelatedTx(related, start, end)
           n == end - start
<1>0. PICK sel : /\ selectRelatedTx(txs, start, end, num) = sel[end - start].result
                 /\ SelectLoop(txs, start, end, num, sel)
  <2> HIDE DEF txs
  <2> QED BY SelectTurns
<1>1. /\ selectRelatedTx(txs, start, end, num) = sel[n].result
      /\ sel = [i \in 0..n |->
                  IF i = 0 THEN [result |-> {}, full |-> FALSE]
                  ELSE Take(sel[i - 1], {t \in txs : t[1] = end - i}, num)]
  BY <1>0 DEF SelectLoop
<1> DEFINE G == {i \in 0..n : sel[i].full \in BOOLEAN /\ Selected(related, start, end, num, i, sel[i])}
<1>2. n \in Nat /\ 0 \in 0..n /\ n \in 0..n
  OBVIOUS
<1>3. sel[0] = [result |-> {}, full |-> FALSE]
  BY <1>1, <1>2
<1>4. FetchScriptHashRelatedTx(related, end - 0, end) = {}
  BY DEF FetchScriptHashRelatedTx
<1>5. 0 \in G
  <2>1. Cardinality({}) <= num
    BY FS_EmptySet
  <2>2. sel[0].full = FALSE /\ sel[0].result = {}
    BY <1>3
  <2>3. Selected(related, start, end, num, 0, sel[0])
    BY <2>1, <2>2, <1>4 DEF Selected
  <2> QED BY <1>2, <2>2, <2>3
<1>6. ASSUME NEW i \in 0..(n - 1), i \in G PROVE i + 1 \in G
  <2>1. i + 1 \in 0..n /\ i + 1 # 0 /\ (i + 1) - 1 = i /\ i \in 0..(end - start - 1)
    BY <1>2
  <2>2. sel[i + 1] = Take(sel[i], {t \in txs : t[1] = end - (i + 1)}, num)
    <3> HIDE DEF txs, n
    <3> QED BY <1>1, <2>1
  <2>3. sel[i].full \in BOOLEAN /\ Selected(related, start, end, num, i, sel[i])
    BY <1>6
  <2>4. CASE sel[i].full
    <3>1. sel[i + 1] = sel[i]
      BY <2>2, <2>4 DEF Take
    <3>2. Selected(related, start, end, num, i + 1, sel[i])
      BY <2>3, <2>4 DEF Selected
    <3> QED BY <2>1, <2>3, <3>1, <3>2
  <2>5. CASE sel[i].full = FALSE
    <3>1. Selected(related, start, end, num, i + 1, sel[i + 1])
      BY <2>1, <2>2, <2>3, <2>5, TakeBlock
    <3>2. sel[i + 1].full \in BOOLEAN
      <4> DEFINE s == sel[i]
                 d == {t \in txs : t[1] = end - (i + 1)}
      <4>1. s.full = FALSE /\ sel[i + 1] = Take(s, d, num)
        BY <2>2, <2>5
      <4> HIDE DEF s, d
      <4>2. Take(s, d, num).full \in BOOLEAN
        BY <4>1 DEF Take
      <4> QED BY <4>1, <4>2
    <3> QED BY <2>1, <3>1, <3>2
  <2> QED BY <2>3, <2>4, <2>5
<1>7. n \in G
  <2> HIDE DEF G, n
  <2>1. \A i \in 0..n : i \in G
    BY <1>2, <1>5, <1>6, Turn
  <2> QED BY <1>2, <2>1
<1>8. sel[n].full \in BOOLEAN /\ Selected(related, start, end, num, n, sel[n])
  BY <1>7
<1>9. CASE sel[n].full = FALSE
  <2>1. end - n = start
    OBVIOUS
  <2>2. Cardinality(txs) <= num
    BY <1>8, <1>9, <2>1 DEF Selected
  <2>3. Cardinality(txs) \in Nat
    <3>1. IsFiniteSet(txs)
      BY FetchFinite
    <3> QED BY <3>1, FS_CardinalityType
  <2> QED BY <2>2, <2>3
<1>10. CASE sel[n].full = TRUE
  BY <1>1, <1>8, <1>10 DEF Selected
<1> QED BY <1>8, <1>9, <1>10

(* The related transactions of the chain. *)
AllRelated(related) == FetchScriptHashRelatedTx(related, 1, Len(related) + 1)

(* taken is the answer to a request for so many. *)
Answer(related, wanted, taken) ==
    LET all == AllRelated(related)
    IN  /\ Cardinality(taken) = IF wanted < Cardinality(all) THEN wanted ELSE Cardinality(all)
        /\ NewerThanRest(taken, all)

(* The invariant of the loop over the batches: what is taken is all of the *)
(* blocks from b.end up, and does not exceed what is wanted; at the end it *)
(* is the answer.                                                          *)
Batches(related, wanted) ==
    {b \in [start : 1..(Len(related) + 1), end : 1..(Len(related) + 1),
            taken : SUBSET AllRelated(related), done : BOOLEAN] :
        IF b.done THEN Answer(related, wanted, b.taken)
        ELSE /\ b.start <= b.end
             /\ b.start = b.end => b.start = 1
             /\ b.taken = FetchScriptHashRelatedTx(related, b.end, Len(related) + 1)
             /\ Cardinality(b.taken) <= wanted}

(* The first batch satisfies the invariant of the batches. *)
LEMMA FirstBatchIs ==
    ASSUME NEW related \in Seq(Nat), NEW wanted \in Nat
    PROVE  FirstBatch(Len(related)) \in Batches(related, wanted)
<1> DEFINE n == Len(related)
           b == FirstBatch(n)
           start == IF n < BlockBatch THEN 1 ELSE n - BlockBatch + 1
<1>1. n \in Nat /\ BlockBatch \in Nat /\ BlockBatch > 0
  BY HistoryAssumption
<1>2. b = [start |-> start, end |-> n + 1, taken |-> {}, done |-> FALSE]
  BY DEF FirstBatch
<1>3. start \in 1..(n + 1) /\ n + 1 \in 1..(n + 1) /\ start <= n + 1 /\ (start = n + 1 => start = 1)
  <2> HIDE DEF n
  <2> QED BY <1>1
<1>4. FetchScriptHashRelatedTx(related, n + 1, n + 1) = {}
  <2>1. (n + 1)..((n + 1) - 1) = {}
    BY <1>1
  <2> QED BY <2>1 DEF FetchScriptHashRelatedTx
<1>5. Cardinality({}) <= wanted
  BY FS_EmptySet
<1> HIDE DEF n, start, b
<1>6. b \in Batches(related, wanted)
  BY <1>2, <1>3, <1>4, <1>5 DEF Batches, n
<1> QED BY <1>6 DEF b, n

(* calc gives the blocks just before those already read, one at least. *)
LEMMA CalcIs ==
    ASSUME NEW start \in Nat, start > 1
    PROVE  calc(start)[1] \in 1..(start - 1) /\ calc(start)[2] = start
BY HistoryAssumption DEF calc

(* Reading a batch keeps the invariant, and ends the loop or moves it      *)
(* down.                                                                   *)
LEMMA NextBatch ==
    ASSUME NEW related \in Seq(Nat), NEW wanted \in Nat, NEW b \in Batches(related, wanted)
    PROVE  /\ Batch(related, wanted, b) \in Batches(related, wanted)
           /\ ~b.done => \/ Batch(related, wanted, b).done
                         \/ Batch(related, wanted, b).end < b.end
<1> DEFINE n == Len(related)
           all == AllRelated(related)
           rTxs == FetchScriptHashRelatedTx(related, b.start, b.end)
           rest == wanted - Cardinality(b.taken)
           new == Batch(related, wanted, b)
           S == [start : 1..(n + 1), end : 1..(n + 1), taken : SUBSET all, done : BOOLEAN]
<1>1. n \in Nat /\ n + 1 \in Nat
  OBVIOUS
<1>2. b \in S /\ (b.done => Answer(related, wanted, b.taken))
  BY DEF Batches
<1>3. b.start \in Nat /\ b.end \in Nat /\ b.start > 0 /\ b.end > 0 /\ b.end <= n + 1 /\ b.start <= n + 1
      /\ b.taken \subseteq all /\ b.done \in BOOLEAN
  BY <1>1, <1>2
<1>4. CASE b.done = TRUE
  <2>1. new = b
    BY <1>4 DEF Batch
  <2> QED BY <1>4, <2>1
<1>5. CASE b.done = FALSE
  <2> DEFINE start == b.start
             end == b.end
             taken == b.taken
  <2>1. /\ start <= end /\ (start = end => start = 1)
        /\ taken = FetchScriptHashRelatedTx(related, end, n + 1)
        /\ Cardinality(taken) <= wanted
    BY <1>5 DEF Batches
  <2>2. /\ FetchScriptHashRelatedTx(related, start, n + 1) = taken \cup rTxs
        /\ Cardinality(FetchScriptHashRelatedTx(related, start, n + 1)) = Cardinality(taken) + Cardinality(rTxs)
    <3> HIDE DEF start, end, taken
    <3>1. start \in Nat /\ end \in Nat /\ start > 0 /\ end <= n + 1 /\ rTxs = FetchScriptHashRelatedTx(related, start, end)
      BY <1>3 DEF start, end
    <3> QED BY <1>1, <2>1, <3>1, FetchSplit
  <2>3. all = FetchScriptHashRelatedTx(related, start, n + 1) \cup FetchScriptHashRelatedTx(related, 1, start)
    <3> HIDE DEF start
    <3>1. start \in Nat /\ 1 <= start /\ start <= n + 1
      BY <1>3 DEF start
    <3> QED BY <1>1, <3>1, FetchSplit DEF AllRelated
  <2>4. IsFiniteSet(taken) /\ IsFiniteSet(rTxs) /\ IsFiniteSet(all)
    <3>1. IsFiniteSet(taken)
      BY <1>1, <1>3, <2>1, FetchFinite
    <3>2. IsFiniteSet(rTxs)
      BY <1>3, FetchFinite
    <3>3. IsFiniteSet(all)
      BY <1>1, FetchFinite DEF AllRelated
    <3> QED BY <3>1, <3>2, <3>3
  <2>5. Cardinality(taken) \in Nat /\ Cardinality(rTxs) \in Nat /\ Cardinality(all) \in Nat
    BY <2>4, FS_CardinalityType
  <2>6. taken \cup rTxs \subseteq all /\ Cardinality(taken) + Cardinality(rTxs) <= Cardinality(all)
    <3> DEFINE U == FetchScriptHashRelatedTx(related, start, n + 1)
    <3>1. U \in SUBSET all
      BY <2>3
    <3> HIDE DEF U, all
    <3>2. Cardinality(U) <= Cardinality(all)
      BY <2>4, <3>1, FS_Subset
    <3> QED BY <2>2, <3>1, <3>2 DEF U
  <2>7. rest \in Nat /\ rest = wanted - Cardinality(taken)
    <3> DEFINE c == Cardinality(b.taken)
    <3>1. c \in Nat /\ c <= wanted
      BY <2>1, <2>5
    <3> HIDE DEF c
    <3>2. wanted - c \in Nat
      BY <3>1
    <3> QED BY <3>2 DEF c
  <2>8. CASE Cardinality(rTxs) > rest
    <3> DEFINE sel == selectRelatedTx(rTxs, start, end, rest)
    <3>1. new = [b EXCEPT !.taken = taken \cup sel, !.done = TRUE]
      BY <1>5, <2>8 DEF Batch
    <3>2. sel \subseteq rTxs /\ Cardinality(sel) = rest /\ NewerThanRest(sel, rTxs)
      <4> HIDE DEF rest
      <4> QED BY <1>3, <2>1, <2>7, <2>8, SelectNewest
    <3> HIDE DEF sel
    <3>3. taken \cap sel = {}
      <4>1. \A t \in taken : t[1] \in end..((n + 1) - 1)
        BY <1>1, <1>3, <2>1, FetchIs
      <4>2. \A t \in rTxs : t[1] \in start..(end - 1)
        BY <1>3, FetchIs
      <4> HIDE DEF taken, rTxs
      <4>3. ASSUME NEW t \in taken, t \in sel PROVE FALSE
        <5>1. t[1] \in end..((n + 1) - 1) /\ t[1] \in start..(end - 1)
          BY <3>2, <4>1, <4>2, <4>3
        <5> QED BY <1>1, <1>3, <5>1
      <4> QED BY <4>3
    <3>4. Cardinality(taken \cup sel) = wanted
      <4>1. IsFiniteSet(sel)
        <5> HIDE DEF rTxs
        <5> QED BY <2>4, <3>2, FS_Subset
      <4>2. Cardinality(taken \cup sel) = Cardinality(taken) + Cardinality(sel) - Cardinality(taken \cap sel)
        <5> HIDE DEF taken
        <5> QED BY <2>4, <4>1, FS_Union
      <4>3. Cardinality(taken \cap sel) = 0
        BY <3>3, FS_EmptySet
      <4> DEFINE ct == Cardinality(taken)
                 cs == Cardinality(sel)
      <4>4. ct \in Nat /\ cs = wanted - ct
        BY <2>5, <2>7, <3>2
      <4> HIDE DEF ct, cs
      <4>5. ct + cs - 0 = wanted
        BY <4>4
      <4> QED BY <4>2, <4>3, <4>5 DEF ct, cs
    <3>5. wanted < Cardinality(all)
      <4> DEFINE ct == Cardinality(taken)
                 cr == Cardinality(rTxs)
                 ca == Cardinality(all)
      <4>1. ct \in Nat /\ cr \in Nat /\ ca \in Nat /\ ct + cr <= ca /\ cr > wanted - ct
        BY <2>5, <2>6, <2>7, <2>8
      <4> HIDE DEF ct, cr, ca
      <4>2. wanted < ca
        BY <4>1
      <4> QED BY <4>2 DEF ca
    <3>6. ASSUME NEW t \in taken \cup sel, NEW u \in all, u \notin taken \cup sel PROVE Newer(t, u)
      <4>1. CASE u \in rTxs /\ t \in sel
        <5> HIDE DEF rTxs
        <5> QED BY <3>2, <3>6, <4>1 DEF NewerThanRest
      <4>2. CASE u \in rTxs /\ t \in taken
        <5>0. \A v \in taken : v[1] \in end..((n + 1) - 1)
          BY <1>1, <1>3, <2>1, FetchIs
        <5>1. t[1] \in end..((n + 1) - 1)
          BY <4>2, <5>0
        <5>2. u[1] \in start..(end - 1)
          BY <1>3, <4>2, FetchIs
        <5> QED BY <1>1, <1>3, <5>1, <5>2 DEF Newer
      <4>3. CASE u \notin rTxs
        <5>1. u \in FetchScriptHashRelatedTx(related, 1, start)
          <6> HIDE DEF taken, rTxs, all, start
          <6> QED BY <2>2, <2>3, <3>6, <4>3
        <5>0. \A v \in FetchScriptHashRelatedTx(related, 1, start) : v[1] \in 1..(start - 1)
          <6> HIDE DEF start
          <6> DEFINE low == 1
          <6>1. start \in Nat /\ start <= n + 1 /\ low \in Nat /\ low > 0
            BY <1>3 DEF start
          <6> HIDE DEF low
          <6>2. \A v \in FetchScriptHashRelatedTx(related, low, start) : v[1] \in low..(start - 1)
            BY <6>1, FetchIs
          <6> QED BY <6>2 DEF low
        <5>2. u[1] \in 1..(start - 1)
          BY <5>0, <5>1
        <5>3. t \in FetchScriptHashRelatedTx(related, start, n + 1)
          <6> HIDE DEF taken, rTxs, all, start
          <6> QED BY <2>2, <3>2, <3>6
        <5>4. t[1] \in start..((n + 1) - 1)
          BY <1>1, <1>3, <5>3, FetchIs
        <5> QED BY <1>1, <1>3, <5>2, <5>4 DEF Newer
      <4> QED BY <3>6, <4>1, <4>2, <4>3
    <3>7. Answer(related, wanted, taken \cup sel)
      <4> HIDE DEF taken
      <4> QED BY <3>4, <3>5, <3>6 DEF Answer, NewerThanRest
    <3>8. new.done = TRUE /\ new.taken = taken \cup sel /\ new \in S
      <4>1. taken \cup sel \subseteq all
        <5> HIDE DEF taken, rTxs, all
        <5> QED BY <2>6, <3>2
      <4> HIDE DEF new, all
      <4> QED BY <1>2, <3>1, <4>1
    <3> HIDE DEF new, taken
    <3>9. new \in Batches(related, wanted)
      BY <3>7, <3>8 DEF Batches
    <3> QED BY <3>8, <3>9 DEF new
  <2>9. CASE ~(Cardinality(rTxs) > rest)
    <3>1. new = [start |-> calc(start)[1], end |-> calc(start)[2], taken |-> taken \cup rTxs, done |-> start = 1]
      BY <1>5, <2>9 DEF Batch
    <3>2. Cardinality(taken \cup rTxs) <= wanted
      <4> DEFINE ct == Cardinality(taken)
                 cr == Cardinality(rTxs)
      <4>1. ct \in Nat /\ cr \in Nat /\ ~(cr > wanted - ct)
        BY <2>5, <2>7, <2>9
      <4> HIDE DEF ct, cr
      <4>2. ct + cr <= wanted
        BY <4>1
      <4> QED BY <2>2, <4>2 DEF ct, cr
    <3> HIDE DEF new
    <3>3. CASE start = 1
      <4>1. taken \cup rTxs = all
        BY <2>2, <3>3 DEF AllRelated
      <4>2. calc(start) = <<1, 1>>
        BY <3>3, HistoryAssumption DEF calc
      <4>3. new = [start |-> 1, end |-> 1, taken |-> all, done |-> TRUE]
        <5> DEFINE one == start = 1
        <5>1. one = TRUE
          BY <3>3
        <5>2. new = [start |-> calc(start)[1], end |-> calc(start)[2], taken |-> taken \cup rTxs, done |-> one]
          BY <3>1
        <5>3. calc(start)[1] = 1 /\ calc(start)[2] = 1
          BY <4>2
        <5> HIDE DEF one, start, taken, rTxs, all
        <5> QED BY <4>1, <5>1, <5>2, <5>3
      <4>4. Answer(related, wanted, all)
        <5>1. Cardinality(all) <= wanted /\ Cardinality(all) \in Nat
          BY <2>5, <3>2, <4>1
        <5>2. ~(wanted < Cardinality(all))
          <6> DEFINE ca == Cardinality(all)
          <6>1. ca <= wanted /\ ca \in Nat
            BY <5>1
          <6> HIDE DEF ca
          <6>2. ~(wanted < ca)
            BY <6>1
          <6> QED BY <6>2 DEF ca
        <5> QED BY <5>2 DEF Answer, NewerThanRest
      <4>5. 1 \in 1..(n + 1)
        BY <1>1
      <4>6. new \in Batches(related, wanted)
        BY <4>3, <4>4, <4>5 DEF Batches
      <4> QED BY <4>3, <4>6 DEF new
    <3>4. CASE start # 1
      <4>1. start \in Nat /\ start > 1
        BY <1>3, <3>4
      <4>2. calc(start)[1] \in 1..(start - 1) /\ calc(start)[2] = start
        BY <4>1, CalcIs
      <4> DEFINE next == calc(start)[1]
      <4>3. new = [start |-> next, end |-> start, taken |-> taken \cup rTxs, done |-> FALSE]
        BY <3>1, <3>4, <4>2
      <4>4. next \in 1..(n + 1) /\ start \in 1..(n + 1) /\ next < start
        BY <1>1, <1>3, <4>1, <4>2
      <4>5. start < end
        BY <1>3, <2>1, <3>4
      <4> HIDE DEF next
      <4>6. new \in Batches(related, wanted)
        <5> DEFINE tt == taken \cup rTxs
                   st == start
        <5>1. tt = FetchScriptHashRelatedTx(related, st, n + 1) /\ Cardinality(tt) <= wanted /\ tt \subseteq all
          BY <2>2, <2>6, <3>2
        <5>2. new = [start |-> next, end |-> st, taken |-> tt, done |-> FALSE]
          BY <4>3
        <5>3. next \in 1..(n + 1) /\ st \in 1..(n + 1) /\ next <= st /\ next # st
          BY <4>4
        <5> HIDE DEF tt, st, all
        <5> QED BY <5>1, <5>2, <5>3 DEF Batches, all
      <4>7. new.end = start
        BY <4>3
      <4> QED BY <4>5, <4>6, <4>7 DEF new
    <3> QED BY <3>3, <3>4
  <2> QED BY <2>8, <2>9
<1> QED BY <1>3, <1>4, <1>5

(* The loop of GetTxHistory over the batches. *)
BatchLoop(related, wanted, b) ==
    b = [i \in 0..(Len(related) + 1) |->
           IF i = 0 THEN FirstBatch(Len(related)) ELSE Batch(related, wanted, b[i - 1])]

(* GetTxHistory returns what its loop has at the last turn. *)
LEMMA BatchTurns ==
    ASSUME NEW related \in Seq(Nat), NEW wanted \in Nat
    PROVE  \E b : /\ GetTxHistory(related, wanted) = b[Len(related) + 1].taken
                  /\ BatchLoop(related, wanted, b)
<1> DEFINE S == Batches(related, wanted)
           n == Len(related) + 1
           a == FirstBatch(Len(related))
           F == [p \in S \X (1..n) |-> Batch(related, wanted, p[1])]
           Loop(f) == f = [i \in 0..n |-> IF i = 0 THEN a ELSE Batch(related, wanted, f[i - 1])]
<1>1. n \in Nat /\ a \in S
  BY FirstBatchIs
<1>2. F \in [S \X (1..n) -> S]
  <2> SUFFICES ASSUME NEW s \in S
               PROVE  Batch(related, wanted, s) \in S
    <3> HIDE DEF S, n
    <3> QED OBVIOUS
  <2> QED BY NextBatch
<1>3. PICK f \in [0..n -> S] : Unrolls(f, n, a, F)
  <2> HIDE DEF S, n, a, F
  <2> QED BY <1>1, <1>2, TurnsExist
<1>4. Loop(f)
  <2>1. ASSUME NEW i \in 0..n, i # 0 PROVE F[<<f[i - 1], i>>] = Batch(related, wanted, f[i - 1])
    <3>1. i - 1 \in 0..n /\ i \in 1..n
      BY <1>1, <2>1
    <3>2. f[i - 1] \in S
      BY <3>1
    <3> HIDE DEF S, n
    <3> QED BY <3>1, <3>2
  <2> HIDE DEF F, S, a, n
  <2>2. \A i \in 0..n : f[i] = IF i = 0 THEN a ELSE Batch(related, wanted, f[i - 1])
    BY <1>3, <2>1 DEF Unrolls
  <2> QED BY <1>3, <2>2 DEF Unrolls
<1>5. Loop(CHOOSE g : Loop(g))
  <2> HIDE DEF Loop
  <2> QED BY <1>4
<1>6. GetTxHistory(related, wanted) = (CHOOSE g : Loop(g))[n].taken
  BY DEF GetTxHistory
<1> DEFINE b == CHOOSE g : Loop(g)
<1>7. GetTxHistory(related, wanted) = b[n].taken /\ Loop(b)
  BY <1>5, <1>6
<1> HIDE DEF b
<1> WITNESS b
<1> QED BY <1>7 DEF BatchLoop

(* Batches shrink towards the first block, so the loop has ended after as  *)
(* many turns as there are blocks.                                         *)
LEMMA HistoryIsNewest ==
    ASSUME NEW related \in Seq(Nat), NEW wanted \in Nat
    PROVE  NewestTaken(related, wanted)
<1> DEFINE n == Len(related) + 1
<1>0. n \in Nat /\ 0 \in 0..n /\ n \in 0..n
  OBVIOUS
<1>1. PICK b : /\ GetTxHistory(related, wanted) = b[n].taken
               /\ BatchLoop(related, wanted, b)
  BY BatchTurns
<1>2. b = [i \in 0..n |-> IF i = 0 THEN FirstBatch(Len(related)) ELSE Batch(related, wanted, b[i - 1])]
  BY <1>1 DEF BatchLoop
<1> DEFINE G == {i \in 0..n : b[i] \in Batches(related, wanted) /\ (~b[i].done => b[i].end <= n - i)}
<1>3. 0 \in G
  <2>1. b[0] = FirstBatch(Len(related))
    <3> HIDE DEF n
    <3> QED BY <1>0, <1>2
  <2>2. b[0] \in Batches(related, wanted)
    BY <2>1, FirstBatchIs
  <2>3. b[0].end = n - 0
    BY <2>1, <1>0 DEF FirstBatch
  <2>4. n <= n - 0 /\ n - 0 = n
    BY <1>0
  <2> HIDE DEF n
  <2> QED BY <1>0, <2>2, <2>3, <2>4
<1>4. ASSUME NEW i \in 0..(n - 1), i \in G PROVE i + 1 \in G
  <2>1. i + 1 \in 0..n /\ i + 1 # 0 /\ (i + 1) - 1 = i /\ i \in Nat
    BY <1>0
  <2>2. b[i + 1] = Batch(related, wanted, b[i])
    <3> HIDE DEF n
    <3> QED BY <1>2, <2>1
  <2>3. b[i] \in Batches(related, wanted) /\ (~b[i].done => b[i].end <= n - i)
    BY <1>4
  <2> DEFINE s == b[i]
             new == b[i + 1]
  <2>4. /\ new \in Batches(related, wanted)
        /\ ~s.done => new.done \/ new.end < s.end
    <3>1. /\ Batch(related, wanted, s) \in Batches(related, wanted)
          /\ ~s.done => Batch(related, wanted, s).done \/ Batch(related, wanted, s).end < s.end
      <4> HIDE DEF s
      <4>1. s \in Batches(related, wanted)
        BY <2>3 DEF s
      <4> QED BY <4>1, NextBatch
    <3> QED BY <2>2, <3>1
  <2>5. s.done \in BOOLEAN /\ s.end \in Nat /\ new.end \in Nat /\ (s.done => new = s)
    <3>1. s \in Batches(related, wanted) /\ new \in Batches(related, wanted)
      BY <2>3, <2>4
    <3>2. s.done => new = s
      BY <2>2 DEF Batch
    <3> HIDE DEF s, new
    <3> QED BY <1>0, <3>1, <3>2 DEF Batches
  <2>6. ~new.done => new.end <= n - (i + 1)
    <3> DEFINE e == s.end
               f == new.end
    <3>1. ASSUME ~new.done PROVE e \in Nat /\ f \in Nat /\ e <= n - i /\ f < e
      BY <3>1, <2>3, <2>4, <2>5
    <3> HIDE DEF e, f, n, s, new
    <3>2. e \in Nat /\ f \in Nat /\ e <= n - i /\ f < e => f <= n - (i + 1)
      BY <1>0, <2>1
    <3> QED BY <3>1, <3>2 DEF f
  <2> QED BY <2>1, <2>4, <2>6
<1>5. n \in G
  <2> HIDE DEF G, n
  <2>1. \A i \in 0..n : i \in G
    BY <1>0, <1>3, <1>4, Turn
  <2> QED BY <1>0, <2>1
<1> DEFINE last == b[n]
<1>6. last \in Batches(related, wanted) /\ (~last.done => last.end <= n - n)
  BY <1>5
<1>7. last.done
  <2>1. last.end \in 1..n
    <3> HIDE DEF last
    <3> QED BY <1>6 DEF Batches
  <2>2. ~(last.end <= n - n)
    <3> HIDE DEF last, n
    <3> QED BY <1>0, <2>1
  <2> QED BY <1>6, <2>2
<1>8. Answer(related, wanted, last.taken)
  <2> HIDE DEF last
  <2> QED BY <1>6, <1>7 DEF Batches
<1>9. last.taken \subseteq AllRelated(related)
  <2> HIDE DEF last
  <2> QED BY <1>6 DEF Batches
<1>10. GetTxHistory(related, wanted) = last.taken
  BY <1>1
<1> HIDE DEF last
<1> QED BY <1>8, <1>9, <1>10 DEF NewestTaken, Answer, NewerThanRest, AllRelated

(* The history shown is the newest part of the chain's related             *)
(* transactions, for any chain, any batch size and any number asked for:   *)
(* GetTxHistory's batches leave no block out and read none twice.          *)
THEOREM HistoriesAreNewest == Spec => []HistoryNewest
<1>1. WrongHistories = {}
  <2>1. \A related \in Related : \A wanted \in Wanted : related \in Seq(Nat) /\ wanted \in Nat
    BY HistoryAssumption
  <2>2. \A related \in Related : \A wanted \in Wanted : NewestTaken(related, wanted)
    BY <2>1, HistoryIsNewest
  <2> QED BY <2>2 DEF WrongHistories
<1>2. HistoryNewest
  BY <1>1 DEF HistoryNewest
<1> QED BY <1>2, PTL

(***************************************************************************)
(* Sums                                                                    *)
(***************************************************************************)
(* The loop that sums. *)
SumLoop(v, f) == f = [i \in 0..Len(v) |-> IF i = 0 THEN 0 ELSE f[i - 1] + v[i]]

(* The sum of a sequence is the last of its partial sums. *)
LEMMA SumTurns ==
    ASSUME NEW v \in Seq(Nat)
    PROVE  \E f \in [0..Len(v) -> Nat] : SeqSum(v) = f[Len(v)] /\ SumLoop(v, f)
<1> DEFINE n == Len(v)
           F == [p \in Nat \X (1..n) |-> p[1] + v[p[2]]]
           Loop(f) == f = [i \in 0..n |-> IF i = 0 THEN 0 ELSE f[i - 1] + v[i]]
<1>1. n \in Nat /\ 0 \in Nat /\ \A i \in 1..n : v[i] \in Nat
  OBVIOUS
<1>2. F \in [Nat \X (1..n) -> Nat]
  <2> HIDE DEF n
  <2> QED BY <1>1
<1>3. PICK f \in [0..n -> Nat] : Unrolls(f, n, 0, F)
  <2> HIDE DEF n, F
  <2> QED BY <1>1, <1>2, TurnsExist
<1>4. Loop(f)
  <2>1. ASSUME NEW i \in 0..n, i # 0 PROVE F[<<f[i - 1], i>>] = f[i - 1] + v[i]
    <3>1. i - 1 \in 0..n /\ i \in 1..n
      BY <1>1, <2>1
    <3>2. f[i - 1] \in Nat
      BY <3>1
    <3> HIDE DEF n
    <3> QED BY <3>1, <3>2
  <2> HIDE DEF F, n
  <2>2. \A i \in 0..n : f[i] = IF i = 0 THEN 0 ELSE f[i - 1] + v[i]
    BY <1>3, <2>1 DEF Unrolls
  <2> QED BY <1>3, <2>2 DEF Unrolls
<1>5. Loop(CHOOSE g : Loop(g))
  <2> HIDE DEF Loop
  <2> QED BY <1>4
<1>6. SeqSum(v) = (CHOOSE g : Loop(g))[n]
  BY DEF SeqSum
<1> DEFINE s == CHOOSE g : Loop(g)
<1>7. SeqSum(v) = s[n] /\ Loop(s)
  BY <1>5, <1>6
<1> HIDE DEF s, Loop
<1>8. s = [i \in 0..n |-> IF i = 0 THEN 0 ELSE s[i - 1] + v[i]]
  BY <1>7 DEF Loop
<1>9. s \in [0..n -> Nat]
  <2> DEFINE G == {i \in 0..n : s[i] \in Nat}
  <2> HIDE DEF n
  <2>1. 0 \in G
    BY <1>1, <1>8
  <2>2. \A i \in 0..(n - 1) : i \in G => i + 1 \in G
    <3> SUFFICES ASSUME NEW i \in 0..(n - 1), i \in G PROVE i + 1 \in G
      OBVIOUS
    <3>1. i + 1 \in 1..n /\ i + 1 \in 0..n /\ i + 1 # 0 /\ (i + 1) - 1 = i
      BY <1>1
    <3>2. s[i + 1] = s[i] + v[i + 1]
      BY <1>8, <3>1
    <3> QED BY <1>1, <3>1, <3>2
  <2>3. \A i \in 0..n : i \in G
    <3> HIDE DEF G
    <3> QED BY <1>1, <2>1, <2>2, Turn
  <2> QED BY <1>8, <2>3
<1> QED BY <1>7, <1>8, <1>9 DEF SumLoop

(* A sum of numbers is a number. *)
LEMMA SumNat ==
    ASSUME NEW v \in Seq(Nat)
    PROVE  SeqSum(v) \in Nat
BY SumTurns

(* The facts that a claim about a sum is proved from, turn by turn. *)
LEMMA SumStep ==
    ASSUME NEW v \in Seq(Nat), NEW f \in [0..Len(v) -> Nat], SumLoop(v, f)
    PROVE  /\ f[0] = 0
           /\ \A i \in 0..(Len(v) - 1) :
                /\ f[i + 1] = f[i] + v[i + 1] /\ f[i] \in Nat /\ v[i + 1] \in Nat /\ f[i + 1] \in Nat
                /\ i + 1 \in 1..Len(v) /\ i + 1 \in 0..Len(v) /\ i \in 0..Len(v)
<1> DEFINE n == Len(v)
<1>1. n \in Nat /\ 0 \in 0..n /\ \A i \in 1..n : v[i] \in Nat
  OBVIOUS
<1>2. f = [i \in 0..n |-> IF i = 0 THEN 0 ELSE f[i - 1] + v[i]]
  BY DEF SumLoop
<1> HIDE DEF n
<1>3. f[0] = 0
  BY <1>1, <1>2
<1>4. ASSUME NEW i \in 0..(n - 1)
      PROVE  /\ f[i + 1] = f[i] + v[i + 1] /\ f[i] \in Nat /\ v[i + 1] \in Nat /\ f[i + 1] \in Nat
             /\ i + 1 \in 1..n /\ i + 1 \in 0..n /\ i \in 0..n
  <2>1. i + 1 \in 1..n /\ i + 1 \in 0..n /\ i + 1 # 0 /\ (i + 1) - 1 = i /\ i \in 0..n
    BY <1>1
  <2>2. f[i + 1] = f[i] + v[i + 1]
    BY <1>2, <2>1
  <2>3. f[i] \in Nat /\ f[i + 1] \in Nat
    BY <2>1 DEF n
  <2> QED BY <1>1, <2>1, <2>2, <2>3
<1> QED BY <1>3, <1>4 DEF n

(* Sums add up. *)
LEMMA SumAdd ==
    ASSUME NEW u \in Seq(Nat), NEW v \in Seq(Nat), NEW w \in Seq(Nat), Len(u) = Len(v), Len(w) = Len(v),
           \A i \in 1..Len(v) : u[i] = v[i] + w[i]
    PROVE  SeqSum(u) = SeqSum(v) + SeqSum(w)
<1> DEFINE n == Len(v)
<1>1. PICK f \in [0..Len(u) -> Nat] : SeqSum(u) = f[Len(u)] /\ SumLoop(u, f)
  BY SumTurns
<1>2. PICK g \in [0..Len(v) -> Nat] : SeqSum(v) = g[Len(v)] /\ SumLoop(v, g)
  BY SumTurns
<1>3. PICK h \in [0..Len(w) -> Nat] : SeqSum(w) = h[Len(w)] /\ SumLoop(w, h)
  BY SumTurns
<1> DEFINE G == {i \in 0..n : f[i] = g[i] + h[i]}
<1>4. n \in Nat /\ n \in 0..n /\ 0 \in 0..n
  OBVIOUS
<1>5. 0 \in G
  <2>1. f[0] = 0 /\ g[0] = 0 /\ h[0] = 0
    BY <1>1, <1>2, <1>3, SumStep
  <2> QED BY <1>4, <2>1
<1>6. ASSUME NEW i \in 0..(n - 1), i \in G PROVE i + 1 \in G
  <2>1. f[i + 1] = f[i] + u[i + 1] /\ f[i] \in Nat /\ u[i + 1] \in Nat
    BY <1>1, SumStep
  <2>2. g[i + 1] = g[i] + v[i + 1] /\ g[i] \in Nat /\ v[i + 1] \in Nat /\ i + 1 \in 1..n /\ i + 1 \in 0..n
    BY <1>2, SumStep
  <2>3. h[i + 1] = h[i] + w[i + 1] /\ h[i] \in Nat /\ w[i + 1] \in Nat
    BY <1>3, SumStep
  <2>4. u[i + 1] = v[i + 1] + w[i + 1]
    BY <2>2
  <2>5. f[i] = g[i] + h[i]
    BY <1>6
  <2>6. f[i + 1] = g[i + 1] + h[i + 1]
    <3>1. \A p, q, r, s \in Nat : (p + q) + (r + s) = (p + r) + (q + s)
      OBVIOUS
    <3>2. f[i + 1] = (g[i] + h[i]) + (v[i + 1] + w[i + 1])
      BY <2>1, <2>4, <2>5
    <3>3. f[i + 1] = (g[i] + v[i + 1]) + (h[i] + w[i + 1])
      BY SMTT(30), <2>2, <2>3, <3>1, <3>2
    <3> QED BY <2>2, <2>3, <3>3
  <2> QED BY <2>2, <2>6
<1>7. n \in G
  <2> HIDE DEF G, n
  <2>1. \A i \in 0..n : i \in G
    BY <1>4, <1>5, <1>6, Turn
  <2> QED BY <1>4, <2>1
<1> QED BY <1>1, <1>2, <1>3, <1>7

(* A sum of zeros is zero. *)
LEMMA SumZero ==
    ASSUME NEW v \in Seq(Nat), \A i \in 1..Len(v) : v[i] = 0
    PROVE  SeqSum(v) = 0
<1>1. SeqSum(v) = SeqSum(v) + SeqSum(v)
  <2>1. \A i \in 1..Len(v) : v[i] = v[i] + v[i]
    OBVIOUS
  <2> QED BY <2>1, SumAdd
<1> QED BY <1>1, SumNat

(* One value among zeros. *)
LEMMA SumSingle ==
    ASSUME NEW v \in Seq(Nat), NEW k \in 1..Len(v), \A i \in 1..Len(v) : i # k => v[i] = 0
    PROVE  SeqSum(v) = v[k]
<1> DEFINE n == Len(v)
<1>1. PICK f \in [0..n -> Nat] : SeqSum(v) = f[n] /\ SumLoop(v, f)
  BY SumTurns
<1> DEFINE G == {i \in 0..n : f[i] = IF i < k THEN 0 ELSE v[k]}
<1>2. n \in Nat /\ n \in 0..n /\ 0 \in 0..n /\ k \in Nat /\ 0 < k /\ k <= n /\ v[k] \in Nat
  OBVIOUS
<1>3. 0 \in G
  BY <1>1, <1>2, SumStep
<1>4. ASSUME NEW i \in 0..(n - 1), i \in G PROVE i + 1 \in G
  <2>1. f[i + 1] = f[i] + v[i + 1] /\ f[i] \in Nat /\ v[i + 1] \in Nat /\ i + 1 \in 1..n /\ i + 1 \in 0..n
    BY <1>1, SumStep
  <2>2. CASE i + 1 < k
    BY <1>2, <1>4, <2>1, <2>2
  <2>3. CASE i + 1 = k
    BY <1>2, <1>4, <2>1, <2>3
  <2>4. CASE i + 1 > k
    BY <1>2, <1>4, <2>1, <2>4
  <2> QED BY <1>2, <2>1, <2>2, <2>3, <2>4
<1>5. n \in G
  <2> HIDE DEF G, n
  <2>1. \A i \in 0..n : i \in G
    BY <1>2, <1>3, <1>4, Turn
  <2> QED BY <1>2, <2>1
<1> QED BY <1>1, <1>2, <1>5

(***************************************************************************)
(* Coins                                                                   *)
(***************************************************************************)
(* A list of coins: its places and their amounts. *)
CoinList(c) ==
    /\ Len(c) \in Nat /\ DOMAIN c = 1..Len(c)
    /\ \A i \in 1..Len(c) : c[i].amount \in Nat

(* The amounts of the coins in S, and zero for the others. *)
Worth(c, S) == [i \in DOMAIN c |-> IF i \in S THEN c[i].amount ELSE 0]

(* The worth of a set of places is a sum of amounts and zeros. *)
LEMMA SumOfIs == \A c, S : SumOf(c, S) = SeqSum(Worth(c, S))
BY DEF SumOf, Worth

(* A function on 1..n is a sequence of length n. *)
LEMMA FcnSeq ==
    ASSUME NEW n \in Nat, NEW T, NEW f \in [1..n -> T]
    PROVE  f \in Seq(T) /\ Len(f) = n
OBVIOUS

(* The summands of the worth of a set of places. *)
LEMMA WorthIs ==
    ASSUME NEW c, CoinList(c), NEW S
    PROVE  /\ Worth(c, S) \in Seq(Nat) /\ Len(Worth(c, S)) = Len(c)
           /\ \A i \in 1..Len(c) : Worth(c, S)[i] = IF i \in S THEN c[i].amount ELSE 0
<1> DEFINE f == Worth(c, S)
<1>1. Len(c) \in Nat /\ DOMAIN c = 1..Len(c) /\ \A i \in 1..Len(c) : c[i].amount \in Nat
  BY DEF CoinList
<1>2. f = [i \in 1..Len(c) |-> IF i \in S THEN c[i].amount ELSE 0]
  BY <1>1 DEF Worth
<1>3. f \in [1..Len(c) -> Nat]
  BY <1>1, <1>2
<1>4. \A i \in 1..Len(c) : f[i] = IF i \in S THEN c[i].amount ELSE 0
  BY <1>2
<1> HIDE DEF f
<1>5. f \in Seq(Nat) /\ Len(f) = Len(c)
  BY <1>1, <1>3, FcnSeq
<1> QED BY <1>4, <1>5 DEF f

(* The worth of a set of places is a number. *)
LEMMA SumOfNat ==
    ASSUME NEW c, CoinList(c), NEW S
    PROVE  SumOf(c, S) \in Nat
BY WorthIs, SumNat, SumOfIs

(* The total is the worth of all places. *)
LEMMA TotalIs ==
    ASSUME NEW c, CoinList(c)
    PROVE  Total(c) = SumOf(c, 1..Len(c))
<1>1. [i \in DOMAIN c |-> c[i].amount] = Worth(c, 1..Len(c))
  BY DEF Worth, CoinList
<1> QED BY <1>1, SumOfIs DEF Total

(* No place is worth nothing. *)
LEMMA SumOfEmpty ==
    ASSUME NEW c, CoinList(c)
    PROVE  SumOf(c, {}) = 0
<1>1. \A i \in 1..Len(c) : Worth(c, {})[i] = 0
  BY WorthIs
<1>2. Worth(c, {}) \in Seq(Nat) /\ Len(Worth(c, {})) = Len(c)
  BY WorthIs
<1>3. SeqSum(Worth(c, {})) = 0
  BY <1>1, <1>2, SumZero
<1> QED BY <1>3, SumOfIs

(* Of two sets without a coin in common. *)
LEMMA SumOfUnion ==
    ASSUME NEW c, CoinList(c), NEW S, NEW T, S \cap T = {}
    PROVE  SumOf(c, S \cup T) = SumOf(c, S) + SumOf(c, T)
<1> DEFINE u == Worth(c, S \cup T)
           v == Worth(c, S)
           w == Worth(c, T)
<1>1. /\ u \in Seq(Nat) /\ Len(u) = Len(c)
      /\ \A i \in 1..Len(c) : u[i] = IF i \in S \cup T THEN c[i].amount ELSE 0
  <2> DEFINE X == S \cup T
  <2> HIDE DEF X
  <2>1. /\ Worth(c, X) \in Seq(Nat) /\ Len(Worth(c, X)) = Len(c)
        /\ \A i \in 1..Len(c) : Worth(c, X)[i] = IF i \in X THEN c[i].amount ELSE 0
    BY WorthIs
  <2> QED BY <2>1 DEF X
<1>2. /\ v \in Seq(Nat) /\ Len(v) = Len(c)
      /\ \A i \in 1..Len(c) : v[i] = IF i \in S THEN c[i].amount ELSE 0
  BY WorthIs
<1>3. /\ w \in Seq(Nat) /\ Len(w) = Len(c)
      /\ \A i \in 1..Len(c) : w[i] = IF i \in T THEN c[i].amount ELSE 0
  BY WorthIs
<1> HIDE DEF u, v, w
<1>4. \A i \in 1..Len(v) : u[i] = v[i] + w[i]
  <2> SUFFICES ASSUME NEW i \in 1..Len(c) PROVE u[i] = v[i] + w[i]
    BY <1>2
  <2>1. c[i].amount \in Nat
    BY DEF CoinList
  <2> QED BY SMTT(30), <1>1, <1>2, <1>3, <2>1
<1>5. SeqSum(u) = SeqSum(v) + SeqSum(w)
  BY <1>1, <1>2, <1>3, <1>4, SumAdd
<1> QED BY <1>5, SumOfIs DEF u, v, w

(* One place is worth its amount. *)
LEMMA SumOfOne ==
    ASSUME NEW c, CoinList(c), NEW i \in 1..Len(c)
    PROVE  SumOf(c, {i}) = c[i].amount
<1> DEFINE v == Worth(c, {i})
<1>1. /\ v \in Seq(Nat) /\ Len(v) = Len(c)
      /\ \A j \in 1..Len(c) : v[j] = IF j \in {i} THEN c[j].amount ELSE 0
  <2> DEFINE X == {i}
  <2> HIDE DEF X
  <2>1. /\ Worth(c, X) \in Seq(Nat) /\ Len(Worth(c, X)) = Len(c)
        /\ \A j \in 1..Len(c) : Worth(c, X)[j] = IF j \in X THEN c[j].amount ELSE 0
    BY WorthIs
  <2> QED BY <2>1 DEF X
<1> HIDE DEF v
<1>2. SeqSum(v) = v[i]
  BY <1>1, SumSingle
<1> QED BY <1>1, <1>2, SumOfIs DEF v

(* A further place adds its amount. *)
LEMMA SumOfAdd ==
    ASSUME NEW c, CoinList(c), NEW S, NEW i \in 1..Len(c), i \notin S
    PROVE  SumOf(c, S \cup {i}) = SumOf(c, S) + c[i].amount
<1>1. SumOf(c, {i}) = c[i].amount
  BY SumOfOne
<1>2. S \cap {i} = {}
  OBVIOUS
<1>3. SumOf(c, S \cup {i}) = SumOf(c, S) + SumOf(c, {i})
  <2> DEFINE T == {i}
  <2> HIDE DEF T
  <2>1. S \cap T = {}
    BY <1>2 DEF T
  <2>2. SumOf(c, S \cup T) = SumOf(c, S) + SumOf(c, T)
    BY <2>1, SumOfUnion
  <2> QED BY <2>2 DEF T
<1> QED BY <1>1, <1>3

(* A place given up takes its amount away. *)
LEMMA SumOfRemove ==
    ASSUME NEW c, CoinList(c), NEW S, NEW i \in 1..Len(c), i \in S
    PROVE  SumOf(c, S) = SumOf(c, S \ {i}) + c[i].amount
<1> DEFINE T == S \ {i}
<1>1. i \notin T /\ T \cup {i} = S
  OBVIOUS
<1> HIDE DEF T
<1>2. SumOf(c, T \cup {i}) = SumOf(c, T) + c[i].amount
  BY <1>1, SumOfAdd
<1> QED BY <1>1, <1>2 DEF T

(* More places are worth no less. *)
LEMMA SumOfMono ==
    ASSUME NEW c, CoinList(c), NEW T, NEW S \in SUBSET T
    PROVE  SumOf(c, S) <= SumOf(c, T)
<1> DEFINE R == T \ S
<1>1. S \cap R = {} /\ S \cup R = T
  OBVIOUS
<1> HIDE DEF R
<1>2. SumOf(c, S \cup R) = SumOf(c, S) + SumOf(c, R)
  BY <1>1, SumOfUnion
<1>3. SumOf(c, S) \in Nat /\ SumOf(c, R) \in Nat
  BY SumOfNat
<1>4. \A x, y \in Nat : x <= x + y
  OBVIOUS
<1>5. SumOf(c, T) = SumOf(c, S) + SumOf(c, R)
  BY <1>1, <1>2
<1> QED BY <1>3, <1>4, <1>5

(* As many coins, none larger: no more money. *)
LEMMA SumOfDominated ==
    ASSUME NEW c, CoinList(c), NEW S \in SUBSET (1..Len(c)), NEW T \in SUBSET (1..Len(c)),
           Cardinality(S) = Cardinality(T), \A i \in S, j \in T : c[i].amount <= c[j].amount
    PROVE  SumOf(c, S) <= SumOf(c, T)
<1> DEFINE D == 1..Len(c)
           P(n) == \A A \in SUBSET D, B \in SUBSET D :
                      /\ Cardinality(A) = n /\ Cardinality(B) = n
                      /\ \A i \in A, j \in B : c[i].amount <= c[j].amount
                      => SumOf(c, A) <= SumOf(c, B)
           m == Cardinality(D)
           G == {n \in 0..m : P(n)}
<1>1. Len(c) \in Nat /\ \A i \in D : c[i].amount \in Nat
  BY DEF CoinList
<1>2. IsFiniteSet(D) /\ m \in Nat
  <2>1. IsFiniteSet(D)
    BY <1>1, FS_Interval
  <2> QED BY <2>1, FS_CardinalityType
<1>3. \A A \in SUBSET D : IsFiniteSet(A) /\ Cardinality(A) \in 0..m
  <2> SUFFICES ASSUME NEW A \in SUBSET D PROVE IsFiniteSet(A) /\ Cardinality(A) \in 0..m
    OBVIOUS
  <2> HIDE DEF D
  <2>1. IsFiniteSet(A) /\ Cardinality(A) <= Cardinality(D)
    BY <1>2, FS_Subset
  <2>2. Cardinality(A) \in Nat
    BY <2>1, FS_CardinalityType
  <2> QED BY <1>2, <2>1, <2>2
<1> HIDE DEF m
<1>4. P(0)
  <2> SUFFICES ASSUME NEW A \in SUBSET D, NEW B \in SUBSET D, Cardinality(A) = 0, Cardinality(B) = 0
               PROVE  SumOf(c, A) <= SumOf(c, B)
    OBVIOUS
  <2>1. A = {} /\ B = {}
    BY <1>3, FS_EmptySet
  <2> QED BY <2>1, SumOfEmpty
<1>5. ASSUME NEW n \in 0..(m - 1), P(n) PROVE P(n + 1)
  <2> SUFFICES ASSUME NEW A \in SUBSET D, NEW B \in SUBSET D,
                      Cardinality(A) = n + 1, Cardinality(B) = n + 1,
                      \A i \in A, j \in B : c[i].amount <= c[j].amount
               PROVE  SumOf(c, A) <= SumOf(c, B)
    OBVIOUS
  <2> HIDE DEF D
  <2>1. n \in Nat /\ n + 1 # 0 /\ (n + 1) - 1 = n
    BY <1>2
  <2>2. A # {} /\ B # {}
    BY <2>1, FS_EmptySet
  <2>3. PICK i \in A : TRUE
    BY <2>2
  <2>4. PICK j \in B : TRUE
    BY <2>2
  <2> DEFINE A1 == A \ {i}
             B1 == B \ {j}
  <2>5. Cardinality(A1) = n /\ Cardinality(B1) = n
    BY <1>3, <2>1, FS_RemoveElement
  <2>6. A1 \in SUBSET D /\ B1 \in SUBSET D /\ A1 \subseteq A /\ B1 \subseteq B
    OBVIOUS
  <2>7. SumOf(c, A) = SumOf(c, A1) + c[i].amount /\ SumOf(c, B) = SumOf(c, B1) + c[j].amount
    BY SumOfRemove DEF D
  <2> HIDE DEF A1, B1
  <2>8. SumOf(c, A1) <= SumOf(c, B1)
    BY <1>5, <2>5, <2>6
  <2>9. SumOf(c, A1) \in Nat /\ SumOf(c, B1) \in Nat
    BY SumOfNat
  <2>10. c[i].amount \in Nat /\ c[j].amount \in Nat /\ c[i].amount <= c[j].amount
    BY <1>1
  <2> QED BY <2>7, <2>8, <2>9, <2>10
<1>6. \A n \in 0..m : n \in G
  <2> HIDE DEF P, D
  <2>0. 0 \in 0..m /\ \A n \in 0..(m - 1) : n + 1 \in 0..m
    BY <1>2
  <2>1. 0 \in G /\ \A n \in 0..(m - 1) : n \in G => n + 1 \in G
    BY <1>4, <1>5, <2>0
  <2> HIDE DEF G
  <2> QED BY <1>2, <2>1, Turn
<1>7. Cardinality(S) \in 0..m
  BY <1>3
<1>8. P(Cardinality(S))
  <2> HIDE DEF P
  <2> QED BY <1>6, <1>7
<1> QED BY <1>8

(* The places that p gives to those in S. *)
Image(p, S) == {p[k] : k \in S}

(* Coins of another list, each at most once, are worth the same there. *)
LEMMA SumOfImage ==
    ASSUME NEW c, CoinList(c), NEW s, CoinList(s), NEW p \in [1..Len(s) -> 1..Len(c)],
           \A k, l \in 1..Len(s) : p[k] = p[l] => k = l,
           \A k \in 1..Len(s) : s[k].amount = c[p[k]].amount,
           NEW S \in SUBSET (1..Len(s))
    PROVE  SumOf(s, S) = SumOf(c, Image(p, S))
<1> DEFINE n == Len(s)
           G == {i \in 0..n : SumOf(s, S \cap (1..i)) = SumOf(c, Image(p, S \cap (1..i)))}
<1>1. n \in Nat /\ n \in 0..n /\ 0 \in 0..n
  BY DEF CoinList
<1>2. 0 \in G
  <2>1. S \cap (1..0) = {} /\ Image(p, S \cap (1..0)) = {}
    BY DEF Image
  <2>2. SumOf(s, {}) = 0 /\ SumOf(c, {}) = 0
    BY SumOfEmpty
  <2> QED BY <1>1, <2>1, <2>2
<1>3. ASSUME NEW i \in 0..(n - 1), i \in G PROVE i + 1 \in G
  <2>1. i + 1 \in 1..n /\ i + 1 \in 0..n /\ i \in Nat
    BY <1>1
  <2> DEFINE k == i + 1
             A == S \cap (1..i)
             B == S \cap (1..k)
  <2>2. SumOf(s, A) = SumOf(c, Image(p, A))
    BY <1>3
  <2>3. CASE k \notin S
    <3>1. B = A
      BY <2>1, <2>3
    <3> HIDE DEF A, B
    <3>2. SumOf(s, B) = SumOf(c, Image(p, B))
      BY <2>2, <3>1
    <3> QED BY <2>1, <3>2 DEF B
  <2>4. CASE k \in S
    <3>1. B = A \cup {k} /\ k \notin A /\ A \subseteq 1..n
      BY <1>1, <2>1, <2>4
    <3> HIDE DEF A, B
    <3>2. Image(p, B) = Image(p, A) \cup {p[k]}
      BY <3>1 DEF Image
    <3>3. p[k] \notin Image(p, A) /\ p[k] \in 1..Len(c)
      BY <2>1, <3>1 DEF Image
    <3>4. SumOf(s, B) = SumOf(s, A) + s[k].amount
      <4> HIDE DEF k
      <4>1. k \in 1..Len(s)
        BY <2>1 DEF k
      <4> QED BY <3>1, <4>1, SumOfAdd
    <3>5. SumOf(c, Image(p, B)) = SumOf(c, Image(p, A)) + c[p[k]].amount
      <4> DEFINE I == Image(p, A)
                 x == p[k]
      <4>1. x \in 1..Len(c) /\ x \notin I
        BY <3>3
      <4> HIDE DEF I, x
      <4>2. SumOf(c, I \cup {x}) = SumOf(c, I) + c[x].amount
        BY <4>1, SumOfAdd
      <4> QED BY <3>2, <4>2 DEF I, x
    <3>6. SumOf(s, B) = SumOf(c, Image(p, B))
      BY <2>1, <2>2, <3>4, <3>5
    <3> QED BY <2>1, <3>6 DEF B
  <2> QED BY <2>3, <2>4
<1>4. n \in G
  <2> HIDE DEF G, n
  <2>1. \A i \in 0..n : i \in G
    BY <1>1, <1>2, <1>3, Turn
  <2> QED BY <1>1, <2>1
<1>5. S \cap (1..n) = S
  OBVIOUS
<1> QED BY <1>4, <1>5

(* Different places for the elements of a finite set: every place is taken. *)
LEMMA EveryPlace ==
    ASSUME NEW S, IsFiniteSet(S), NEW r \in [S -> 1..Cardinality(S)],
           \A x, y \in S : r[x] = r[y] => x = y
    PROVE  \A k \in 1..Cardinality(S) : \E x \in S : r[x] = k
<1> DEFINE n == Cardinality(S)
           T == 1..n
<1>1. n \in Nat
  BY FS_CardinalityType
<1>2. IsFiniteSet(T) /\ Cardinality(T) = n
  <2>1. IsFiniteSet(1..n) /\ Cardinality(1..n) = IF 1 > n THEN 0 ELSE n - 1 + 1
    <3> HIDE DEF n
    <3> QED BY <1>1, FS_Interval
  <2> HIDE DEF n
  <2> QED BY <1>1, <2>1
<1>3. r \in Injection(S, T)
  BY DEF Injection, IsInjective
<1>4. r \in Surjection(S, T)
  <2> HIDE DEF T
  <2> QED BY <1>2, <1>3, FS_Injection
<1> QED BY <1>4 DEF Surjection

(* The sets of an order by which a place is counted: their sizes differ    *)
(* when one of two elements is in the set of the other and not vice versa. *)
LEMMA CountsDiffer ==
    ASSUME NEW S, IsFiniteSet(S), NEW A \in SUBSET S, NEW B \in SUBSET A, NEW x \in A, x \notin B
    PROVE  /\ Cardinality(A) \in 1..Cardinality(S) /\ Cardinality(B) \in Nat
           /\ Cardinality(B) < Cardinality(A)
<1>1. IsFiniteSet(A) /\ Cardinality(A) <= Cardinality(S)
  BY FS_Subset
<1>2. IsFiniteSet(B) /\ Cardinality(B) <= Cardinality(A) /\ (Cardinality(A) = Cardinality(B) => A = B)
  BY <1>1, FS_Subset
<1>3. Cardinality(A) \in Nat /\ Cardinality(B) \in Nat /\ Cardinality(S) \in Nat
  BY <1>1, <1>2, FS_CardinalityType
<1>4. Cardinality(A) # Cardinality(B)
  BY <1>2
<1>5. Cardinality(B) < Cardinality(A)
  BY <1>2, <1>3, <1>4
<1> QED BY <1>1, <1>3, <1>5

(* Of two coins one is ahead of the other, and has the lower rank. *)
LEMMA AheadOrder ==
    ASSUME NEW u, CoinList(u), NEW i \in 1..Len(u), NEW j \in 1..Len(u), i # j
    PROVE  /\ Rank(u, i) \in 1..Len(u)
           /\ j \in Ahead(u, i) => Rank(u, j) < Rank(u, i)
           /\ j \in Ahead(u, i) \/ i \in Ahead(u, j)
<1> DEFINE D == 1..Len(u)
<1>1. /\ Len(u) \in Nat /\ DOMAIN u = D /\ \A k \in D : u[k].amount \in Nat
      /\ i \in Nat /\ j \in Nat
  BY DEF CoinList
<1>2. IsFiniteSet(D) /\ Cardinality(D) = Len(u)
  <2>1. IsFiniteSet(D) /\ Cardinality(D) = IF 1 > Len(u) THEN 0 ELSE Len(u) - 1 + 1
    BY <1>1, FS_Interval
  <2> HIDE DEF D
  <2> QED BY <1>1, <2>1
<1>3. Rank(u, i) = Cardinality(Ahead(u, i)) /\ Rank(u, j) = Cardinality(Ahead(u, j))
  BY DEF Rank
<1>4. i \in Ahead(u, i) /\ Ahead(u, i) \in SUBSET D /\ {} \in SUBSET Ahead(u, i)
  BY <1>1 DEF Ahead
<1>5. Rank(u, i) \in 1..Len(u)
  <2> HIDE DEF D
  <2>1. Cardinality(Ahead(u, i)) \in 1..Cardinality(D)
    BY <1>2, <1>4, CountsDiffer
  <2> QED BY <1>2, <1>3, <2>1
<1>6. j \in Ahead(u, i) \/ i \in Ahead(u, j)
  <2>1. \A x, y \in Nat : x > y \/ y > x \/ x = y
    OBVIOUS
  <2>2. u[i].amount > u[j].amount \/ u[j].amount > u[i].amount \/ u[i].amount = u[j].amount
    BY <1>1, <2>1
  <2>3. i <= j \/ j <= i
    BY <1>1
  <2> QED BY <1>1, <2>2, <2>3 DEF Ahead
<1>7. ASSUME j \in Ahead(u, i) PROVE Rank(u, j) < Rank(u, i)
  <2>1. i \notin Ahead(u, j)
    BY <1>1, <1>7 DEF Ahead
  <2>2. Ahead(u, j) \in SUBSET Ahead(u, i)
    BY <1>1, <1>7 DEF Ahead
  <2> HIDE DEF D
  <2>3. Cardinality(Ahead(u, j)) < Cardinality(Ahead(u, i))
    BY <1>2, <1>4, <2>1, <2>2, CountsDiffer
  <2> QED BY <1>3, <2>3
<1> QED BY <1>5, <1>6, <1>7

(* A rank is a place of the list. *)
LEMMA RankRange ==
    ASSUME NEW u, CoinList(u), NEW i \in 1..Len(u)
    PROVE  Rank(u, i) \in 1..Len(u)
<1> DEFINE D == 1..Len(u)
<1>1. Len(u) \in Nat /\ DOMAIN u = D /\ \A k \in D : u[k].amount \in Nat /\ k \in Nat
  BY DEF CoinList
<1>2. IsFiniteSet(D) /\ Cardinality(D) = Len(u)
  <2>1. IsFiniteSet(D) /\ Cardinality(D) = IF 1 > Len(u) THEN 0 ELSE Len(u) - 1 + 1
    BY <1>1, FS_Interval
  <2> HIDE DEF D
  <2> QED BY <1>1, <2>1
<1>3. i \in Ahead(u, i) /\ Ahead(u, i) \in SUBSET D /\ {} \in SUBSET Ahead(u, i)
  BY <1>1 DEF Ahead
<1> HIDE DEF D
<1>4. Cardinality(Ahead(u, i)) \in 1..Cardinality(D)
  BY <1>2, <1>3, CountsDiffer
<1> QED BY <1>2, <1>4 DEF Rank

(* Largest puts each coin in one place, larger ones first. *)
Order(u) == [k \in 1..Len(u) |-> CHOOSE i \in 1..Len(u) : Rank(u, i) = k]

(* The sort gives every coin one place, larger coins first. *)
LEMMA LargestSorts ==
    ASSUME NEW u, CoinList(u)
    PROVE  /\ Order(u) \in [1..Len(u) -> 1..Len(u)]
           /\ \A k, l \in 1..Len(u) : Order(u)[k] = Order(u)[l] => k = l
           /\ \A i \in 1..Len(u) : \E k \in 1..Len(u) : Order(u)[k] = i
           /\ Largest(u) = [k \in 1..Len(u) |-> u[Order(u)[k]]]
           /\ \A k, l \in 1..Len(u) : k < l => u[Order(u)[k]].amount >= u[Order(u)[l]].amount
<1> DEFINE D == 1..Len(u)
           p == Order(u)
           r == [i \in D |-> Rank(u, i)]
<1>1. Len(u) \in Nat /\ DOMAIN u = D /\ \A k \in D : u[k].amount \in Nat /\ k \in Nat
  BY DEF CoinList
<1>2. IsFiniteSet(D) /\ Cardinality(D) = Len(u)
  <2>1. IsFiniteSet(D) /\ Cardinality(D) = IF 1 > Len(u) THEN 0 ELSE Len(u) - 1 + 1
    BY <1>1, FS_Interval
  <2> HIDE DEF D
  <2> QED BY <1>1, <2>1
<1>3. \A i \in D : Rank(u, i) \in D
  BY RankRange
<1>4. \A i, j \in D : i # j => Rank(u, i) # Rank(u, j)
  <2> SUFFICES ASSUME NEW i \in D, NEW j \in D, i # j PROVE Rank(u, i) # Rank(u, j)
    OBVIOUS
  <2>1. Rank(u, i) \in Nat /\ Rank(u, j) \in Nat
    BY <1>1, <1>3
  <2>2. (j \in Ahead(u, i) => Rank(u, j) < Rank(u, i)) /\ (j \in Ahead(u, i) \/ i \in Ahead(u, j))
    BY AheadOrder
  <2>3. i \in Ahead(u, j) => Rank(u, i) < Rank(u, j)
    BY AheadOrder
  <2> QED BY <2>1, <2>2, <2>3
<1>5. \A k \in D : \E i \in D : Rank(u, i) = k
  <2>1. r \in [D -> 1..Cardinality(D)] /\ \A x, y \in D : r[x] = r[y] => x = y
    BY <1>2, <1>3, <1>4
  <2>2. \A k \in 1..Cardinality(D) : \E x \in D : r[x] = k
    <3> HIDE DEF D, r
    <3> QED BY <1>2, <2>1, EveryPlace
  <2> QED BY <1>2, <2>2
<1>6. \A k \in D : p[k] \in D /\ Rank(u, p[k]) = k
  BY <1>5 DEF Order
<1>7. p \in [D -> D]
  <2>1. p = [k \in D |-> p[k]]
    BY DEF Order
  <2> HIDE DEF p, D
  <2> QED BY <1>6, <2>1
<1>8. \A k, l \in D : p[k] = p[l] => k = l
  <2> HIDE DEF p, D
  <2> QED BY <1>6
<1>9. \A i \in D : \E k \in D : p[k] = i
  <2> SUFFICES ASSUME NEW i \in D PROVE p[Rank(u, i)] = i /\ Rank(u, i) \in D
    OBVIOUS
  <2>1. Rank(u, i) \in D
    BY <1>3
  <2>2. p[Rank(u, i)] \in D /\ Rank(u, p[Rank(u, i)]) = Rank(u, i)
    BY <1>6, <2>1
  <2> HIDE DEF p, D
  <2> QED BY <1>4, <2>1, <2>2
<1>10. Largest(u) = [k \in D |-> u[p[k]]]
  BY <1>1 DEF Largest, Order
<1>11. ASSUME NEW k \in D, NEW l \in D, k < l PROVE u[p[k]].amount >= u[p[l]].amount
  <2> DEFINE i == p[k]
             j == p[l]
  <2>1. i \in D /\ j \in D /\ Rank(u, i) = k /\ Rank(u, j) = l /\ k \in Nat /\ l \in Nat
    BY <1>6
  <2>2. i # j
    BY <1>8, <1>11
  <2> HIDE DEF i, j
  <2>3. (j \in Ahead(u, i) => Rank(u, j) < Rank(u, i)) /\ (j \in Ahead(u, i) \/ i \in Ahead(u, j))
    BY <2>1, <2>2, AheadOrder
  <2>4. i \in Ahead(u, j)
    BY <1>11, <2>1, <2>3
  <2>5. u[i].amount >= u[j].amount
    BY <1>1, <2>1, <2>4 DEF Ahead
  <2> QED BY <2>5 DEF i, j
<1> QED BY <1>7, <1>8, <1>9, <1>10, <1>11

(* Nth lists a set of indices. *)
LEMMA NthLists ==
    ASSUME NEW n \in Nat, NEW S \in SUBSET (1..n)
    PROVE  /\ IsFiniteSet(S)
           /\ \A k \in 1..Cardinality(S) : Nth(S, k) \in S
           /\ \A k, l \in 1..Cardinality(S) : Nth(S, k) = Nth(S, l) => k = l
           /\ \A i \in S : \E k \in 1..Cardinality(S) : Nth(S, k) = i
<1> DEFINE below(i) == {j \in S : j <= i}
           r == [i \in S |-> Cardinality(below(i))]
           m == Cardinality(S)
<1>1. IsFiniteSet(S)
  <2>1. IsFiniteSet(1..n)
    BY FS_Interval
  <2> DEFINE D == 1..n
  <2> HIDE DEF D
  <2>2. S \in SUBSET D /\ IsFiniteSet(D)
    BY <2>1 DEF D
  <2> QED BY <2>2, FS_Subset
<1>2. \A i \in S : i \in Nat
  OBVIOUS
<1>3. \A i \in S : Cardinality(below(i)) \in 1..m
  <2> SUFFICES ASSUME NEW i \in S PROVE Cardinality(below(i)) \in 1..m
    OBVIOUS
  <2>1. i \in below(i) /\ below(i) \in SUBSET S /\ {} \in SUBSET below(i) /\ i \notin {}
    BY <1>2
  <2> DEFINE A == below(i)
  <2> HIDE DEF A
  <2>2. i \in A /\ A \in SUBSET S /\ {} \in SUBSET A
    BY <2>1 DEF A
  <2>3. Cardinality(A) \in 1..Cardinality(S)
    BY <1>1, <2>2, CountsDiffer
  <2> QED BY <2>3 DEF A
<1>4. \A i, j \in S : i < j => Cardinality(below(i)) < Cardinality(below(j))
  <2> SUFFICES ASSUME NEW i \in S, NEW j \in S, i < j PROVE Cardinality(below(i)) < Cardinality(below(j))
    OBVIOUS
  <2> DEFINE A == below(j)
             B == below(i)
  <2>1. A \in SUBSET S /\ B \in SUBSET A /\ j \in A /\ j \notin B
    <3>1. i \in Nat /\ j \in Nat /\ j <= j /\ ~(j <= i)
      BY <1>2
    <3>2. \A x \in S : x <= i => x <= j
      BY <1>2, <3>1
    <3> QED BY <3>1, <3>2
  <2> HIDE DEF A, B
  <2>2. Cardinality(B) < Cardinality(A)
    BY <1>1, <2>1, CountsDiffer
  <2> QED BY <2>2 DEF A, B
<1>5. \A i, j \in S : Cardinality(below(i)) = Cardinality(below(j)) => i = j
  <2> SUFFICES ASSUME NEW i \in S, NEW j \in S, i # j PROVE Cardinality(below(i)) # Cardinality(below(j))
    OBVIOUS
  <2>0. m \in Nat
    BY <1>1, FS_CardinalityType
  <2>1. Cardinality(below(i)) \in Nat /\ Cardinality(below(j)) \in Nat
    <3> HIDE DEF below, m
    <3> QED BY <1>3, <2>0
  <2>2. i < j \/ j < i
    BY <1>2
  <2> HIDE DEF below
  <2> QED BY <1>4, <2>1, <2>2
<1>6. \A k \in 1..m : \E i \in S : Cardinality(below(i)) = k
  <2>1. r \in [S -> 1..m] /\ \A x, y \in S : r[x] = r[y] => x = y
    <3> HIDE DEF below
    <3> QED BY <1>3, <1>5
  <2>2. \A k \in 1..m : \E x \in S : r[x] = k
    <3> HIDE DEF r
    <3> QED BY <1>1, <2>1, EveryPlace
  <2> HIDE DEF below
  <2> QED BY <2>2
<1>7. \A k : Nth(S, k) = CHOOSE i \in S : Cardinality(below(i)) = k
  BY DEF Nth
<1> HIDE DEF below
<1>8. \A k \in 1..m : Nth(S, k) \in S /\ Cardinality(below(Nth(S, k))) = k
  BY <1>6, <1>7
<1>9. \A i \in S : Nth(S, Cardinality(below(i))) = i
  BY <1>3, <1>5, <1>8
<1> QED BY <1>1, <1>3, <1>8, <1>9

(***************************************************************************)
(* The heap of topKSelector                                                *)
(***************************************************************************)
(* No coin is in the list twice. *)
Once(s) == \A i, j \in 1..Len(s) : s[i] = s[j] => i = j

(* s holds the coins of t, in some order. *)
SameCoins(s, t) ==
    CoinList(s) /\ Len(s) = Len(t) /\ Range(s) = Range(t) /\ (Once(t) => Once(s))

(* A swap exchanges two coins and keeps the others. *)
LEMMA SwapIs ==
    ASSUME NEW s, CoinList(s), NEW i \in 1..Len(s), NEW j \in 1..Len(s), i # j
    PROVE  /\ SameCoins(Swap(s, i, j), s)
           /\ Swap(s, i, j)[i] = s[j] /\ Swap(s, i, j)[j] = s[i]
           /\ \A k \in 1..Len(s) : k # i /\ k # j => Swap(s, i, j)[k] = s[k]
<1> DEFINE n == Len(s)
           t == Swap(s, i, j)
<1>1. n \in Nat /\ DOMAIN s = 1..n /\ \A k \in 1..n : s[k].amount \in Nat
  BY DEF CoinList
<1>2. t = [k \in 1..n |-> IF k = j THEN s[i] ELSE IF k = i THEN s[j] ELSE s[k]]
  BY <1>1 DEF Swap
<1>3. t \in [1..n -> Range(s)]
  BY <1>1, <1>2 DEF Range
<1>4. t[i] = s[j] /\ t[j] = s[i] /\ \A k \in 1..n : k # i /\ k # j => t[k] = s[k]
  BY <1>2
<1> HIDE DEF t
<1>5. Len(t) = n
  BY <1>1, <1>3, FcnSeq
<1>6. CoinList(t)
  <2>1. DOMAIN t = 1..n
    BY <1>2
  <2>2. \A k \in 1..n : t[k].amount \in Nat
    BY <1>1, <1>4
  <2> QED BY <1>1, <1>5, <2>1, <2>2 DEF CoinList
<1>7. Range(t) = Range(s)
  <2>1. Range(t) = {t[k] : k \in 1..n} /\ Range(s) = {s[k] : k \in 1..n}
    BY <1>1, <1>2 DEF Range
  <2>2. \A k \in 1..n : \E l \in 1..n : t[k] = s[l]
    BY <1>4
  <2>3. \A k \in 1..n : \E l \in 1..n : s[k] = t[l]
    BY <1>4
  <2>4. ASSUME NEW x \in Range(t) PROVE x \in Range(s)
    BY <2>1, <2>2
  <2>5. ASSUME NEW x \in Range(s) PROVE x \in Range(t)
    BY <2>1, <2>3
  <2> QED BY <2>4, <2>5
<1>8. Once(s) => Once(t)
  <2> SUFFICES ASSUME Once(s), NEW k \in 1..n, NEW l \in 1..n, t[k] = t[l] PROVE k = l
    BY <1>5 DEF Once
  <2>1. \A a, b \in 1..n : s[a] = s[b] => a = b
    BY DEF Once
  <2> QED BY <1>4, <2>1
<1> QED BY <1>4, <1>5, <1>6, <1>7, <1>8 DEF SameCoins, t

(* Shuffling twice is shuffling. *)
LEMMA SameCoinsTrans ==
    ASSUME NEW s, NEW t, NEW u, SameCoins(s, t), SameCoins(t, u)
    PROVE  SameCoins(s, u)
BY DEF SameCoins

(* No child of p, if there is one, is smaller than x. *)
NoSmallerChild(base, p, x) ==
    /\ x <= base[2 * p].amount
    /\ 2 * p + 1 <= K => x <= base[2 * p + 1].amount

(* From place low on no parent is larger than a child. *)
HeapFrom(base, low) ==
    \A p \in low..(K \div 2) : NoSmallerChild(base, p, base[p].amount)

(* A heap but for the coin at cur, which may be too large for its place. *)
HeapBut(base, low, cur) ==
    /\ \A p \in low..(K \div 2) : p # cur => NoSmallerChild(base, p, base[p].amount)
    /\ \A p \in low..(K \div 2) : cur \in {2 * p, 2 * p + 1} /\ cur <= K \div 2
          => NoSmallerChild(base, cur, base[p].amount)

(* The places that have a child are those up to half of the heap. *)
LEMMA HalfIs ==
    /\ K \div 2 \in Nat /\ K \in Nat /\ K > 0
    /\ \A p \in Nat : p <= K \div 2 <=> 2 * p <= K
<1>1. K \in Nat /\ K > 0
  BY SelectionAssumption
<1> QED BY <1>1

(* One turn of adjust moves the misplaced coin down, or it was in its      *)
(* place.                                                                  *)
LEMMA SiftStep ==
    ASSUME NEW base, CoinList(base), Len(base) = K, NEW low \in Nat \ {0}, NEW cur \in low..K,
           HeapBut(base, low, cur)
    PROVE  LET h == [base |-> base, cur |-> cur]
               new == SiftDown(h)
           IN  /\ SameCoins(new.base, base) /\ new.cur \in low..K
               /\ HeapBut(new.base, low, new.cur)
               /\ new = [base |-> new.base, cur |-> new.cur]
               /\ HeapFrom(new.base, low) \/ new.cur > cur
<1> DEFINE h == [base |-> base, cur |-> cur]
           left == 2 * cur
           child == IF left + 1 <= K /\ base[left].amount > base[left + 1].amount THEN left + 1 ELSE left
           new == SiftDown(h)
           Am(p) == base[p].amount
<1>1. K \div 2 \in Nat /\ K \in Nat /\ \A p \in Nat : p <= K \div 2 <=> 2 * p <= K
  BY HalfIs
<1>2. cur \in Nat /\ cur > 0 /\ low \in Nat /\ low > 0 /\ low <= cur /\ cur <= K
  BY <1>1
<1>3. \A p \in 1..K : Am(p) \in Nat
  BY DEF CoinList
<1>4. new = IF cur <= K \div 2 /\ Am(cur) > Am(child)
            THEN [base |-> Swap(base, cur, child), cur |-> child] ELSE h
  BY DEF SiftDown
<1>5. CASE ~(cur <= K \div 2 /\ Am(cur) > Am(child))
  <2>1. new = h
    BY <1>4, <1>5
  <2>2. ASSUME cur <= K \div 2 PROVE NoSmallerChild(base, cur, Am(cur))
    <3>1. left \in 1..K
      BY <1>1, <1>2, <2>2
    <3>2. Am(left) \in Nat /\ Am(cur) \in Nat
      BY <1>1, <1>2, <1>3, <3>1
    <3>3. CASE left + 1 <= K
      <4>1. left + 1 \in 1..K
        BY <1>1, <3>1, <3>3
      <4>2. Am(left + 1) \in Nat
        BY <1>3, <4>1
      <4>3. ~(Am(cur) > Am(child))
        BY <1>5, <2>2
      <4>4. Am(child) = IF Am(left) > Am(left + 1) THEN Am(left + 1) ELSE Am(left)
        BY <3>3
      <4>5. Am(cur) <= Am(left) /\ Am(cur) <= Am(left + 1)
        <5> DEFINE x == Am(cur)
                   y == Am(left)
                   z == Am(left + 1)
        <5>1. x \in Nat /\ y \in Nat /\ z \in Nat /\ ~(x > IF y > z THEN z ELSE y)
          BY <3>2, <4>2, <4>3, <4>4
        <5> HIDE DEF x, y, z
        <5>2. x <= y /\ x <= z
          BY <5>1
        <5> QED BY <5>2 DEF x, y, z
      <4> QED BY <4>5 DEF NoSmallerChild
    <3>4. CASE ~(left + 1 <= K)
      <4>1. child = left
        BY <3>4
      <4>2. Am(cur) <= Am(left)
        <5> DEFINE x == Am(cur)
                   y == Am(left)
        <5>1. x \in Nat /\ y \in Nat /\ ~(x > y)
          BY <1>5, <2>2, <3>2, <4>1
        <5> HIDE DEF x, y
        <5>2. x <= y
          BY <5>1
        <5> QED BY <5>2 DEF x, y
      <4> QED BY <3>4, <4>2 DEF NoSmallerChild
    <3> QED BY <3>3, <3>4
  <2>3. HeapFrom(base, low)
    <3> SUFFICES ASSUME NEW p \in low..(K \div 2) PROVE NoSmallerChild(base, p, base[p].amount)
      BY DEF HeapFrom
    <3>1. CASE p = cur
      <4>1. cur <= K \div 2
        BY <1>1, <1>2, <3>1
      <4> QED BY <2>2, <3>1, <4>1
    <3>2. CASE p # cur
      BY <3>2 DEF HeapBut
    <3> QED BY <3>1, <3>2
  <2>4. SameCoins(base, base)
    BY DEF SameCoins
  <2>5. new.base = base /\ new.cur = cur
    BY <2>1
  <2> HIDE DEF new
  <2>6. new = [base |-> new.base, cur |-> new.cur]
    BY <2>1, <2>5
  <2>7. SameCoins(new.base, base) /\ new.cur \in low..K /\ HeapBut(new.base, low, new.cur) /\ HeapFrom(new.base, low)
    BY <2>3, <2>4, <2>5
  <2> QED BY <2>6, <2>7 DEF new
<1>6. CASE cur <= K \div 2 /\ Am(cur) > Am(child)
  <2> DEFINE b == Swap(base, cur, child)
  <2>1. left \in 1..K /\ left > cur /\ left \in Nat
    BY <1>1, <1>2, <1>6
  <2>2. child \in 1..K /\ child > cur /\ child \in low..K /\ child # cur /\ child \in {left, left + 1}
    BY <1>1, <1>2, <2>1
  <2>3. new = [base |-> b, cur |-> child] /\ new.base = b /\ new.cur = child
    BY <1>4, <1>6
  <2>4. /\ Am(child) <= Am(left) /\ (left + 1 <= K => Am(child) <= Am(left + 1)) /\ Am(child) < Am(cur)
        /\ Am(child) \in Nat /\ Am(cur) \in Nat
    <3>1. Am(left) \in Nat /\ Am(cur) \in Nat /\ Am(child) \in Nat
      BY <1>1, <1>2, <1>3, <2>1, <2>2
    <3>2. CASE left + 1 <= K
      <4>1. left + 1 \in 1..K
        BY <1>1, <2>1, <3>2
      <4>2. Am(left + 1) \in Nat
        BY <1>3, <4>1
      <4>3. Am(child) = IF Am(left) > Am(left + 1) THEN Am(left + 1) ELSE Am(left)
        BY <3>2
      <4> DEFINE x == Am(cur)
                 y == Am(left)
                 z == Am(left + 1)
                 w == Am(child)
      <4>4. x \in Nat /\ y \in Nat /\ z \in Nat /\ w = (IF y > z THEN z ELSE y) /\ x > w
        BY <1>6, <3>1, <4>2, <4>3
      <4> HIDE DEF x, y, z, w, child
      <4>5. w <= y /\ w <= z /\ w < x
        BY <4>4
      <4> QED BY <3>1, <4>5 DEF x, y, z, w
    <3>3. CASE ~(left + 1 <= K)
      <4>1. child = left
        BY <3>3
      <4> DEFINE x == Am(cur)
                 y == Am(left)
      <4>2. x \in Nat /\ y \in Nat /\ x > y
        BY <1>6, <3>1, <4>1
      <4> HIDE DEF x, y
      <4>3. y <= y /\ y < x
        BY <4>2
      <4>4. Am(left) <= Am(left) /\ Am(left) < Am(cur)
        BY <4>3 DEF x, y
      <4> QED BY <3>1, <3>3, <4>1, <4>4
    <3> QED BY <3>2, <3>3
  <2> HIDE DEF child
  <2>5. /\ SameCoins(b, base)
        /\ b[cur] = base[child] /\ b[child] = base[cur]
        /\ \A k \in 1..K : k # cur /\ k # child => b[k] = base[k]
    <3>1. cur \in 1..Len(base) /\ child \in 1..Len(base)
      BY <1>1, <1>2, <2>2
    <3> QED BY <2>2, <3>1, SwapIs
  <2> HIDE DEF b, new
  <2> DEFINE Bm(p) == b[p].amount
  <2>6. /\ Bm(cur) = Am(child) /\ Bm(child) = Am(cur)
        /\ \A k \in 1..K : k # cur /\ k # child => Bm(k) = Am(k)
    BY <2>5
  <2>7. ASSUME NEW p \in low..(K \div 2), p # child PROVE NoSmallerChild(b, p, Bm(p))
    <3>1. p \in Nat /\ p > 0 /\ 2 * p <= K /\ 2 * p \in 1..K /\ p \in 1..K /\ 2 * p > p /\ low <= p
      BY <1>1, <1>2
    <3>2. CASE p = cur
      <4>1. ASSUME NEW q \in {left, left + 1}, q <= K PROVE Am(child) <= Bm(q)
        <5>1. q \in 1..K /\ q # cur
          BY <1>1, <1>2, <2>1, <4>1
        <5>2. CASE q = child
          <6>1. \A x, y \in Nat : x < y => x <= y
            OBVIOUS
          <6>2. Bm(q) = Am(cur)
            BY <5>2, <2>6
          <6> QED BY <2>4, <6>1, <6>2
        <5>3. CASE q # child
          <6>1. Bm(q) = Am(q)
            BY <5>1, <5>3, <2>6
          <6> QED BY <2>4, <4>1, <6>1
        <5> QED BY <5>2, <5>3
      <4>2. Am(child) <= Bm(left)
        BY <2>1, <4>1
      <4>3. left + 1 <= K => Am(child) <= Bm(left + 1)
        BY <4>1
      <4> QED BY <2>6, <3>2, <4>2, <4>3 DEF NoSmallerChild
    <3>3. CASE p # cur
      <4>1. NoSmallerChild(base, p, Am(p))
        BY <3>3 DEF HeapBut
      <4>2. Bm(p) = Am(p)
        BY <2>6, <2>7, <3>1, <3>3
      <4>3. cur \in {2 * p, 2 * p + 1} => NoSmallerChild(base, cur, Am(p))
        BY <1>6 DEF HeapBut
      <4>4. ASSUME NEW q \in {2 * p, 2 * p + 1}, q <= K PROVE Am(p) <= Bm(q)
        <5>0. q \in 1..K
          BY <1>1, <3>1, <4>4
        <5>1. Am(p) <= Am(q)
          BY <4>1, <4>4 DEF NoSmallerChild
        <5>2. CASE q = cur
          <6>1. NoSmallerChild(base, cur, Am(p))
            BY <4>3, <5>2
          <6>2. Am(p) <= Am(child)
            BY <2>2, <6>1 DEF NoSmallerChild
          <6> QED BY <2>6, <5>2, <6>2
        <5>3. CASE q = child
          <6>1. p = cur
            BY <1>1, <1>2, <2>1, <2>2, <3>1, <5>3
          <6> QED BY <3>3, <6>1
        <5>4. CASE q # cur /\ q # child
          BY <2>6, <5>0, <5>1, <5>4
        <5> QED BY <5>2, <5>3, <5>4
      <4>5. Am(p) <= Bm(2 * p) /\ (2 * p + 1 <= K => Am(p) <= Bm(2 * p + 1))
        BY <3>1, <4>4
      <4> QED BY <4>2, <4>5 DEF NoSmallerChild
    <3> QED BY <3>2, <3>3
  <2>8. ASSUME NEW p \in low..(K \div 2), child \in {2 * p, 2 * p + 1}, child <= K \div 2
        PROVE  NoSmallerChild(b, child, Bm(p))
    <3>1. p = cur
      BY <1>1, <1>2, <2>1, <2>2, <2>8
    <3>2. child \in low..(K \div 2) /\ child # cur
      BY <1>1, <2>2, <2>8
    <3>3. NoSmallerChild(base, child, Am(child))
      BY <3>2 DEF HeapBut
    <3>4. 2 * child \in 1..K /\ 2 * child # child /\ 2 * child # cur /\ 2 * child + 1 # child /\ 2 * child + 1 # cur
      BY <1>1, <1>2, <2>2, <2>8
    <3>5. Bm(2 * child) = Am(2 * child)
      BY <2>6, <3>4
    <3>6. 2 * child + 1 <= K => Bm(2 * child + 1) = Am(2 * child + 1)
      <4> SUFFICES ASSUME 2 * child + 1 <= K PROVE 2 * child + 1 \in 1..K
        BY <2>6, <3>4
      <4> QED BY <1>1, <3>4
    <3> QED BY <2>6, <3>1, <3>3, <3>5, <3>6 DEF NoSmallerChild
  <2>9. HeapBut(b, low, child)
    BY <2>7, <2>8 DEF HeapBut
  <2> QED BY <2>2, <2>3, <2>5, <2>9 DEF new
<1> QED BY <1>5, <1>6

(* A heap stays as it is. *)
LEMMA SiftStays ==
    ASSUME NEW base, CoinList(base), Len(base) = K, NEW low \in Nat \ {0}, NEW cur \in low..K,
           HeapFrom(base, low)
    PROVE  SiftDown([base |-> base, cur |-> cur]) = [base |-> base, cur |-> cur]
<1> DEFINE h == [base |-> base, cur |-> cur]
           left == 2 * cur
           child == IF left + 1 <= K /\ base[left].amount > base[left + 1].amount THEN left + 1 ELSE left
           Am(p) == base[p].amount
<1>1. K \div 2 \in Nat /\ K \in Nat /\ \A p \in Nat : p <= K \div 2 <=> 2 * p <= K
  BY HalfIs
<1>2. cur \in Nat /\ cur > 0 /\ low <= cur /\ cur <= K
  BY <1>1
<1>3. \A p \in 1..K : Am(p) \in Nat
  BY DEF CoinList
<1>4. ASSUME cur <= K \div 2 PROVE ~(Am(cur) > Am(child))
  <2>1. NoSmallerChild(base, cur, Am(cur))
    <3>1. cur \in low..(K \div 2)
      BY <1>1, <1>2, <1>4
    <3> QED BY <3>1 DEF HeapFrom
  <2>2. left \in 1..K /\ child \in {left, left + 1} /\ child <= K
    BY <1>1, <1>2, <1>4
  <2>3. child \in 1..K /\ cur \in 1..K
    BY <1>1, <1>2, <2>2
  <2>4. Am(cur) <= Am(child)
    <3> HIDE DEF child
    <3> QED BY <2>1, <2>2 DEF NoSmallerChild
  <2>5. Am(cur) \in Nat /\ Am(child) \in Nat
    <3> HIDE DEF child
    <3> QED BY <1>3, <2>3
  <2>6. \A x, y \in Nat : x <= y => ~(x > y)
    OBVIOUS
  <2> HIDE DEF child
  <2> QED BY <2>4, <2>5, <2>6
<1>5. SiftDown(h) = IF cur <= K \div 2 /\ Am(cur) > Am(child)
                    THEN [base |-> Swap(base, cur, child), cur |-> child] ELSE h
  BY DEF SiftDown
<1> QED BY <1>4, <1>5

(* The loop of adjust ends in a heap: cur grows with every swap. *)
Sifted(base0, low) ==
    {h \in [base : {b \in [1..K -> Range(base0)] : SameCoins(b, base0)}, cur : low..K] :
        HeapBut(h.base, low, h.cur)}

(* A shuffled list has the places and the coins of the list. *)
LEMMA CoinFcn ==
    ASSUME NEW b, NEW base0, SameCoins(b, base0), NEW n, Len(base0) = n
    PROVE  /\ CoinList(b) /\ Len(b) = n /\ DOMAIN b = 1..n
           /\ \A k \in 1..n : b[k] \in Range(base0)
<1>1. CoinList(b) /\ Len(b) = n /\ Range(b) = Range(base0)
  BY DEF SameCoins
<1>2. DOMAIN b = 1..n
  BY <1>1 DEF CoinList
<1> QED BY <1>1, <1>2 DEF Range

(* The loop of adjust. *)
SiftLoop(base, cur, f) ==
    f = [l \in 0..K |-> IF l = 0 THEN [base |-> base, cur |-> cur] ELSE SiftDown(f[l - 1])]

(* One turn of adjust keeps the invariant of its loop. *)
LEMMA SiftKeeps ==
    ASSUME NEW base, CoinList(base), Len(base) = K, NEW low \in Nat \ {0}, NEW h \in Sifted(base, low)
    PROVE  /\ SiftDown(h) \in Sifted(base, low)
           /\ HeapFrom(SiftDown(h).base, low) \/ SiftDown(h).cur > h.cur
           /\ HeapFrom(h.base, low) => SiftDown(h) = h
           /\ h.cur \in Nat
<1> DEFINE b == h.base
           c == h.cur
           new == SiftDown(h)
<1>1. b \in [1..K -> Range(base)] /\ SameCoins(b, base) /\ c \in low..K /\ HeapBut(b, low, c)
      /\ h = [base |-> b, cur |-> c]
  BY DEF Sifted
<1>2. CoinList(b) /\ Len(b) = K
  BY <1>1, CoinFcn
<1>3. K \in Nat
  BY HalfIs
<1> HIDE DEF b, c
<1>4. /\ SameCoins(new.base, b) /\ new.cur \in low..K
      /\ HeapBut(new.base, low, new.cur)
      /\ new = [base |-> new.base, cur |-> new.cur]
      /\ HeapFrom(new.base, low) \/ new.cur > c
  BY <1>1, <1>2, SiftStep
<1> DEFINE nb == new.base
           nc == new.cur
<1>5. SameCoins(nb, base)
  BY <1>1, <1>4, SameCoinsTrans
<1>6. nb \in [1..K -> Range(base)]
  <2>1. /\ DOMAIN nb = 1..K /\ \A k \in 1..K : nb[k] \in Range(base)
    <3> HIDE DEF nb
    <3> QED BY <1>5, CoinFcn
  <2>2. nb = [k \in DOMAIN nb |-> nb[k]]
    <3>1. CASE new = h
      <4>1. nb = b
        BY <3>1, <1>1
      <4> QED BY <1>1, <4>1
    <3>2. CASE new # h
      <4>1. \E i, j : new.base = Swap(b, i, j)
        BY <1>1, <3>2 DEF SiftDown
      <4> QED BY <4>1 DEF Swap
    <3> QED BY <3>1, <3>2
  <2> HIDE DEF nb
  <2> QED BY <2>1, <2>2
<1>7. new \in Sifted(base, low)
  <2>1. new = [base |-> nb, cur |-> nc] /\ nc \in low..K /\ HeapBut(nb, low, nc)
    BY <1>4
  <2> HIDE DEF new, nb, nc
  <2> QED BY <1>5, <1>6, <2>1 DEF Sifted
<1>8. HeapFrom(b, low) => SiftDown([base |-> b, cur |-> c]) = [base |-> b, cur |-> c]
  BY <1>1, <1>2, SiftStays
<1> QED BY <1>1, <1>3, <1>4, <1>7, <1>8 DEF b, c

(* adjust returns what its loop has after K turns. *)
LEMMA SiftTurns ==
    ASSUME NEW base, base \in Seq(Range(base)), CoinList(base), Len(base) = K, NEW cur \in 1..K, HeapBut(base, cur, cur)
    PROVE  \E f : adjust(base, cur) = f[K].base /\ SiftLoop(base, cur, f)
<1> DEFINE S == Sifted(base, cur)
           a == [base |-> base, cur |-> cur]
           F == [p \in S \X (1..K) |-> SiftDown(p[1])]
           Loop(f) == f = [l \in 0..K |-> IF l = 0 THEN a ELSE SiftDown(f[l - 1])]
<1>0. K \in Nat /\ cur \in Nat \ {0} /\ cur \in cur..K
  BY HalfIs
<1>1. a \in S
  <2>1. SameCoins(base, base)
    BY DEF SameCoins
  <2>2. base \in [1..K -> Range(base)]
    OBVIOUS
  <2> QED BY <1>0, <2>1, <2>2 DEF Sifted
<1>2. F \in [S \X (1..K) -> S]
  <2> SUFFICES ASSUME NEW h \in S PROVE SiftDown(h) \in S
    <3> HIDE DEF S
    <3> QED OBVIOUS
  <2> QED BY <1>0, SiftKeeps
<1>3. PICK f \in [0..K -> S] : Unrolls(f, K, a, F)
  <2> HIDE DEF S, a, F
  <2> QED BY <1>0, <1>1, <1>2, TurnsExist
<1>4. Loop(f)
  <2>1. ASSUME NEW l \in 0..K, l # 0 PROVE F[<<f[l - 1], l>>] = SiftDown(f[l - 1])
    <3>1. l - 1 \in 0..K /\ l \in 1..K
      BY <1>0, <2>1
    <3>2. f[l - 1] \in S
      BY <3>1
    <3> HIDE DEF S
    <3> QED BY <3>1, <3>2
  <2> HIDE DEF F, S, a
  <2>2. \A l \in 0..K : f[l] = IF l = 0 THEN a ELSE SiftDown(f[l - 1])
    BY <1>3, <2>1 DEF Unrolls
  <2> QED BY <1>3, <2>2 DEF Unrolls
<1>5. Loop(CHOOSE g : Loop(g))
  <2> HIDE DEF Loop
  <2> QED BY <1>4
<1>6. adjust(base, cur) = (CHOOSE g : Loop(g))[K].base
  BY DEF adjust
<1> DEFINE s == CHOOSE g : Loop(g)
<1>7. adjust(base, cur) = s[K].base /\ Loop(s)
  BY <1>5, <1>6
<1> HIDE DEF s
<1> WITNESS s
<1> QED BY <1>7 DEF SiftLoop

(* adjust puts the coin at cur in its place. *)
LEMMA AdjustHeaps ==
    ASSUME NEW base, base \in Seq(Range(base)), CoinList(base), Len(base) = K, NEW cur \in 1..K,
           HeapFrom(base, cur + 1)
    PROVE  /\ SameCoins(adjust(base, cur), base) /\ HeapFrom(adjust(base, cur), cur)
           /\ adjust(base, cur) \in [1..K -> Range(base)]
<1>0. K \in Nat /\ cur \in Nat \ {0} /\ cur \in Nat /\ cur > 0 /\ cur \in cur..K /\ K \in 0..K /\ 0 \in 0..K /\ K \div 2 \in Nat
  BY HalfIs
<1>1. HeapBut(base, cur, cur)
  <2>1. \A p \in cur..(K \div 2) : p # cur => p \in (cur + 1)..(K \div 2)
    BY <1>0
  <2>2. \A p \in cur..(K \div 2) : cur \notin {2 * p, 2 * p + 1}
    BY <1>0
  <2> QED BY <2>1, <2>2 DEF HeapBut, HeapFrom
<1>2. PICK f : adjust(base, cur) = f[K].base /\ SiftLoop(base, cur, f)
  BY <1>1, SiftTurns
<1>3. f = [l \in 0..K |-> IF l = 0 THEN [base |-> base, cur |-> cur] ELSE SiftDown(f[l - 1])]
  BY <1>2 DEF SiftLoop
<1> DEFINE S == Sifted(base, cur)
           G == {l \in 0..K : f[l] \in S /\ (HeapFrom(f[l].base, cur) \/ f[l].cur >= cur + l)}
<1>4. 0 \in G
  <2>1. f[0] = [base |-> base, cur |-> cur]
    BY <1>0, <1>3
  <2>2. f[0] \in S
    <3>1. SameCoins(base, base)
      BY DEF SameCoins
    <3>2. base \in [1..K -> Range(base)]
      OBVIOUS
    <3> QED BY <1>0, <1>1, <2>1, <3>1, <3>2 DEF Sifted
  <2>3. f[0].cur >= cur + 0
    BY <1>0, <2>1
  <2> QED BY <1>0, <2>2, <2>3
<1>5. ASSUME NEW l \in 0..(K - 1), l \in G PROVE l + 1 \in G
  <2>1. l + 1 \in 0..K /\ l + 1 # 0 /\ (l + 1) - 1 = l /\ l \in Nat
    BY <1>0
  <2>2. f[l + 1] = SiftDown(f[l])
    BY <1>3, <2>1
  <2> DEFINE h == f[l]
             new == f[l + 1]
  <2>3. h \in S /\ (HeapFrom(h.base, cur) \/ h.cur >= cur + l)
    BY <1>5
  <2>4. /\ SiftDown(h) \in S
        /\ HeapFrom(SiftDown(h).base, cur) \/ SiftDown(h).cur > h.cur
        /\ HeapFrom(h.base, cur) => SiftDown(h) = h
        /\ h.cur \in Nat
    <3> HIDE DEF h
    <3> QED BY <1>0, <2>3, SiftKeeps
  <2>5. new.cur \in Nat
    <3>1. new \in S
      BY <2>2, <2>4
    <3> HIDE DEF new
    <3>2. new.cur \in cur..K
      BY <3>1 DEF Sifted
    <3> QED BY <1>0, <3>2
  <2>6. CASE HeapFrom(h.base, cur)
    BY <2>1, <2>2, <2>4, <2>6
  <2>7. CASE ~HeapFrom(h.base, cur)
    <3>1. CASE HeapFrom(new.base, cur)
      BY <2>1, <2>2, <2>4, <3>1
    <3>2. CASE new.cur > h.cur
      <4> DEFINE x == h.cur
                 y == new.cur
      <4>1. x \in Nat /\ y \in Nat /\ x >= cur + l /\ y > x
        BY <2>3, <2>4, <2>5, <2>7, <3>2
      <4> HIDE DEF x, y
      <4>2. y >= cur + (l + 1)
        BY <1>0, <2>1, <4>1
      <4>3. new.cur >= cur + (l + 1)
        BY <4>2 DEF y
      <4> QED BY <2>1, <2>2, <2>4, <4>3
    <3> QED BY <2>2, <2>4, <3>1, <3>2
  <2> QED BY <2>6, <2>7
<1>6. K \in G
  <2> HIDE DEF G
  <2>1. \A l \in 0..K : l \in G
    BY <1>0, <1>4, <1>5, Turn
  <2> QED BY <1>0, <2>1
<1> DEFINE h == f[K]
<1>7. h \in S /\ (HeapFrom(h.base, cur) \/ h.cur >= cur + K)
  BY <1>6
<1> HIDE DEF h
<1>8. h.cur \in cur..K /\ SameCoins(h.base, base) /\ h.base \in [1..K -> Range(base)]
  BY <1>7 DEF Sifted
<1>9. ~(h.cur >= cur + K)
  BY <1>0, <1>8
<1> QED BY <1>2, <1>7, <1>8, <1>9 DEF h

(* The loop of submit over the parents. *)
HeapLoop(base, f) ==
    f = [i \in 0..(K \div 2) |-> IF i = 0 THEN base ELSE adjust(f[i - 1], K \div 2 + 1 - i)]

(* The top of a heap is its smallest coin. *)
LEMMA TopSmallest ==
    ASSUME NEW base, CoinList(base), Len(base) = K, HeapFrom(base, 1)
    PROVE  \A j \in 1..K : base[1].amount <= base[j].amount
<1> DEFINE G == {i \in 0..K : \A j \in 1..K : j <= i => base[1].amount <= base[j].amount}
<1>0. K \in Nat /\ K > 0 /\ 0 \in 0..K /\ K \in 0..K /\ K \div 2 \in Nat /\ \A p \in Nat : p <= K \div 2 <=> 2 * p <= K
  BY HalfIs
<1>1. \A j \in 1..K : base[j].amount \in Nat
  BY DEF CoinList
<1>2. 0 \in G
  BY <1>0
<1>3. ASSUME NEW i \in 0..(K - 1), i \in G PROVE i + 1 \in G
  <2>1. i + 1 \in 0..K /\ i + 1 \in 1..K /\ i \in Nat /\ 1 \in 1..K
    BY <1>0
  <2>2. base[1].amount <= base[i + 1].amount
    <3>1. CASE i = 0
      <4>1. base[1].amount \in Nat
        BY <1>1, <2>1
      <4>2. \A x \in Nat : x <= x
        OBVIOUS
      <4> QED BY <3>1, <4>1, <4>2
    <3>2. CASE i # 0
      <4> DEFINE p == (i + 1) \div 2
      <4>1. p \in 1..(K \div 2) /\ p <= i /\ p \in 1..K /\ i + 1 \in {2 * p, 2 * p + 1}
        BY <1>0, <2>1, <3>2
      <4> HIDE DEF p
      <4>2. NoSmallerChild(base, p, base[p].amount)
        BY <4>1 DEF HeapFrom
      <4>3. base[p].amount <= base[i + 1].amount
        <5>1. i + 1 <= K
          BY <1>0, <2>1
        <5> QED BY <4>1, <4>2, <5>1 DEF NoSmallerChild
      <4>4. base[1].amount <= base[p].amount
        BY <1>3, <4>1
      <4>5. base[1].amount \in Nat /\ base[p].amount \in Nat /\ base[i + 1].amount \in Nat
        BY <1>1, <2>1, <4>1
      <4>6. \A x, y, z \in Nat : x <= y /\ y <= z => x <= z
        OBVIOUS
      <4> QED BY <4>3, <4>4, <4>5, <4>6
    <3> QED BY <3>1, <3>2
  <2>3. ASSUME NEW j \in 1..K, j <= i + 1 PROVE base[1].amount <= base[j].amount
    <3>1. j <= i \/ j = i + 1
      BY <2>1, <2>3
    <3> QED BY <1>3, <2>2, <3>1
  <2> QED BY <2>1, <2>3
<1>4. K \in G
  <2> HIDE DEF G
  <2>1. \A l \in 0..K : l \in G
    BY <1>0, <1>2, <1>3, Turn
  <2> QED BY <1>0, <2>1
<1>5. \A j \in 1..K : j <= K
  BY <1>0
<1> QED BY <1>4, <1>5

(* The coins of a base in any order. *)
Shuffled(base) == {b \in [1..K -> Range(base)] : SameCoins(b, base)}

(* One turn of the loop that makes the heap, from the last parent down. *)
LEMMA HeapTurn ==
    ASSUME NEW base, CoinList(base), Len(base) = K, NEW b \in Shuffled(base),
           NEW i \in 0..(K \div 2 - 1), HeapFrom(b, K \div 2 + 1 - i)
    PROVE  /\ adjust(b, K \div 2 + 1 - (i + 1)) \in Shuffled(base)
           /\ HeapFrom(adjust(b, K \div 2 + 1 - (i + 1)), K \div 2 + 1 - (i + 1))
<1> DEFINE cur == K \div 2 + 1 - (i + 1)
<1>1. K \in Nat /\ K > 0 /\ K \div 2 \in Nat
  BY HalfIs
<1>2. cur \in 1..K /\ cur + 1 = K \div 2 + 1 - i
  BY <1>1
<1>3. b \in [1..K -> Range(base)] /\ SameCoins(b, base)
  BY DEF Shuffled
<1>4. CoinList(b) /\ Len(b) = K /\ Range(b) = Range(base)
  BY <1>3, CoinFcn DEF SameCoins
<1>5. b \in Seq(Range(b))
  <2> DEFINE R == Range(b)
  <2>1. b \in [1..K -> R]
    BY <1>3, <1>4
  <2> HIDE DEF R
  <2>2. b \in Seq(R)
    BY <1>1, <2>1, FcnSeq
  <2> QED BY <2>2 DEF R
<1> HIDE DEF cur
<1>6. /\ SameCoins(adjust(b, cur), b) /\ HeapFrom(adjust(b, cur), cur)
      /\ adjust(b, cur) \in [1..K -> Range(b)]
  BY <1>2, <1>4, <1>5, AdjustHeaps
<1>7. SameCoins(adjust(b, cur), base)
  BY <1>3, <1>6, SameCoinsTrans
<1> QED BY <1>4, <1>6, <1>7 DEF Shuffled, cur

(* The heap is what the loop over the parents ends with. *)
LEMMA HeapTurns ==
    ASSUME NEW base, base \in Seq(Range(base)), CoinList(base), Len(base) = K
    PROVE  \E f : Heapify(base) = f[K \div 2] /\ HeapLoop(base, f)
<1> DEFINE S == Shuffled(base)
           n == K \div 2
           next(b, i) == adjust(b, K \div 2 + 1 - i)
           F == [p \in S \X (1..n) |-> IF next(p[1], p[2]) \in S THEN next(p[1], p[2]) ELSE p[1]]
           Loop(f) == f = [i \in 0..n |-> IF i = 0 THEN base ELSE next(f[i - 1], i)]
<1>0. K \in Nat /\ n \in Nat /\ 0 \in 0..n
  BY HalfIs
<1>1. base \in S
  BY DEF Shuffled, SameCoins
<1>2. F \in [S \X (1..n) -> S]
  <2> HIDE DEF S, next, n
  <2> QED OBVIOUS
<1>3. PICK f \in [0..n -> S] : Unrolls(f, n, base, F)
  <2> HIDE DEF S, n, F
  <2> QED BY <1>0, <1>1, <1>2, TurnsExist
<1>4. \A i \in 0..n : f[i] = IF i = 0 THEN base ELSE F[<<f[i - 1], i>>]
  BY <1>3 DEF Unrolls
<1> DEFINE G == {i \in 0..n : /\ HeapFrom(f[i], n + 1 - i)
                              /\ i # 0 => f[i] = next(f[i - 1], i)}
<1>5. 0 \in G
  <2>1. HeapFrom(f[0], n + 1 - 0)
    <3>1. (n + 1 - 0)..n = {}
      BY <1>0
    <3> QED BY <3>1 DEF HeapFrom
  <2> QED BY <1>0, <2>1
<1>6. ASSUME NEW i \in 0..(n - 1), i \in G PROVE i + 1 \in G
  <2>1. i + 1 \in 0..n /\ i + 1 \in 1..n /\ i + 1 # 0 /\ (i + 1) - 1 = i /\ i \in 0..n
    BY <1>0
  <2>2. f[i] \in S /\ HeapFrom(f[i], n + 1 - i)
    BY <1>6, <2>1
  <2>3. next(f[i], i + 1) \in S /\ HeapFrom(next(f[i], i + 1), n + 1 - (i + 1))
    BY <2>2, HeapTurn
  <2> HIDE DEF S, next, n
  <2>4. F[<<f[i], i + 1>>] = next(f[i], i + 1)
    BY <2>1, <2>2, <2>3
  <2> HIDE DEF F
  <2>5. f[i + 1] = next(f[i], i + 1)
    BY <1>4, <2>1, <2>4
  <2> QED BY <2>1, <2>3, <2>5
<1>7. \A i \in 0..n : i \in G
  <2> HIDE DEF G, n
  <2> QED BY <1>0, <1>5, <1>6, Turn
<1>8. Loop(f)
  <2> HIDE DEF S, next, n, F
  <2>1. \A i \in 0..n : f[i] = IF i = 0 THEN base ELSE next(f[i - 1], i)
    BY <1>0, <1>4, <1>7
  <2> QED BY <1>3, <2>1
<1>9. Loop(CHOOSE g : Loop(g))
  <2> HIDE DEF Loop
  <2> QED BY <1>8
<1>10. Heapify(base) = (CHOOSE g : Loop(g))[n]
  BY DEF Heapify
<1> DEFINE s == CHOOSE g : Loop(g)
<1>11. Heapify(base) = s[n] /\ Loop(s)
  BY <1>9, <1>10
<1> HIDE DEF s
<1> WITNESS s
<1> QED BY <1>11 DEF HeapLoop

(* The loop of submit that calls adjust makes a heap of the coins. *)
LEMMA HeapifyHeaps ==
    ASSUME NEW base, base \in Seq(Range(base)), CoinList(base), Len(base) = K
    PROVE  Heapify(base) \in Shuffled(base) /\ HeapFrom(Heapify(base), 1)
<1> DEFINE n == K \div 2
           S == Shuffled(base)
<1>0. K \in Nat /\ n \in Nat /\ 0 \in 0..n /\ n \in 0..n /\ n + 1 - n = 1
  BY HalfIs
<1>1. PICK f : Heapify(base) = f[n] /\ HeapLoop(base, f)
  BY HeapTurns
<1>2. \A i \in 0..n : f[i] = IF i = 0 THEN base ELSE adjust(f[i - 1], K \div 2 + 1 - i)
  BY <1>1 DEF HeapLoop
<1> DEFINE G == {i \in 0..n : f[i] \in S /\ HeapFrom(f[i], n + 1 - i)}
<1>3. 0 \in G
  <2>1. HeapFrom(f[0], n + 1 - 0)
    <3>1. (n + 1 - 0)..n = {}
      BY <1>0
    <3> QED BY <3>1 DEF HeapFrom
  <2>2. f[0] \in S
    BY <1>0, <1>2 DEF Shuffled, SameCoins
  <2> QED BY <1>0, <2>1, <2>2
<1>4. ASSUME NEW i \in 0..(n - 1), i \in G PROVE i + 1 \in G
  <2>1. i + 1 \in 0..n /\ i + 1 # 0 /\ (i + 1) - 1 = i
    BY <1>0
  <2>2. f[i] \in S /\ HeapFrom(f[i], n + 1 - i)
    BY <1>4
  <2>3. f[i + 1] = adjust(f[i], K \div 2 + 1 - (i + 1))
    <3> HIDE DEF n
    <3> QED BY <1>2, <2>1
  <2>4. f[i + 1] \in S /\ HeapFrom(f[i + 1], n + 1 - (i + 1))
    BY <2>2, <2>3, HeapTurn
  <2> QED BY <2>1, <2>4
<1>5. n \in G
  <2> HIDE DEF G, n
  <2>1. \A i \in 0..n : i \in G
    BY <1>0, <1>3, <1>4, Turn
  <2> QED BY <1>0, <2>1
<1> QED BY <1>0, <1>1, <1>5

(***************************************************************************)
(* What submit keeps                                                       *)
(***************************************************************************)
(* The coins R have amounts. *)
Worths(R) == \A x \in R : x.amount \in Nat

(* The states of the selector over the coins R. *)
Selectors(R) ==
    {s \in [base : Seq(R), guard : {<<>>} \cup {<<x>> : x \in R}] :
        Len(s.base) <= K /\ (Len(s.base) = K => HeapFrom(s.base, 1))}

(* The four outcomes of submit. *)
Aside(s, item, W, new) ==
    item.amount > W /\ new.base = s.base /\ (new.guard = <<item>> \/ (new.guard = s.guard /\ s.guard # <<>>))
Added(s, item, W, new) ==
    /\ item.amount <= W /\ new.guard = s.guard /\ Len(new.base) = Len(s.base) + 1
    /\ Range(new.base) = Range(s.base) \cup {item}
    /\ Once(s.base) /\ item \notin Range(s.base) => Once(new.base)
Replaced(s, item, W, new) ==
    /\ item.amount <= W /\ new.guard = s.guard /\ Len(s.base) = K /\ Len(new.base) = K
    /\ item.amount > s.base[1].amount
    /\ Range(new.base) \subseteq Range(s.base) \cup {item} /\ item \in Range(new.base)
    /\ \A x \in Range(s.base) : x # s.base[1] => x \in Range(new.base)
    /\ Once(s.base) /\ item \notin Range(s.base) => Once(new.base)
TooSmall(s, item, W, new) ==
    item.amount <= W /\ Len(s.base) = K /\ item.amount <= s.base[1].amount /\ new = s

(* A sequence of coins has their amounts. *)
LEMMA SeqCoins ==
    ASSUME NEW R, Worths(R), NEW b \in Seq(R)
    PROVE  /\ CoinList(b) /\ Range(b) = {b[k] : k \in 1..Len(b)} /\ Range(b) \subseteq R
           /\ Len(b) \in Nat /\ DOMAIN b = 1..Len(b) /\ b \in [1..Len(b) -> R]
<1>1. Len(b) \in Nat /\ DOMAIN b = 1..Len(b) /\ \A k \in 1..Len(b) : b[k] \in R
  OBVIOUS
<1>2. CoinList(b)
  BY <1>1 DEF CoinList, Worths
<1> QED BY <1>1, <1>2 DEF Range

(* A shuffled base is a base. *)
LEMMA ShuffledIn ==
    ASSUME NEW R, Worths(R), NEW b \in Seq(R), Len(b) = K, NEW t \in Shuffled(b)
    PROVE  t \in Seq(R) /\ Len(t) = K /\ Range(t) = Range(b) /\ (Once(b) => Once(t))
<1>1. Range(b) \subseteq R /\ K \in Nat
  BY SeqCoins, HalfIs
<1>2. t \in [1..K -> Range(b)] /\ SameCoins(t, b)
  BY DEF Shuffled
<1>3. t \in [1..K -> R]
  BY <1>1, <1>2
<1>4. t \in Seq(R) /\ Len(t) = K
  BY <1>1, <1>3, FcnSeq
<1> QED BY <1>2, <1>4 DEF SameCoins

(* A sequence is one of its own elements. *)
LEMMA SelfSeq ==
    ASSUME NEW R, NEW b \in Seq(R)
    PROVE  b \in Seq(Range(b))
<1>1. Len(b) \in Nat /\ b \in [1..Len(b) -> R] /\ DOMAIN b = 1..Len(b)
  OBVIOUS
<1>2. b \in [1..Len(b) -> Range(b)]
  BY <1>1 DEF Range
<1> DEFINE T == Range(b)
<1> HIDE DEF T
<1>3. b \in [1..Len(b) -> T]
  BY <1>2 DEF T
<1>4. b \in Seq(T)
  BY <1>1, <1>3, FcnSeq
<1> QED BY <1>4 DEF T

(* What an appended coin changes. *)
LEMMA AppendIs ==
    ASSUME NEW R, NEW b \in Seq(R), NEW x \in R
    PROVE  /\ Append(b, x) \in Seq(R) /\ Len(Append(b, x)) = Len(b) + 1
           /\ Range(Append(b, x)) = Range(b) \cup {x}
           /\ Once(b) /\ x \notin Range(b) => Once(Append(b, x))
<1> DEFINE n == Len(b)
           t == Append(b, x)
<1>1. n \in Nat /\ t \in Seq(R) /\ Len(t) = n + 1 /\ DOMAIN b = 1..n /\ DOMAIN t = 1..(n + 1)
  OBVIOUS
<1>2. t[n + 1] = x /\ \A k \in 1..n : t[k] = b[k]
  OBVIOUS
<1>3. \A k \in 1..(n + 1) : k \in 1..n \/ k = n + 1
  BY <1>1
<1>4. 1..n \subseteq 1..(n + 1) /\ n + 1 \in 1..(n + 1)
  BY <1>1
<1> HIDE DEF t, n
<1>5. Range(t) = Range(b) \cup {x}
  <2>1. ASSUME NEW y \in Range(t) PROVE y \in Range(b) \cup {x}
    BY <1>1, <1>2, <1>3 DEF Range
  <2>2. ASSUME NEW y \in Range(b) PROVE y \in Range(t)
    BY <1>1, <1>2, <1>4 DEF Range
  <2>3. x \in Range(t)
    BY <1>1, <1>2, <1>4 DEF Range
  <2> QED BY <2>1, <2>2, <2>3
<1>6. ASSUME Once(b), x \notin Range(b) PROVE Once(t)
  <2>1. \A k \in 1..n : b[k] # x
    BY <1>1, <1>6 DEF Range
  <2>2. \A k, l \in 1..n : b[k] = b[l] => k = l
    BY <1>6 DEF Once, n
  <2> SUFFICES ASSUME NEW k \in 1..(n + 1), NEW l \in 1..(n + 1), t[k] = t[l] PROVE k = l
    BY <1>1 DEF Once
  <2> QED BY <1>2, <1>3, <2>1, <2>2
<1> QED BY <1>1, <1>5, <1>6 DEF t, n

(* base[0] = item: a heap but for its top. *)
LEMMA ReplaceTop ==
    ASSUME NEW R, Worths(R), NEW b \in Seq(R), Len(b) = K, HeapFrom(b, 1), NEW x \in R
    PROVE  LET t == [b EXCEPT ![1] = x]
           IN  /\ t \in Seq(R) /\ Len(t) = K /\ HeapFrom(t, 1 + 1) /\ CoinList(t)
               /\ Range(t) \subseteq Range(b) \cup {x} /\ x \in Range(t)
               /\ \A y \in Range(b) : y # b[1] => y \in Range(t)
               /\ Once(b) /\ x \notin Range(b) => Once(t)
<1> DEFINE t == [b EXCEPT ![1] = x]
<1>0. K \in Nat /\ K > 0 /\ 1 \in 1..K /\ K \div 2 \in Nat /\ \A p \in Nat : p <= K \div 2 <=> 2 * p <= K
  BY HalfIs
<1>1. b \in [1..K -> R] /\ DOMAIN b = 1..K
  OBVIOUS
<1>2. t \in [1..K -> R] /\ t[1] = x /\ \A k \in 1..K : k # 1 => t[k] = b[k]
  BY <1>0, <1>1
<1> HIDE DEF t
<1>3. t \in Seq(R) /\ Len(t) = K
  BY <1>0, <1>2, FcnSeq
<1>4. CoinList(t) /\ DOMAIN t = 1..K
  BY <1>3, SeqCoins
<1>5. HeapFrom(t, 1 + 1)
  <2> SUFFICES ASSUME NEW p \in 2..(K \div 2) PROVE NoSmallerChild(t, p, t[p].amount)
    BY DEF HeapFrom
  <2>1. p \in 1..(K \div 2) /\ p \in 1..K /\ p # 1 /\ 2 * p \in 1..K /\ 2 * p # 1 /\ 2 * p + 1 # 1
    BY <1>0
  <2>2. NoSmallerChild(b, p, b[p].amount)
    BY <2>1 DEF HeapFrom
  <2>3. t[p] = b[p] /\ t[2 * p] = b[2 * p]
    BY <1>2, <2>1
  <2>4. 2 * p + 1 <= K => t[2 * p + 1] = b[2 * p + 1]
    <3> SUFFICES ASSUME 2 * p + 1 <= K PROVE 2 * p + 1 \in 1..K
      BY <1>2, <2>1
    <3> QED BY <1>0, <2>1
  <2> QED BY <2>2, <2>3, <2>4 DEF NoSmallerChild
<1>6. Range(t) \subseteq Range(b) \cup {x}
  BY <1>1, <1>2, <1>4 DEF Range
<1>7. x \in Range(t)
  BY <1>0, <1>2, <1>4 DEF Range
<1>8. \A y \in Range(b) : y # b[1] => y \in Range(t)
  BY <1>1, <1>2, <1>4 DEF Range
<1>9. ASSUME Once(b), x \notin Range(b) PROVE Once(t)
  <2>1. \A k \in 1..K : b[k] # x
    BY <1>1, <1>9 DEF Range
  <2>2. \A k, l \in 1..K : b[k] = b[l] => k = l
    BY <1>9 DEF Once
  <2> SUFFICES ASSUME NEW k \in 1..K, NEW l \in 1..K, t[k] = t[l] PROVE k = l
    BY <1>3 DEF Once
  <2> QED BY <1>2, <2>1, <2>2
<1> QED BY <1>3, <1>4, <1>5, <1>6, <1>7, <1>8, <1>9 DEF t

(* submit has one of its four outcomes and leaves a selector. *)
LEMMA SubmitIs ==
    ASSUME NEW R, Worths(R), NEW s \in Selectors(R), NEW item \in R, NEW W \in Nat
    PROVE  LET new == submit(s, item, W)
           IN  /\ new \in Selectors(R)
               /\ \/ Aside(s, item, W, new) \/ Added(s, item, W, new)
                  \/ Replaced(s, item, W, new) \/ TooSmall(s, item, W, new)
<1> DEFINE new == submit(s, item, W)
           b == s.base
<1>0. K \in Nat /\ K > 0 /\ 1 \in 1..K
  BY HalfIs
<1>1. /\ b \in Seq(R) /\ s.guard \in {<<>>} \cup {<<x>> : x \in R} /\ Len(b) <= K
      /\ (Len(b) = K => HeapFrom(b, 1)) /\ s = [base |-> b, guard |-> s.guard]
  BY DEF Selectors
<1>2. Len(b) \in Nat /\ item.amount \in Nat /\ CoinList(b)
  BY <1>1, SeqCoins DEF Worths
<1>3. \A t \in Seq(R) : Len(t) <= K /\ (Len(t) = K => HeapFrom(t, 1)) => [s EXCEPT !.base = t] \in Selectors(R)
  <2> HIDE DEF b
  <2> QED BY <1>1 DEF Selectors
<1>4. \A t : [s EXCEPT !.base = t].base = t /\ [s EXCEPT !.base = t].guard = s.guard
  <2> HIDE DEF b
  <2> QED BY <1>1
<1>5. CASE item.amount > W
  <2>1. new = [s EXCEPT !.guard = <<item>>] \/ (new = s /\ s.guard # <<>>)
    BY <1>5 DEF submit
  <2>2. [s EXCEPT !.guard = <<item>>] \in Selectors(R) /\ [s EXCEPT !.guard = <<item>>].base = b
        /\ [s EXCEPT !.guard = <<item>>].guard = <<item>>
    <3> HIDE DEF b
    <3> QED BY <1>1 DEF Selectors
  <2> HIDE DEF new
  <2>3. new \in Selectors(R) /\ Aside(s, item, W, new)
    <3>1. CASE new = [s EXCEPT !.guard = <<item>>]
      <4>1. new \in Selectors(R) /\ new.base = b /\ new.guard = <<item>>
        BY <2>2, <3>1
      <4>2. new.base = s.base /\ item.amount > W
        BY <1>5, <4>1
      <4> QED BY ONLY <4>1, <4>2 DEF Aside
    <3>2. CASE new = s /\ s.guard # <<>>
      <4> QED BY <1>5, <3>2 DEF Aside
    <3> QED BY <2>1, <3>1, <3>2
  <2> QED BY <2>3 DEF new
<1>6. CASE ~(item.amount > W) /\ Len(b) < K
  <2> DEFINE a == Append(b, item)
             t == IF Len(a) = K THEN Heapify(a) ELSE a
  <2>1. new = [s EXCEPT !.base = t]
    BY <1>6 DEF submit
  <2>2. /\ a \in Seq(R) /\ Len(a) = Len(b) + 1
        /\ Range(a) = Range(b) \cup {item}
        /\ Once(b) /\ item \notin Range(b) => Once(a)
    <3> HIDE DEF b
    <3> QED BY <1>1, AppendIs
  <2> HIDE DEF a
  <2>3. /\ t \in Seq(R) /\ Len(t) = Len(a) /\ Range(t) = Range(a) /\ (Once(a) => Once(t))
        /\ (Len(t) = K => HeapFrom(t, 1))
    <3>1. CASE Len(a) = K
      <4>1. CoinList(a) /\ a \in Seq(Range(a))
        BY <2>2, SeqCoins, SelfSeq
      <4>2. Heapify(a) \in Shuffled(a) /\ HeapFrom(Heapify(a), 1)
        BY <3>1, <4>1, HeapifyHeaps
      <4>3. Heapify(a) \in Seq(R) /\ Len(Heapify(a)) = K /\ Range(Heapify(a)) = Range(a) /\ (Once(a) => Once(Heapify(a)))
        BY <2>2, <3>1, <4>2, ShuffledIn
      <4> QED BY <3>1, <4>2, <4>3
    <3>2. CASE Len(a) # K
      BY <2>2, <3>2
    <3> QED BY <3>1, <3>2
  <2> HIDE DEF t, new
  <2>4. Len(t) <= K
    BY <1>0, <1>2, <1>6, <2>2, <2>3
  <2>5. new \in Selectors(R)
    BY <1>3, <2>1, <2>3, <2>4
  <2>6. new.base = t /\ new.guard = s.guard
    BY <1>4, <2>1
  <2>7. item.amount <= W
    BY <1>2, <1>6
  <2>8. Added(s, item, W, new)
    BY <2>2, <2>3, <2>6, <2>7 DEF Added
  <2> QED BY <2>5, <2>8 DEF new
<1>7. CASE ~(item.amount > W) /\ ~(Len(b) < K) /\ item.amount > b[1].amount
  <2> DEFINE a == [b EXCEPT ![1] = item]
             t == adjust(a, 1)
  <2>0. Len(b) = K
    BY <1>0, <1>1, <1>2, <1>7
  <2>1. new = [s EXCEPT !.base = t]
    BY <1>7 DEF submit
  <2>2. /\ a \in Seq(R) /\ Len(a) = K /\ HeapFrom(a, 1 + 1) /\ CoinList(a)
        /\ Range(a) \subseteq Range(b) \cup {item} /\ item \in Range(a)
        /\ \A y \in Range(b) : y # b[1] => y \in Range(a)
        /\ Once(b) /\ item \notin Range(b) => Once(a)
    <3> HIDE DEF b
    <3> QED BY <1>1, <2>0, ReplaceTop
  <2> HIDE DEF a
  <2>3. a \in Seq(Range(a))
    BY <2>2, SelfSeq
  <2>4. SameCoins(t, a) /\ HeapFrom(t, 1) /\ t \in [1..K -> Range(a)]
    BY <1>0, <2>2, <2>3, AdjustHeaps
  <2>5. t \in Shuffled(a)
    BY <2>4 DEF Shuffled
  <2>6. t \in Seq(R) /\ Len(t) = K /\ Range(t) = Range(a) /\ (Once(a) => Once(t))
    <3> HIDE DEF t
    <3> QED BY <2>2, <2>5, ShuffledIn
  <2> HIDE DEF t, new
  <2>7. new \in Selectors(R)
    <3>1. Len(t) <= K
      BY <1>0, <2>6
    <3> QED BY <1>3, <2>1, <2>4, <2>6, <3>1
  <2>8. new.base = t /\ new.guard = s.guard
    BY <1>4, <2>1
  <2>9. item.amount <= W
    BY <1>2, <1>7
  <2>10. Replaced(s, item, W, new)
    BY <1>7, <2>0, <2>2, <2>6, <2>8, <2>9 DEF Replaced
  <2> QED BY <2>7, <2>10 DEF new
<1>8. CASE ~(item.amount > W) /\ ~(Len(b) < K) /\ ~(item.amount > b[1].amount)
  <2>1. new = s
    BY <1>8 DEF submit
  <2>2. Len(b) = K
    BY <1>0, <1>1, <1>2, <1>8
  <2>3. b[1].amount \in Nat
    BY <1>0, <1>2, <2>2 DEF CoinList
  <2>4. item.amount <= b[1].amount /\ item.amount <= W
    <3>1. \A x, y \in Nat : ~(x > y) => x <= y
      OBVIOUS
    <3> QED BY <1>2, <1>8, <2>3, <3>1
  <2> QED BY <2>1, <2>2, <2>4 DEF TooSmall
<1> QED BY <1>5, <1>6, <1>7, <1>8

(***************************************************************************)
(* What the selector holds after coins 1 to i                              *)
(***************************************************************************)
(* No coin of the base is smaller than x. *)
Least(base, x) == \A y \in Range(base) : x.amount <= y.amount

(* What the selector holds after the first i coins: no coin twice, only     *)
(* coins that do not exceed the amount, and no coin less than a dropped    *)
(* one; the guard is one of those that exceed it, if there is one.         *)
Kept(R, c, W, i, s) ==
    /\ s \in Selectors(R) /\ Once(s.base)
    /\ \A x \in Range(s.base) : \E j \in 1..i : x = c[j] /\ x.amount <= W
    /\ \A j \in 1..i : c[j].amount <= W =>
          c[j] \in Range(s.base) \/ (Len(s.base) = K /\ Least(s.base, c[j]))
    /\ \/ s.guard = <<>> /\ \A j \in 1..i : c[j].amount <= W
       \/ \E j \in 1..i : s.guard = <<c[j]>> /\ c[j].amount > W

(* One submit keeps what the selector is to hold. *)
LEMMA KeptTurn ==
    ASSUME NEW R, Worths(R), NEW c \in Seq(R), Once(c), NEW W \in Nat,
           NEW i \in 0..(Len(c) - 1), NEW s, Kept(R, c, W, i, s)
    PROVE  Kept(R, c, W, i + 1, submit(s, c[i + 1], W))
<1> DEFINE item == c[i + 1]
           new == submit(s, item, W)
<1>1. /\ i + 1 \in 1..Len(c) /\ i \in Nat /\ i + 1 \in 1..(i + 1) /\ 1..i \subseteq 1..(i + 1)
      /\ \A j \in 1..(i + 1) : j \in 1..i \/ j = i + 1
      /\ \A j \in 1..i : j \in 1..Len(c) /\ j # i + 1
  OBVIOUS
<1>2. item \in R /\ item.amount \in Nat /\ s \in Selectors(R)
  BY <1>1 DEF Worths, Kept
<1> HIDE DEF item, new
<1>3. /\ new \in Selectors(R)
      /\ \/ Aside(s, item, W, new) \/ Added(s, item, W, new)
         \/ Replaced(s, item, W, new) \/ TooSmall(s, item, W, new)
  BY <1>2, SubmitIs DEF new
<1>4. /\ Once(s.base)
      /\ \A x \in Range(s.base) : \E j \in 1..i : x = c[j] /\ x.amount <= W
      /\ \A j \in 1..i : c[j].amount <= W =>
            c[j] \in Range(s.base) \/ (Len(s.base) = K /\ Least(s.base, c[j]))
      /\ \/ s.guard = <<>> /\ \A j \in 1..i : c[j].amount <= W
         \/ \E j \in 1..i : s.guard = <<c[j]>> /\ c[j].amount > W
  BY DEF Kept
<1>5. item \notin Range(s.base)
  BY <1>1, <1>4 DEF Once, item
<1>6. /\ s.base \in Seq(R) /\ CoinList(s.base) /\ Range(s.base) \subseteq R
      /\ Len(s.base) \in Nat /\ DOMAIN s.base = 1..Len(s.base)
      /\ (Len(s.base) = K => HeapFrom(s.base, 1)) /\ Len(s.base) <= K
  <2>1. s.base \in Seq(R) /\ (Len(s.base) = K => HeapFrom(s.base, 1)) /\ Len(s.base) <= K
    BY <1>2 DEF Selectors
  <2> QED BY <2>1, SeqCoins
<1>7. /\ new.base \in Seq(R) /\ Range(new.base) \subseteq R /\ Len(new.base) \in Nat /\ Len(new.base) <= K
  <2>1. new.base \in Seq(R) /\ Len(new.base) <= K
    BY <1>3 DEF Selectors
  <2> QED BY <2>1, SeqCoins
<1>8. K \in Nat /\ K > 0 /\ 1 \in 1..K
  BY HalfIs
<1>9. ASSUME Len(s.base) = K
      PROVE  s.base[1] \in Range(s.base) /\ Least(s.base, s.base[1])
  <2>1. \A j \in 1..K : s.base[1].amount <= s.base[j].amount
    BY <1>6, <1>9, TopSmallest
  <2> QED BY <1>6, <1>8, <1>9, <2>1 DEF Least, Range
<1>10. \A x \in R : x.amount \in Nat
  BY DEF Worths
<1>11. \A j \in 1..i : c[j] \in R /\ c[j].amount \in Nat
  BY <1>1, <1>10
<1>12. \A j \in 1..(i + 1) : (j \in 1..i) \/ c[j] = item
  BY <1>1 DEF item
<1>13. c[i + 1] = item
  BY DEF item
<1>14. CASE Aside(s, item, W, new)
  <2>1. /\ new.base = s.base /\ item.amount > W
        /\ (new.guard = <<item>> \/ (new.guard = s.guard /\ s.guard # <<>>))
    BY <1>14 DEF Aside
  <2>2. \A j \in 1..(i + 1) : c[j].amount <= W =>
            c[j] \in Range(new.base) \/ (Len(new.base) = K /\ Least(new.base, c[j]))
    <3>1. ~(item.amount <= W)
      BY <1>2, <2>1
    <3> QED BY <1>4, <1>12, <2>1, <3>1
  <2>3. \E j \in 1..(i + 1) : new.guard = <<c[j]>> /\ c[j].amount > W
    BY <1>1, <1>4, <1>13, <2>1
  <2>4. Once(new.base) /\ \A x \in Range(new.base) : \E j \in 1..(i + 1) : x = c[j] /\ x.amount <= W
    BY <1>1, <1>4, <2>1
  <2> QED BY <1>3, <2>2, <2>3, <2>4 DEF Kept, new, item
<1>15. ASSUME new.guard = s.guard, item.amount <= W
       PROVE  \/ new.guard = <<>> /\ \A j \in 1..(i + 1) : c[j].amount <= W
              \/ \E j \in 1..(i + 1) : new.guard = <<c[j]>> /\ c[j].amount > W
  <2>1. CASE s.guard = <<>> /\ \A j \in 1..i : c[j].amount <= W
    BY <1>12, <1>15, <2>1
  <2>2. CASE \E j \in 1..i : s.guard = <<c[j]>> /\ c[j].amount > W
    BY <1>1, <1>15, <2>2
  <2> QED BY <1>4, <2>1, <2>2
<1>16. CASE Added(s, item, W, new)
  <2>1. /\ item.amount <= W /\ new.guard = s.guard /\ Len(new.base) = Len(s.base) + 1
        /\ Range(new.base) = Range(s.base) \cup {item} /\ Once(new.base)
    BY <1>4, <1>5, <1>16 DEF Added
  <2>2. Len(s.base) # K
    BY <1>6, <1>7, <1>8, <2>1
  <2>3. \A j \in 1..(i + 1) : c[j].amount <= W => c[j] \in Range(new.base)
    BY <1>4, <1>12, <2>1, <2>2
  <2>4. \A x \in Range(new.base) : \E j \in 1..(i + 1) : x = c[j] /\ x.amount <= W
    BY <1>1, <1>4, <1>13, <2>1
  <2> QED BY <1>3, <1>15, <2>1, <2>3, <2>4 DEF Kept, new, item
<1>17. CASE Replaced(s, item, W, new)
  <2>1. /\ item.amount <= W /\ new.guard = s.guard /\ Len(s.base) = K /\ Len(new.base) = K
        /\ item.amount > s.base[1].amount
        /\ Range(new.base) \subseteq Range(s.base) \cup {item} /\ item \in Range(new.base)
        /\ \A x \in Range(s.base) : x # s.base[1] => x \in Range(new.base)
        /\ Once(new.base)
    BY <1>4, <1>5, <1>17 DEF Replaced
  <2>2. \A x \in Range(new.base) : \E j \in 1..(i + 1) : x = c[j] /\ x.amount <= W
    BY <1>1, <1>4, <1>13, <2>1
  <2>3. \A x \in R : Least(s.base, x) => Least(new.base, x)
    <3> SUFFICES ASSUME NEW x \in R, Least(s.base, x), NEW y \in Range(new.base) PROVE x.amount <= y.amount
      BY DEF Least
    <3>1. CASE y \in Range(s.base)
      BY <3>1 DEF Least
    <3>2. CASE y = item
      <4> DEFINE t == s.base[1]
      <4>1. t \in R /\ x.amount <= t.amount
        BY <1>6, <1>9, <2>1 DEF Least
      <4>2. item.amount > t.amount
        BY <2>1
      <4> HIDE DEF t
      <4>3. \A a, b, d \in Nat : a <= b /\ d > b => a <= d
        OBVIOUS
      <4>4. x.amount \in Nat /\ t.amount \in Nat
        BY <1>10, <4>1
      <4> QED BY <1>2, <3>2, <4>1, <4>2, <4>3, <4>4
    <3> QED BY <2>1, <3>1, <3>2
  <2>4. Least(new.base, s.base[1])
    BY <1>6, <1>9, <2>1, <2>3
  <2>5. ASSUME NEW j \in 1..(i + 1), c[j].amount <= W
        PROVE  c[j] \in Range(new.base) \/ (Len(new.base) = K /\ Least(new.base, c[j]))
    <3>1. CASE j \in 1..i
      BY <1>4, <1>11, <2>1, <2>3, <2>4, <2>5, <3>1
    <3>2. CASE c[j] = item
      BY <2>1, <3>2
    <3> QED BY <1>12, <3>1, <3>2
  <2> QED BY <1>3, <1>15, <2>1, <2>2, <2>5 DEF Kept, new, item
<1>18. CASE TooSmall(s, item, W, new)
  <2>1. item.amount <= W /\ Len(s.base) = K /\ item.amount <= s.base[1].amount /\ new = s
    BY <1>18 DEF TooSmall
  <2>2. Least(s.base, item)
    <3> SUFFICES ASSUME NEW y \in Range(s.base) PROVE item.amount <= y.amount
      BY DEF Least
    <3> DEFINE t == s.base[1]
    <3>1. t \in R /\ t.amount <= y.amount /\ y \in R
      BY <1>6, <1>9, <2>1 DEF Least
    <3>2. item.amount <= t.amount
      BY <2>1
    <3> HIDE DEF t
    <3>3. \A a, b, d \in Nat : a <= b /\ b <= d => a <= d
      OBVIOUS
    <3>4. y.amount \in Nat /\ t.amount \in Nat
      BY <1>10, <3>1
    <3> QED BY <1>2, <3>1, <3>2, <3>3, <3>4
  <2>3. ASSUME NEW j \in 1..(i + 1), c[j].amount <= W
        PROVE  c[j] \in Range(new.base) \/ (Len(new.base) = K /\ Least(new.base, c[j]))
    BY <1>4, <1>12, <2>1, <2>2, <2>3
  <2>4. \A x \in Range(new.base) : \E j \in 1..(i + 1) : x = c[j] /\ x.amount <= W
    BY <1>1, <1>4, <2>1
  <2> QED BY <1>3, <1>4, <1>15, <2>1, <2>3, <2>4 DEF Kept, new, item
<1> QED BY <1>3, <1>14, <1>16, <1>17, <1>18

(* After all coins the selector holds what it is to hold. *)
LEMMA ItemsKeep ==
    ASSUME NEW R, Worths(R), NEW c \in Seq(R), Once(c), NEW W \in Nat
    PROVE  \E s : Items(c, W) = s.base \o s.guard /\ Kept(R, c, W, Len(c), s)
<1> DEFINE n == Len(c)
           S == Selectors(R)
           a == [base |-> <<>>, guard |-> <<>>]
           F == [p \in S \X (1..n) |-> submit(p[1], c[p[2]], W)]
           Loop(f) == f = [i \in 0..n |-> IF i = 0 THEN a ELSE submit(f[i - 1], c[i], W)]
<1>1. n \in Nat /\ 0 \in 0..n /\ n \in 0..n /\ \A i \in 1..n : c[i] \in R
  OBVIOUS
<1>2. a \in S
  <2>1. <<>> \in Seq(R) /\ Len(<<>>) = 0 /\ K \in Nat /\ K > 0
    BY HalfIs
  <2>2. 0 <= K /\ 0 # K
    BY <2>1
  <2> QED BY <2>1, <2>2 DEF Selectors
<1>3. \A s \in S, x \in R : submit(s, x, W) \in S
  BY SubmitIs
<1>4. F \in [S \X (1..n) -> S]
  <2> HIDE DEF S, n
  <2> QED BY <1>1, <1>3
<1>5. PICK f \in [0..n -> S] : Unrolls(f, n, a, F)
  <2> HIDE DEF S, n, F, a
  <2> QED BY <1>1, <1>2, <1>4, TurnsExist
<1>6. Loop(f)
  <2>1. ASSUME NEW i \in 0..n, i # 0 PROVE F[<<f[i - 1], i>>] = submit(f[i - 1], c[i], W)
    <3>1. i - 1 \in 0..n /\ i \in 1..n
      BY <1>1, <2>1
    <3>2. f[i - 1] \in S
      BY <3>1
    <3> HIDE DEF n, S
    <3> QED BY <3>1, <3>2
  <2> HIDE DEF F, n, S, a
  <2>2. \A i \in 0..n : f[i] = IF i = 0 THEN a ELSE submit(f[i - 1], c[i], W)
    BY <1>5, <2>1 DEF Unrolls
  <2> QED BY <1>5, <2>2 DEF Unrolls
<1>7. Loop(CHOOSE g : Loop(g))
  <2> HIDE DEF Loop
  <2> QED BY <1>6
<1>8. Items(c, W) = (CHOOSE g : Loop(g))[n].base \o (CHOOSE g : Loop(g))[n].guard
  BY DEF Items
<1> DEFINE s == CHOOSE g : Loop(g)
<1>9. Items(c, W) = s[n].base \o s[n].guard /\ Loop(s)
  BY <1>7, <1>8
<1> HIDE DEF s, Loop
<1>10. \A i \in 0..n : s[i] = IF i = 0 THEN a ELSE submit(s[i - 1], c[i], W)
  BY <1>9 DEF Loop
<1> DEFINE G == {i \in 0..n : Kept(R, c, W, i, s[i])}
<1>11. 0 \in G
  <2>1. s[0] = a
    BY <1>1, <1>10
  <2>2. a.base = <<>> /\ a.guard = <<>> /\ 1..0 = {} /\ Range(<<>>) = {} /\ Once(<<>>)
    BY DEF Range, Once
  <2> HIDE DEF a
  <2>3. Kept(R, c, W, 0, a)
    BY <1>2, <2>2 DEF Kept
  <2> QED BY <1>1, <2>1, <2>3
<1>12. ASSUME NEW i \in 0..(n - 1), i \in G PROVE i + 1 \in G
  <2>1. i + 1 \in 0..n /\ i + 1 # 0 /\ (i + 1) - 1 = i
    BY <1>1
  <2>2. s[i + 1] = submit(s[i], c[i + 1], W)
    <3> HIDE DEF n, a
    <3> QED BY <1>10, <2>1
  <2>3. Kept(R, c, W, i, s[i])
    BY <1>12
  <2>4. Kept(R, c, W, i + 1, s[i + 1])
    BY <2>2, <2>3, KeptTurn
  <2> QED BY <2>1, <2>4
<1>13. n \in G
  <2> HIDE DEF G, n
  <2>1. \A i \in 0..n : i \in G
    BY <1>1, <1>11, <1>12, Turn
  <2> QED BY <1>1, <2>1
<1> QED BY <1>9, <1>13

(* Some coin of the list covers the amount alone and more. *)
HasLarge(u, W) == \E k \in 1..Len(u) : u[k].amount > W

(* What the greedy pass is handed: coins of the wallet, one too many at     *)
(* most, and unless one of them is large enough alone, the K largest.      *)
LEMMA ItemsAre ==
    ASSUME NEW R, Worths(R), NEW c \in Seq(R), Once(c), NEW W \in Nat
    PROVE  LET u == Items(c, W)
           IN  /\ u \in Seq(R) /\ Once(u) /\ Range(u) \subseteq Range(c)
               /\ Len(u) <= K \/ (Len(u) = K + 1 /\ HasLarge(u, W))
               /\ HasLarge(u, W) \/ \A x \in Range(c) : x \in Range(u) \/ (Len(u) = K /\ Least(u, x))
<1> DEFINE u == Items(c, W)
<1>1. PICK s : u = s.base \o s.guard /\ Kept(R, c, W, Len(c), s)
  BY ItemsKeep
<1> DEFINE b == s.base
           n == Len(c)
<1>2. /\ b \in Seq(R) /\ Once(b) /\ Len(b) <= K
      /\ \A x \in Range(b) : \E j \in 1..n : x = c[j] /\ x.amount <= W
      /\ \A j \in 1..n : c[j].amount <= W => c[j] \in Range(b) \/ (Len(b) = K /\ Least(b, c[j]))
      /\ \/ s.guard = <<>> /\ \A j \in 1..n : c[j].amount <= W
         \/ \E j \in 1..n : s.guard = <<c[j]>> /\ c[j].amount > W
  BY <1>1 DEF Kept, Selectors
<1> HIDE DEF b
<1>3. u = b \o s.guard /\ n \in Nat /\ Range(c) = {c[k] : k \in 1..n} /\ Range(b) = {b[k] : k \in 1..Len(b)}
      /\ \A k \in 1..n : c[k] \in R /\ c[k].amount \in Nat
  <2>1. u = b \o s.guard
    BY <1>1 DEF b
  <2>2. Range(b) = {b[k] : k \in 1..Len(b)}
    BY <1>2, SeqCoins
  <2>3. n \in Nat /\ Range(c) = {c[k] : k \in 1..n}
    BY SeqCoins
  <2> QED BY <2>1, <2>2, <2>3 DEF Worths
<1>4. K \in Nat /\ K > 0 /\ Len(b) \in Nat
  BY <1>2, HalfIs
<1> HIDE DEF b, u, n
<1>5. CASE s.guard = <<>> /\ \A j \in 1..n : c[j].amount <= W
  <2>1. u = b
    BY <1>2, <1>3, <1>5
  <2>2. Range(u) \subseteq Range(c) /\ \A x \in Range(c) : x \in Range(u) \/ (Len(u) = K /\ Least(u, x))
    BY <1>2, <1>3, <1>5, <2>1
  <2> QED BY <1>2, <2>1, <2>2 DEF u
<1>6. CASE \E j \in 1..n : s.guard = <<c[j]>> /\ c[j].amount > W
  <2>1. PICK j \in 1..n : s.guard = <<c[j]>> /\ c[j].amount > W
    BY <1>6
  <2> DEFINE x == c[j]
  <2>2. x \in R /\ x.amount \in Nat /\ x.amount > W /\ x \in Range(c) /\ s.guard = <<x>>
    BY <1>3, <2>1
  <2> HIDE DEF x
  <2>3. u = Append(b, x)
    BY <1>2, <1>3, <2>2
  <2>4. x \notin Range(b)
    <3> SUFFICES ASSUME x \in Range(b) PROVE FALSE
      OBVIOUS
    <3>1. x.amount <= W
      BY <1>2
    <3> QED BY <2>2, <3>1
  <2>5. u \in Seq(R) /\ Len(u) = Len(b) + 1 /\ Range(u) = Range(b) \cup {x} /\ Once(u)
    BY <1>2, <2>2, <2>3, <2>4, AppendIs
  <2>6. HasLarge(u, W)
    <3>1. Len(u) \in 1..Len(u) /\ u[Len(u)] = x
      BY <1>2, <1>4, <2>2, <2>3, <2>5
    <3> QED BY <2>2, <3>1 DEF HasLarge
  <2>7. Len(u) <= K \/ Len(u) = K + 1
    BY <1>2, <1>4, <2>5
  <2>8. Range(u) \subseteq Range(c)
    BY <1>2, <1>3, <2>2, <2>5
  <2> QED BY <2>5, <2>6, <2>7, <2>8 DEF u
<1> QED BY <1>2, <1>5, <1>6

(* 1..n has n elements. *)
LEMMA UpTo ==
    ASSUME NEW n \in Nat
    PROVE  IsFiniteSet(1..n) /\ Cardinality(1..n) = n
<1>1. IsFiniteSet(1..n) /\ Cardinality(1..n) = IF 1 > n THEN 0 ELSE n - 1 + 1
  BY FS_Interval
<1> DEFINE z == Cardinality(1..n)
<1>2. z = IF 1 > n THEN 0 ELSE n - 1 + 1
  BY <1>1
<1> HIDE DEF z
<1>3. z = n
  BY <1>2
<1> QED BY <1>1, <1>3 DEF z

(* The places in c of the coins X. *)
Where(c, X) == {i \in 1..Len(c) : c[i] \in X}

(* A list of some of the coins of c is worth what those coins of c are. *)
LEMMA SubList ==
    ASSUME NEW R, Worths(R), NEW c \in Seq(R), Once(c), NEW x \in Seq(R), Once(x), Range(x) \subseteq Range(c)
    PROVE  /\ Total(x) = SumOf(c, Where(c, Range(x)))
           /\ Where(c, Range(x)) \in SUBSET (1..Len(c)) /\ IsFiniteSet(Where(c, Range(x)))
           /\ Cardinality(Where(c, Range(x))) = Len(x)
<1> DEFINE m == Len(x)
           n == Len(c)
           p == [k \in 1..m |-> CHOOSE i \in 1..n : c[i] = x[k]]
           S == 1..m
           T == Where(c, Range(x))
<1>1. m \in Nat /\ n \in Nat /\ CoinList(c) /\ CoinList(x) /\ Range(x) = {x[k] : k \in 1..m} /\ Range(c) = {c[k] : k \in 1..n}
  BY SeqCoins
<1> HIDE DEF m, n
<1>2. \A k \in S : p[k] \in 1..n /\ c[p[k]] = x[k]
  BY <1>1
<1>3. p \in [S -> 1..n]
  BY <1>2
<1> HIDE DEF p
<1>4. \A k, l \in S : p[k] = p[l] => k = l
  BY <1>2 DEF Once, m
<1>5. Image(p, S) = T
  <2>1. ASSUME NEW i \in Image(p, S) PROVE i \in T
    BY <1>1, <1>2 DEF Image, Where, n
  <2>2. ASSUME NEW i \in T PROVE i \in Image(p, S)
    <3>1. PICK k \in S : c[i] = x[k] /\ i \in 1..n
      BY <1>1 DEF Where, n
    <3>2. p[k] = i
      BY <1>2, <3>1 DEF Once, n
    <3> QED BY <3>2 DEF Image
  <2> HIDE DEF T, S
  <2> QED BY <2>1, <2>2
<1>6. SumOf(x, S) = SumOf(c, T)
  <2>1. \A k \in 1..Len(x) : x[k].amount = c[p[k]].amount
    BY <1>2 DEF m
  <2>2. CoinList(c) /\ CoinList(x)
    BY <1>1
  <2>3. /\ p \in [1..Len(x) -> 1..Len(c)]
        /\ \A k, l \in 1..Len(x) : p[k] = p[l] => k = l
        /\ S \subseteq 1..Len(x)
    BY <1>3, <1>4 DEF m, n
  <2>4. SumOf(x, S) = SumOf(c, Image(p, S))
    <3> HIDE DEF S, T, m, n
    <3> QED BY ONLY <2>1, <2>2, <2>3, SumOfImage
  <2> QED BY <1>5, <2>4
<1>7. Total(x) = SumOf(x, S)
  BY <1>1, TotalIs DEF m
<1>8. IsFiniteSet(T) /\ Cardinality(T) = m
  <2>1. IsFiniteSet(S) /\ Cardinality(S) = m
    BY <1>1, UpTo
  <2>2. p \in Bijection(S, T)
    <3> HIDE DEF S
    <3>1. p \in [S -> T] /\ \A t \in T : \E k \in S : p[k] = t
      <4> HIDE DEF T
      <4>1. T = {p[k] : k \in S}
        BY <1>5 DEF Image
      <4> QED BY <1>3, <4>1
    <3> HIDE DEF T
    <3>2. p \in Injection(S, T)
      BY <1>4, <3>1 DEF Injection, IsInjective
    <3>3. p \in Surjection(S, T)
      BY <3>1 DEF Surjection
    <3> QED BY <3>2, <3>3 DEF Bijection
  <2>3. ExistsBijection(S, T)
    BY <2>2 DEF ExistsBijection
  <2> HIDE DEF S, T
  <2> QED BY <2>1, <2>3, FS_Bijection
<1>9. T \in SUBSET (1..Len(c))
  BY DEF Where
<1> QED BY <1>6, <1>7, <1>8, <1>9 DEF m

(***************************************************************************)
(* The greedy pass                                                         *)
(***************************************************************************)
(* Max is the largest of a finite set of numbers. *)
LEMMA MaxIs ==
    ASSUME NEW n \in Nat, NEW S \in SUBSET (0..n), S # {}
    PROVE  Max(S) \in S /\ \A y \in S : Max(S) >= y
<1> DEFINE G == {k \in 0..n : (\E x \in S : x <= k) => \E x \in S : \A y \in S : y <= k => x >= y}
<1>1. 0 \in G
  <2>1. \A x \in S : x <= 0 => x = 0
    OBVIOUS
  <2> QED BY <2>1
<1>2. ASSUME NEW k \in 0..(n - 1), k \in G PROVE k + 1 \in G
  <2>1. \A y \in S : y <= k + 1 => (y <= k \/ y = k + 1)
    OBVIOUS
  <2>2. k + 1 \in 0..n
    OBVIOUS
  <2>3. CASE k + 1 \in S
    <3>1. \A y \in S : y <= k + 1 => k + 1 >= y
      OBVIOUS
    <3> QED BY <2>2, <2>3, <3>1
  <2>4. CASE k + 1 \notin S
    <3>1. \A y \in S : y <= k + 1 => y <= k
      BY <2>1, <2>4
    <3> QED BY <1>2, <2>2, <3>1
  <2> QED BY <2>3, <2>4
<1>3. \A k \in 0..n : k \in G
  <2> HIDE DEF G
  <2> QED BY <1>1, <1>2, Turn
<1>4. n \in G /\ \A x \in S : x <= n
  BY <1>3
<1>5. \E x \in S : \A y \in S : x >= y
  BY <1>4
<1> QED BY <1>5 DEF Max

(* Larger coins come first. *)
Sorted(s) == CoinList(s) /\ \A k, l \in 1..Len(s) : k < l => s[k].amount >= s[l].amount

(* What the pass ends with: the amount and no coin too many, or everything. *)
Closed(s, W, sel) ==
    /\ sel \in SUBSET (1..Len(s))
    /\ SumOf(s, sel) >= W => \A k \in sel : SumOf(s, sel) - s[k].amount < W
    /\ SumOf(s, sel) < W => sel = 1..Len(s)

(* The places before j. *)
Below(S, j) == {k \in S : k < j}

(* The coin at m, the smallest, closes the gap. *)
LEMMA CloseWith ==
    ASSUME NEW s, Sorted(s), NEW W \in Nat, NEW A \in SUBSET (1..Len(s)), NEW m \in 1..Len(s),
           \A k \in A : k < m, SumOf(s, A) < W, SumOf(s, A) + s[m].amount >= W
    PROVE  Closed(s, W, A \cup {m})
<1> DEFINE a == SumOf(s, A)
           v == s[m].amount
           T == A \cup {m}
           t == SumOf(s, T)
<1>1. CoinList(s) /\ \A k \in 1..Len(s) : s[k].amount \in Nat
  BY DEF Sorted, CoinList
<1>2. m \notin A
  OBVIOUS
<1>3. t = a + v
  BY <1>1, <1>2, SumOfAdd
<1>4. a \in Nat /\ v \in Nat
  BY <1>1, SumOfNat
<1>5. a < W /\ a + v >= W
  OBVIOUS
<1> HIDE DEF t, a, v
<1>6. t \in Nat /\ t >= W /\ ~(t < W) /\ t - v < W
  BY <1>3, <1>4, <1>5
<1>7. ASSUME NEW k \in T PROVE t - s[k].amount < W
  <2>1. CASE k = m
    BY <1>6, <2>1 DEF v
  <2>2. CASE k \in A
    <3> DEFINE x == s[k].amount
    <3>1. x \in Nat /\ x >= v
      BY <1>1, <2>2 DEF Sorted, v
    <3> HIDE DEF x
    <3>2. t - x < W
      BY <1>4, <1>6, <3>1
    <3> QED BY <3>2 DEF x
  <2> QED BY <2>1, <2>2
<1>8. T \in SUBSET (1..Len(s))
  OBVIOUS
<1> QED BY <1>6, <1>7, <1>8 DEF Closed, t

(* The states of the greedy pass over n coins. *)
Passes(n) == [opt : Nat, sel : SUBSET (1..n), unsel : SUBSET (1..n), done : BOOLEAN]

(* A coin was left out as it would have exceeded the amount. *)
LeftOut(s, W, sel, j) ==
    SumOf(s, Below(sel, j)) < W /\ SumOf(s, Below(sel, j)) + s[j].amount > W

(* The invariant of the greedy pass after i coins: those selected are too   *)
(* little, and each one left out would have exceeded the amount.           *)
Passed(s, W, i, g) ==
    /\ g \in Passes(Len(s))
    /\ g.done => Closed(s, W, g.sel)
    /\ ~g.done => /\ Len(s) = 0 \/ i < Len(s)
                  /\ g.sel \cup g.unsel = 1..i
                  /\ g.opt = SumOf(s, g.sel) /\ g.opt < W
                  /\ \A j \in g.unsel : LeftOut(s, W, g.sel, j)

(* One coin of the greedy pass keeps its invariant. *)
LEMMA PassTurn ==
    ASSUME NEW s, Sorted(s), NEW W \in Nat, NEW i \in 0..(Len(s) - 1), NEW g, Passed(s, W, i, g)
    PROVE  Passed(s, W, i + 1, OptStep(g, W, s, i + 1))
<1> DEFINE n == Len(s)
           x == i + 1
           v == s[x].amount
           opt == g.opt + v
           new == OptStep(g, W, s, x)
<1>1. CoinList(s) /\ n \in Nat /\ \A k \in 1..n : s[k].amount \in Nat
  BY DEF Sorted, CoinList
<1>2. x \in 1..n /\ x \in Nat /\ i \in Nat
  BY <1>1
<1>3. /\ g \in Passes(n) /\ g.opt \in Nat /\ g.sel \in SUBSET (1..n) /\ g.unsel \in SUBSET (1..n)
      /\ g = [opt |-> g.opt, sel |-> g.sel, unsel |-> g.unsel, done |-> g.done]
  BY DEF Passed, Passes
<1>4. CASE g.done
  <2>1. new = g
    BY <1>4 DEF OptStep
  <2> QED BY <1>3, <1>4, <2>1 DEF Passed
<1>5. CASE ~g.done
  <2>1. /\ g.sel \cup g.unsel = 1..i /\ g.opt = SumOf(s, g.sel) /\ g.opt < W
        /\ \A j \in g.unsel : LeftOut(s, W, g.sel, j)
    BY <1>5 DEF Passed
  <2>2. g.sel \subseteq 1..i /\ g.unsel \subseteq 1..i /\ \A k \in 1..i : k < x /\ k \in 1..n
    BY <1>2, <2>1
  <2>3. x \notin g.sel /\ v \in Nat
    BY <1>1, <1>2, <2>2
  <2>4. SumOf(s, g.sel \cup {x}) = opt
    BY <1>1, <1>2, <2>1, <2>3, SumOfAdd
  <2>5. g.sel \cup {x} \in SUBSET (1..n) /\ g.unsel \cup {x} \in SUBSET (1..n)
    BY <1>2, <1>3
  <2>6. opt \in Nat
    BY <1>3, <2>3
  <2>7. (g.sel \cup {x}) \cup g.unsel = 1..x /\ g.sel \cup (g.unsel \cup {x}) = 1..x
    <3>1. 1..x = (1..i) \cup {x}
      BY <1>2
    <3> QED BY <2>1, <3>1
  <2>8. CASE x = n
    <3> DEFINE m == Max(g.unsel)
               S == IF opt < W /\ g.unsel # {} THEN Before(g.sel \cup {x}, m) ELSE g.sel \cup {x}
    <3>1. new = [g EXCEPT !.done = TRUE, !.sel = S]
      BY <1>3, <1>5, <2>8 DEF OptStep
    <3>2. Closed(s, W, S)
      <4>1. CASE opt < W /\ g.unsel # {}
        <5>1. m \in g.unsel
          <6>1. g.unsel \in SUBSET (0..n)
            BY <1>1, <1>3
          <6> HIDE DEF n
          <6> QED BY <1>1, <4>1, <6>1, MaxIs
        <5> HIDE DEF m
        <5>2. m \in 1..n /\ m < x
          BY <2>2, <5>1
        <5>3. Below(g.sel \cup {x}, m) = Below(g.sel, m)
          <6>1. ~(x < m)
            BY <1>2, <5>2
          <6> HIDE DEF x
          <6> QED BY <6>1 DEF Below
        <5>4. SumOf(s, Below(g.sel, m)) < W /\ SumOf(s, Below(g.sel, m)) + s[m].amount > W
          BY <2>1, <5>1 DEF LeftOut
        <5> DEFINE A == Below(g.sel, m)
                   b == SumOf(s, A)
                   y == s[m].amount
        <5>5. A \in SUBSET (1..n) /\ \A k \in A : k < m
          BY <1>3 DEF Below
        <5>6. b \in Nat /\ y \in Nat
          BY <1>1, <5>2, SumOfNat
        <5>7. b < W /\ b + y > W
          BY <5>4
        <5> HIDE DEF b, y, A
        <5>8. b + y >= W
          BY <5>6, <5>7
        <5>9. Closed(s, W, A \cup {m})
          BY <5>2, <5>5, <5>7, <5>8, CloseWith DEF b, y
        <5>10. S = A \cup {m}
          BY <4>1, <5>3 DEF Before, Below, A
        <5> QED BY <5>9, <5>10
      <4>2. CASE opt < W /\ g.unsel = {}
        <5>1. S = 1..n
          BY <2>7, <2>8, <4>2
        <5>2. S = g.sel \cup {x}
          BY <4>2
        <5>3. SumOf(s, S) < W /\ SumOf(s, S) \in Nat
          BY <2>4, <2>6, <4>2, <5>2
        <5>4. ~(SumOf(s, S) >= W)
          <6> DEFINE z == SumOf(s, S)
          <6> HIDE DEF z
          <6>1. z < W /\ z \in Nat
            BY <5>3 DEF z
          <6>2. ~(z >= W)
            BY <6>1
          <6> QED BY <6>2 DEF z
        <5> HIDE DEF S
        <5> QED BY <5>1, <5>3, <5>4 DEF Closed
      <4>3. CASE ~(opt < W)
        <5>1. S = g.sel \cup {x}
          BY <4>3
        <5>2. opt >= W
          <6> HIDE DEF opt
          <6> QED BY <2>6, <4>3
        <5>3. SumOf(s, g.sel) < W /\ SumOf(s, g.sel) + s[x].amount >= W
          BY <2>1, <5>2
        <5>4. Closed(s, W, g.sel \cup {x})
          <6> HIDE DEF x
          <6> QED BY <1>2, <1>3, <2>2, <5>3, CloseWith
        <5> QED BY <5>1, <5>4
      <4> QED BY <4>1, <4>2, <4>3
    <3>3. S \in SUBSET (1..n)
      BY <3>2 DEF Closed
    <3> HIDE DEF S
    <3>4. new \in Passes(n) /\ new.done = TRUE /\ new.sel = S
      BY <1>3, <3>1, <3>3 DEF Passes
    <3> QED BY <3>2, <3>4 DEF Passed
  <2>9. CASE x # n /\ opt > W
    <3>1. new = [g EXCEPT !.unsel = g.unsel \cup {x}]
      BY <1>5, <2>9 DEF OptStep
    <3>2. new \in Passes(n) /\ new.done = g.done /\ new.sel = g.sel /\ new.unsel = g.unsel \cup {x} /\ new.opt = g.opt
      BY <1>3, <2>5, <3>1 DEF Passes
    <3>3. LeftOut(s, W, g.sel, x)
      <4>1. Below(g.sel, x) = g.sel
        BY <2>2 DEF Below
      <4> QED BY <2>1, <2>9, <4>1 DEF LeftOut
    <3>4. x < n
      BY <1>1, <1>2, <2>9
    <3> HIDE DEF new, x
    <3> QED BY <1>5, <2>1, <2>7, <3>2, <3>3, <3>4 DEF Passed, new, x
  <2>10. CASE x # n /\ ~(opt > W)
    <3>1. new = [g EXCEPT !.opt = opt, !.sel = g.sel \cup {x}, !.done = (opt = W)]
      BY <1>3, <1>5, <2>10 DEF OptStep
    <3>2. /\ new \in Passes(n) /\ new.done = (opt = W) /\ new.sel = g.sel \cup {x}
          /\ new.unsel = g.unsel /\ new.opt = opt
      <4>1. (opt = W) \in BOOLEAN
        OBVIOUS
      <4> HIDE DEF opt
      <4> QED BY <1>3, <2>5, <2>6, <3>1, <4>1 DEF Passes
    <3>3. x < n
      BY <1>1, <1>2, <2>10
    <3>4. CASE opt = W
      <4>1. SumOf(s, g.sel) < W /\ SumOf(s, g.sel) + s[x].amount >= W
        BY <2>1, <3>4
      <4>2. Closed(s, W, g.sel \cup {x})
        <5> HIDE DEF x
        <5> QED BY <1>2, <1>3, <2>2, <4>1, CloseWith
      <4>3. new.done = TRUE
        BY <3>2, <3>4
      <4> HIDE DEF new, x
      <4> QED BY <3>2, <4>2, <4>3 DEF Passed, new, x
    <3>5. CASE opt # W
      <4>1. opt < W
        <5> HIDE DEF opt
        <5> QED BY <2>6, <2>10, <3>5
      <4>2. ASSUME NEW j \in g.unsel PROVE LeftOut(s, W, g.sel \cup {x}, j)
        <5>1. j < x /\ j \in Nat
          BY <2>2
        <5>2. ~(x < j)
          BY <1>2, <5>1
        <5>3. Below(g.sel \cup {x}, j) = Below(g.sel, j)
          <6> HIDE DEF x
          <6> QED BY <5>2 DEF Below
        <5> QED BY <2>1, <5>3 DEF LeftOut
      <4>3. ~new.done
        BY <3>2, <3>5
      <4> HIDE DEF new, x, opt
      <4>4. new.sel \cup new.unsel = 1..x /\ new.opt = SumOf(s, new.sel) /\ new.opt < W
        BY <2>4, <2>7, <3>2, <4>1
      <4>5. \A j \in new.unsel : LeftOut(s, W, new.sel, j)
        BY <3>2, <4>2
      <4> QED BY <3>2, <3>3, <4>3, <4>4, <4>5 DEF Passed, new, x
    <3> QED BY <3>4, <3>5
  <2> QED BY <2>8, <2>9, <2>10
<1> QED BY <1>4, <1>5

(* The loop of the greedy pass. *)
PassLoop(s, W, f) ==
    f = [i \in 0..Len(s) |-> IF i = 0 THEN [opt |-> 0, sel |-> {}, unsel |-> {}, done |-> FALSE]
                             ELSE OptStep(f[i - 1], W, s, i)]

(* The greedy pass starts in its invariant. *)
LEMMA PassStart ==
    ASSUME NEW s, Sorted(s), NEW W \in Nat, W > 0
    PROVE  Passed(s, W, 0, [opt |-> 0, sel |-> {}, unsel |-> {}, done |-> FALSE])
<1> DEFINE a == [opt |-> 0, sel |-> {}, unsel |-> {}, done |-> FALSE]
           n == Len(s)
<1>1. n \in Nat /\ CoinList(s)
  BY DEF Sorted, CoinList
<1>2. SumOf(s, {}) = 0
  BY <1>1, SumOfEmpty
<1>3. a \in Passes(n) /\ a.done = FALSE /\ a.sel = {} /\ a.unsel = {} /\ a.opt = 0
  BY DEF Passes
<1>4. (n = 0 \/ 0 < n) /\ 1..0 = {} /\ 0 < W
  BY <1>1
<1> HIDE DEF a
<1>5. Passed(s, W, 0, a)
  BY <1>2, <1>3, <1>4 DEF Passed
<1> QED BY <1>5 DEF a

(* The greedy pass has a loop. *)
LEMMA PassTurns ==
    ASSUME NEW s, Sorted(s), NEW W \in Nat, W > 0
    PROVE  PassLoop(s, W, CHOOSE f : PassLoop(s, W, f))
<1> DEFINE n == Len(s)
           S == Passes(n)
           a == [opt |-> 0, sel |-> {}, unsel |-> {}, done |-> FALSE]
           next(g, i) == OptStep(g, W, s, i)
           F == [p \in S \X (1..n) |-> IF next(p[1], p[2]) \in S THEN next(p[1], p[2]) ELSE p[1]]
<1>0. n \in Nat /\ 0 \in 0..n
  BY DEF Sorted, CoinList
<1>1. Passed(s, W, 0, a) /\ a \in S
  BY PassStart DEF Passed
<1>2. F \in [S \X (1..n) -> S]
  <2> HIDE DEF S, next, n
  <2> QED OBVIOUS
<1>3. PICK f \in [0..n -> S] : Unrolls(f, n, a, F)
  <2> HIDE DEF S, n, F, a
  <2> QED BY <1>0, <1>1, <1>2, TurnsExist
<1>4. \A i \in 0..n : f[i] = IF i = 0 THEN a ELSE F[<<f[i - 1], i>>]
  <2> HIDE DEF S, n, F, a
  <2> QED BY <1>3 DEF Unrolls
<1> DEFINE G == {i \in 0..n : /\ Passed(s, W, i, f[i])
                              /\ i # 0 => f[i] = next(f[i - 1], i)}
<1>5. 0 \in G
  <2> HIDE DEF S, next, n, F, a
  <2> QED BY <1>0, <1>1, <1>4
<1>6. ASSUME NEW i \in 0..(n - 1), i \in G PROVE i + 1 \in G
  <2>1. i + 1 \in 0..n /\ i + 1 \in 1..n /\ i + 1 # 0 /\ (i + 1) - 1 = i /\ i \in 0..n
    BY <1>0
  <2>2. f[i] \in S /\ Passed(s, W, i, f[i])
    BY <1>6, <2>1
  <2>3. Passed(s, W, i + 1, next(f[i], i + 1))
    BY <2>2, PassTurn
  <2>4. next(f[i], i + 1) \in S
    BY <2>3 DEF Passed
  <2> HIDE DEF S, next, n, a
  <2>5. F[<<f[i], i + 1>>] = next(f[i], i + 1)
    BY <2>1, <2>2, <2>4
  <2> HIDE DEF F
  <2>6. f[i + 1] = next(f[i], i + 1)
    BY <1>4, <2>1, <2>5
  <2> QED BY <2>1, <2>3, <2>6
<1>7. \A i \in 0..n : i \in G
  <2> HIDE DEF G, n
  <2> QED BY <1>0, <1>5, <1>6, Turn
<1>8. PassLoop(s, W, f)
  <2> HIDE DEF S, next, F, n, a
  <2>1. \A i \in 0..n : f[i] = IF i = 0 THEN a ELSE next(f[i - 1], i)
    BY <1>0, <1>4, <1>7
  <2>2. f = [i \in 0..n |-> IF i = 0 THEN a ELSE next(f[i - 1], i)]
    BY <1>3, <2>1
  <2> QED BY <2>2 DEF PassLoop, n, a, next
<1> QED BY <1>8

(* The selection as the places it takes of the sorted list. *)
LEMMA PassEnds ==
    ASSUME NEW u, NEW W \in Nat, W > 0, Sorted(Largest(u))
    PROVE  \E sel : /\ Closed(Largest(u), W, sel)
                    /\ optOutputs(W, u) = [k \in 1..Cardinality(sel) |-> Largest(u)[Nth(sel, k)]]
<1> DEFINE s == Largest(u)
           n == Len(s)
           a == [opt |-> 0, sel |-> {}, unsel |-> {}, done |-> FALSE]
           f == CHOOSE g : PassLoop(s, W, g)
           end == f[n]
<1>0. n \in Nat /\ 0 \in 0..n /\ n \in 0..n
  BY DEF Sorted, CoinList
<1>1. optOutputs(W, u) = [k \in 1..Cardinality(end.sel) |-> s[Nth(end.sel, k)]]
  BY DEF optOutputs, PassLoop
<1> HIDE DEF s
<1>2. Sorted(s)
  BY DEF s
<1>3. PassLoop(s, W, f)
  BY <1>2, PassTurns
<1> HIDE DEF f
<1>4. \A i \in 0..n : f[i] = IF i = 0 THEN a ELSE OptStep(f[i - 1], W, s, i)
  BY <1>3 DEF PassLoop
<1> DEFINE G == {i \in 0..n : Passed(s, W, i, f[i])}
<1>5. 0 \in G
  <2>1. Passed(s, W, 0, a)
    BY <1>2, PassStart
  <2> HIDE DEF a
  <2> QED BY <1>0, <1>4, <2>1
<1>6. ASSUME NEW i \in 0..(n - 1), i \in G PROVE i + 1 \in G
  <2>1. i + 1 \in 0..n /\ i + 1 # 0 /\ (i + 1) - 1 = i
    BY <1>0
  <2>2. f[i + 1] = OptStep(f[i], W, s, i + 1)
    <3> HIDE DEF n, a
    <3> QED BY <1>4, <2>1
  <2>3. Passed(s, W, i + 1, f[i + 1])
    BY <1>2, <1>6, <2>2, PassTurn
  <2> QED BY <2>1, <2>3
<1>7. Passed(s, W, n, end)
  <2> HIDE DEF G, n
  <2>1. \A i \in 0..n : i \in G
    BY <1>0, <1>5, <1>6, Turn
  <2> QED BY <1>0, <2>1 DEF G
<1>8. Closed(s, W, end.sel)
  <2>1. CASE end.done
    BY <1>7, <2>1 DEF Passed
  <2>2. CASE ~end.done
    <3>1. /\ n = 0 \/ n < n
          /\ end.sel \cup end.unsel = 1..n /\ end.opt = SumOf(s, end.sel) /\ end.opt < W
      BY <1>7, <2>2 DEF Passed
    <3>2. end \in Passes(n)
      BY <1>7 DEF Passed
    <3>3. n = 0
      BY <1>0, <3>1
    <3>4. end.sel \in SUBSET (1..n) /\ 1..n = {} /\ end.opt \in Nat
      BY <3>2, <3>3 DEF Passes
    <3>5. end.sel = {} /\ end.sel = 1..n /\ SumOf(s, end.sel) < W
      BY <3>1, <3>4
    <3> QED BY <3>4, <3>5 DEF Closed
  <2> QED BY <2>1, <2>2
<1> QED BY <1>1, <1>8 DEF s

(* Sorting keeps the coins. *)
LEMMA LargestIs ==
    ASSUME NEW R, Worths(R), NEW u \in Seq(R), Once(u)
    PROVE  /\ Largest(u) \in Seq(R) /\ Len(Largest(u)) = Len(u) /\ Once(Largest(u))
           /\ Range(Largest(u)) = Range(u) /\ Sorted(Largest(u))
<1> DEFINE n == Len(u)
           p == Order(u)
           s == Largest(u)
<1>1. n \in Nat /\ CoinList(u) /\ Range(u) = {u[k] : k \in 1..n} /\ u \in [1..n -> R]
  BY SeqCoins
<1>2. /\ p \in [1..n -> 1..n] /\ \A k, l \in 1..n : p[k] = p[l] => k = l
      /\ \A i \in 1..n : \E k \in 1..n : p[k] = i
      /\ s = [k \in 1..n |-> u[p[k]]]
      /\ \A k, l \in 1..n : k < l => u[p[k]].amount >= u[p[l]].amount
  BY <1>1, LargestSorts
<1>8. \A k, l \in 1..n : u[k] = u[l] => k = l
  BY DEF Once
<1> HIDE DEF n, p, s
<1>3. s \in [1..n -> R] /\ \A k \in 1..n : s[k] = u[p[k]]
  BY <1>1, <1>2
<1>4. s \in Seq(R) /\ Len(s) = n
  BY <1>1, <1>3, FcnSeq
<1>5. CoinList(s) /\ Range(s) = {s[k] : k \in 1..n}
  BY <1>4, SeqCoins
<1>6. Sorted(s)
  BY <1>2, <1>3, <1>4, <1>5 DEF Sorted
<1>7. Range(s) = Range(u)
  <2>1. ASSUME NEW x \in Range(u) PROVE x \in Range(s)
    <3>1. PICK i \in 1..n : x = u[i]
      BY <1>1
    <3>2. PICK k \in 1..n : p[k] = i
      BY <1>2
    <3>3. s[k] = x
      BY <1>3, <3>1, <3>2
    <3> QED BY <1>5, <3>3
  <2>2. ASSUME NEW x \in Range(s) PROVE x \in Range(u)
    <3>1. PICK k \in 1..n : x = s[k]
      BY <1>5
    <3>2. p[k] \in 1..n /\ x = u[p[k]]
      BY <1>2, <1>3, <3>1
    <3> QED BY <1>1, <3>2
  <2> QED BY <2>1, <2>2
<1>9. Once(s)
  <2> SUFFICES ASSUME NEW k \in 1..n, NEW l \in 1..n, s[k] = s[l] PROVE k = l
    BY <1>4 DEF Once
  <2>1. p[k] \in 1..n /\ p[l] \in 1..n /\ u[p[k]] = u[p[l]]
    BY <1>2, <1>3
  <2> QED BY <1>2, <1>8, <2>1
<1> QED BY <1>4, <1>6, <1>7, <1>9 DEF s, n

(* optOutputs: no coin that the amount does not need, or all of them. *)
LEMMA PassSelects ==
    ASSUME NEW R, Worths(R), NEW u \in Seq(R), Once(u), NEW W \in Nat, W > 0
    PROVE  LET r == optOutputs(W, u)
           IN  /\ r \in Seq(R) /\ Once(r) /\ Range(r) \subseteq Range(u)
               /\ Total(r) >= W => \A i \in 1..Len(r) : Total(r) - r[i].amount < W
               /\ Total(r) < W => Range(r) = Range(u)
<1> DEFINE s == Largest(u)
           n == Len(s)
           r == optOutputs(W, u)
<1>1. s \in Seq(R) /\ Len(s) = Len(u) /\ Once(s) /\ Range(s) = Range(u) /\ Sorted(s)
  BY LargestIs
<1>2. n \in Nat /\ CoinList(s) /\ Range(s) = {s[k] : k \in 1..n} /\ s \in [1..n -> R]
  <2> HIDE DEF s
  <2> QED BY <1>1, SeqCoins
<1>3. PICK sel : /\ Closed(s, W, sel)
                 /\ r = [k \in 1..Cardinality(sel) |-> s[Nth(sel, k)]]
  BY <1>1, PassEnds
<1> DEFINE m == Cardinality(sel)
           p == [k \in 1..m |-> Nth(sel, k)]
<1> HIDE DEF s, r
<1>4. /\ sel \in SUBSET (1..n)
      /\ SumOf(s, sel) >= W => \A k \in sel : SumOf(s, sel) - s[k].amount < W
      /\ SumOf(s, sel) < W => sel = 1..n
  BY <1>3 DEF Closed
<1>5. /\ IsFiniteSet(sel)
      /\ \A k \in 1..m : Nth(sel, k) \in sel
      /\ \A k, l \in 1..m : Nth(sel, k) = Nth(sel, l) => k = l
      /\ \A i \in sel : \E k \in 1..m : Nth(sel, k) = i
  <2> HIDE DEF n
  <2> QED BY <1>2, <1>4, NthLists
<1>6. m \in Nat
  BY <1>5, FS_CardinalityType
<1> HIDE DEF n, m
<1>7. /\ p \in [1..m -> 1..n] /\ \A k \in 1..m : p[k] = Nth(sel, k) /\ p[k] \in sel
      /\ \A k, l \in 1..m : p[k] = p[l] => k = l
      /\ \A i \in sel : \E k \in 1..m : p[k] = i
  BY <1>4, <1>5
<1>8. r = [k \in 1..m |-> s[p[k]]]
  BY <1>3, <1>7 DEF m
<1> HIDE DEF p
<1>9. r \in [1..m -> R] /\ \A k \in 1..m : r[k] = s[p[k]]
  BY <1>2, <1>7, <1>8
<1>10. r \in Seq(R) /\ Len(r) = m
  BY <1>6, <1>9, FcnSeq
<1>11. CoinList(r) /\ Range(r) = {r[k] : k \in 1..m}
  BY <1>10, SeqCoins
<1>12. Image(p, 1..m) = sel
  BY <1>7 DEF Image
<1>13. Total(r) = SumOf(s, sel)
  <2>1. Total(r) = SumOf(r, 1..m)
    BY <1>10, <1>11, TotalIs
  <2>2. SumOf(r, 1..m) = SumOf(s, Image(p, 1..m))
    <3>1. \A k \in 1..Len(r) : r[k].amount = s[p[k]].amount
      BY <1>9, <1>10
    <3>2. p \in [1..Len(r) -> 1..Len(s)] /\ \A k, l \in 1..Len(r) : p[k] = p[l] => k = l
      BY <1>7, <1>10 DEF n
    <3> DEFINE T == 1..m
    <3>3. T \in SUBSET (1..Len(r))
      BY <1>10
    <3> HIDE DEF T
    <3>4. SumOf(r, T) = SumOf(s, Image(p, T))
      <4>1. CoinList(s) /\ CoinList(r)
        BY <1>2, <1>11
      <4>2. p \in [1..Len(r) -> 1..Len(s)]
        BY <3>2
      <4>3. \A k, l \in 1..Len(r) : p[k] = p[l] => k = l
        BY <3>2
      <4> QED BY ONLY <3>1, <3>3, <4>1, <4>2, <4>3, SumOfImage
    <3> QED BY <3>4 DEF T
  <2> QED BY <1>12, <2>1, <2>2
<1>14. Once(r)
  <2>1. \A k, l \in 1..n : s[k] = s[l] => k = l
    BY <1>1 DEF Once, n
  <2> SUFFICES ASSUME NEW k \in 1..m, NEW l \in 1..m, r[k] = r[l] PROVE k = l
    BY <1>10 DEF Once
  <2>2. p[k] \in 1..n /\ p[l] \in 1..n /\ s[p[k]] = s[p[l]]
    BY <1>7, <1>9
  <2> QED BY <1>7, <2>1, <2>2
<1>15. Range(r) \subseteq Range(u)
  <2> SUFFICES ASSUME NEW k \in 1..m PROVE r[k] \in Range(u)
    BY <1>11
  <2>1. p[k] \in 1..n /\ r[k] = s[p[k]]
    BY <1>7, <1>9
  <2> QED BY <1>1, <1>2, <2>1
<1>16. ASSUME Total(r) >= W, NEW i \in 1..Len(r) PROVE Total(r) - r[i].amount < W
  <2>1. i \in 1..m /\ p[i] \in sel /\ r[i] = s[p[i]]
    BY <1>7, <1>9, <1>10
  <2> QED BY <1>4, <1>13, <1>16, <2>1
<1>17. ASSUME Total(r) < W PROVE Range(r) = Range(u)
  <2>1. sel = 1..n
    BY <1>4, <1>13, <1>17
  <2> SUFFICES ASSUME NEW x \in Range(u) PROVE x \in Range(r)
    BY <1>15
  <2>2. PICK i \in 1..n : x = s[i]
    BY <1>1, <1>2
  <2>3. PICK k \in 1..m : p[k] = i
    BY <1>7, <2>1
  <2>4. r[k] = x
    BY <1>9, <2>2, <2>3
  <2> QED BY <1>11, <2>4
<1> QED BY <1>10, <1>14, <1>15, <1>16, <1>17 DEF r

(***************************************************************************)
(* What K coins reach                                                      *)
(***************************************************************************)
(* Two coins of a list are worth no more than the list. *)
LEMMA TotalCovers ==
    ASSUME NEW r, CoinList(r), NEW i \in 1..Len(r)
    PROVE  /\ Total(r) \in Nat /\ r[i].amount \in Nat /\ r[i].amount <= Total(r)
           /\ \A l \in 1..Len(r) : l # i => /\ r[l].amount \in Nat
                                            /\ r[i].amount + r[l].amount <= Total(r)
<1> DEFINE D == 1..Len(r)
<1>1. Total(r) = SumOf(r, D) /\ SumOf(r, D) \in Nat
  BY TotalIs, SumOfNat
<1>2. \A l \in D : r[l].amount \in Nat /\ SumOf(r, {l}) = r[l].amount
  BY SumOfOne DEF CoinList
<1>3. {i} \in SUBSET D /\ \A l \in D : {i} \cup {l} \in SUBSET D
  OBVIOUS
<1> HIDE DEF D
<1>4. SumOf(r, {i}) <= SumOf(r, D)
  BY <1>3, SumOfMono
<1>5. ASSUME NEW l \in D, l # i PROVE r[i].amount + r[l].amount <= Total(r)
  <2>1. SumOf(r, {i} \cup {l}) = SumOf(r, {i}) + r[l].amount
    <3>1. l \notin {i} /\ l \in 1..Len(r)
      BY <1>5 DEF D
    <3> DEFINE T == {i}
    <3>2. l \notin T
      BY <3>1
    <3> HIDE DEF T
    <3>3. SumOf(r, T \cup {l}) = SumOf(r, T) + r[l].amount
      BY <3>1, <3>2, SumOfAdd
    <3> QED BY <3>3 DEF T
  <2> DEFINE T == {i} \cup {l}
  <2>2. T \in SUBSET D
    BY <1>3
  <2>3. SumOf(r, T) = SumOf(r, {i}) + r[l].amount
    BY <2>1
  <2> HIDE DEF T
  <2>4. SumOf(r, T) <= SumOf(r, D)
    BY <2>2, SumOfMono
  <2>5. i \in D
    BY DEF D
  <2> QED BY <1>1, <1>2, <2>3, <2>4, <2>5
<1>6. i \in D
  BY DEF D
<1> QED BY <1>1, <1>2, <1>4, <1>5, <1>6 DEF D

(* A set of places grows to any size that there are places for. *)
Grown(n, T, k) == {S \in SUBSET (1..n) : T \subseteq S /\ Cardinality(S) = k}

(* There is such a larger set. *)
LEMMA Extends ==
    ASSUME NEW n \in Nat, NEW T \in SUBSET (1..n), NEW k \in Nat, Cardinality(T) <= k, k <= n
    PROVE  Grown(n, T, k) # {}
<1> DEFINE D == 1..n
           t == Cardinality(T)
           d == k - t
           G == {j \in 0..d : \E S \in SUBSET D : T \subseteq S /\ Cardinality(S) = t + j}
<1>1. IsFiniteSet(D) /\ Cardinality(D) = n
  BY UpTo
<1>2. \A S \in SUBSET D : IsFiniteSet(S) /\ Cardinality(S) \in Nat
  <2> HIDE DEF D
  <2> QED BY <1>1, FS_Subset, FS_CardinalityType
<1>3. t \in Nat /\ t <= k
  BY <1>2
<1> HIDE DEF t, D
<1>4. d \in Nat /\ 0 \in 0..d /\ d \in 0..d /\ t + d = k /\ t + 0 = t
  BY <1>3
<1>5. 0 \in G
  <2>1. T \in SUBSET D /\ Cardinality(T) = t
    BY DEF D, t
  <2> QED BY <1>4, <2>1
<1>6. ASSUME NEW j \in 0..(d - 1), j \in G PROVE j + 1 \in G
  <2>1. PICK S \in SUBSET D : T \subseteq S /\ Cardinality(S) = t + j
    BY <1>6
  <2>2. t + j # n /\ j + 1 \in 0..d /\ t + (j + 1) = (t + j) + 1
    BY <1>3, <1>4
  <2>3. S # D
    BY <1>1, <2>1, <2>2
  <2>4. PICK x \in D : x \notin S
    BY <2>3
  <2>5. Cardinality(S \cup {x}) = Cardinality(S) + 1
    BY <1>2, <2>4, FS_AddElement
  <2>6. S \cup {x} \in SUBSET D /\ T \subseteq S \cup {x} /\ Cardinality(S \cup {x}) = t + (j + 1)
    BY <2>1, <2>2, <2>4, <2>5
  <2> QED BY <2>2, <2>6
<1>7. d \in G
  <2> HIDE DEF G, d
  <2>1. \A j \in 0..d : j \in G
    BY <1>4, <1>5, <1>6, Turn
  <2> QED BY <1>4, <2>1
<1>8. PICK S \in SUBSET D : T \subseteq S /\ Cardinality(S) = t + d
  <2> HIDE DEF d
  <2> QED BY <1>7
<1> QED BY <1>4, <1>8 DEF D, Grown

(* The selections that Reach compares: as many coins as fit, or as there are. *)
Fits(c) == IF K <= Len(c) THEN K ELSE Len(c)
Selections(c) == {S \in SUBSET (1..Len(c)) : Cardinality(S) = Fits(c)}

(* Reach is the worth of the best of the selections. *)
LEMMA ReachIs ==
    ASSUME NEW c, CoinList(c)
    PROVE  /\ Reach(c) \in Nat /\ \E S \in Selections(c) : Reach(c) = SumOf(c, S)
           /\ \A S \in Selections(c) : SumOf(c, S) <= Reach(c)
<1> DEFINE n == Len(c)
           V == {SumOf(c, S) : S \in Selections(c)}
           top == SumOf(c, 1..n)
<1>1. n \in Nat /\ K \in Nat /\ DOMAIN c = 1..n /\ top \in Nat
  BY HalfIs, SumOfNat DEF CoinList
<1>2. Min({K, n}) = Fits(c)
  <2> DEFINE f == Fits(c)
             z == CHOOSE x \in {K, n} : \A y \in {K, n} : x =< y
  <2>1. f \in {K, n} /\ \A y \in {K, n} : f =< y
    BY <1>1 DEF Fits
  <2>2. z \in {K, n} /\ \A y \in {K, n} : z =< y
    BY <2>1
  <2>3. f \in Nat /\ z \in Nat
    BY <1>1, <2>1, <2>2
  <2> HIDE DEF f, z
  <2>4. f =< z /\ z =< f
    BY <2>1, <2>2
  <2>5. z = f
    BY <2>3, <2>4
  <2> QED BY <2>5 DEF Min, z, f
<1>3. Reach(c) = Max(V)
  BY <1>1, <1>2 DEF Reach, kSubset, Selections
<1>4. V \in SUBSET (0..top)
  <2> SUFFICES ASSUME NEW S \in Selections(c) PROVE SumOf(c, S) \in 0..top
    OBVIOUS
  <2> DEFINE D == 1..n
             a == SumOf(c, S)
             b == SumOf(c, D)
  <2>1. S \in SUBSET D
    BY DEF Selections
  <2> HIDE DEF D
  <2>2. a <= b /\ a \in Nat /\ b \in Nat
    BY <2>1, SumOfMono, SumOfNat
  <2> HIDE DEF a, b
  <2>3. a \in 0..b
    BY <2>2
  <2> QED BY <2>3 DEF a, b, D
<1>5. V # {}
  <2> DEFINE k == Fits(c)
  <2>1. k \in Nat /\ k <= n
    BY <1>1 DEF Fits
  <2>2. IsFiniteSet({}) /\ Cardinality({}) = 0
    BY FS_EmptySet
  <2>3. {} \in SUBSET (1..n) /\ Cardinality({}) <= k
    BY <2>1, <2>2
  <2> HIDE DEF k, n
  <2> DEFINE T == {}
  <2>4. T \in SUBSET (1..n) /\ Cardinality(T) <= k
    BY <2>3
  <2> HIDE DEF T
  <2>5. PICK S \in SUBSET (1..n) : Cardinality(S) = k
    <3>1. Grown(n, T, k) # {}
      BY <1>1, <2>1, <2>4, Extends
    <3> QED BY <3>1 DEF Grown
  <2>6. S \in Selections(c)
    BY <2>5 DEF Selections, n, k
  <2> QED BY <2>6
<1> HIDE DEF V, top
<1>6. Max(V) \in V /\ \A y \in V : Max(V) >= y
  BY <1>1, <1>4, <1>5, MaxIs
<1>7. Max(V) \in Nat /\ \A y \in V : y \in Nat
  <2>1. 0..top \subseteq Nat
    BY <1>1
  <2>2. V \subseteq Nat
    BY <1>4, <2>1
  <2> QED BY <1>6, <2>2
<1>8. \A y \in V : y <= Max(V)
  <2>1. \A x, y \in Nat : x >= y => y <= x
    OBVIOUS
  <2> QED BY <1>6, <1>7, <2>1
<1>9. PICK best \in Selections(c) : Max(V) = SumOf(c, best)
  BY <1>6 DEF V
<1>10. \A S \in Selections(c) : SumOf(c, S) \in V
  BY DEF V
<1> QED BY <1>3, <1>7, <1>8, <1>9, <1>10

(* What findEligibleUtxos is asked and answers. *)
LEMMA SelectionIs ==
    ASSUME NEW R, Worths(R), NEW c \in Seq(R), Once(c), NEW W \in Nat, W > 0
    PROVE  LET u == Items(c, W)
               r == optOutputs(W, u)
           IN  /\ u \in Seq(R) /\ Once(u) /\ Range(u) \subseteq Range(c)
               /\ r \in Seq(R) /\ Once(r) /\ Range(r) \subseteq Range(u)
               /\ Total(r) >= W => \A i \in 1..Len(r) : Total(r) - r[i].amount < W
               /\ Total(r) < W => Range(r) = Range(u)
               /\ findEligibleUtxos(W, c).coins = r /\ findEligibleUtxos(W, c).found = Total(r)
<1> DEFINE u == Items(c, W)
           r == optOutputs(W, u)
<1>1. u \in Seq(R) /\ Once(u) /\ Range(u) \subseteq Range(c)
  BY ItemsAre
<1>2. findEligibleUtxos(W, c).coins = r /\ findEligibleUtxos(W, c).found = Total(r)
  BY DEF findEligibleUtxos, Eligible
<1> HIDE DEF u
<1>3. /\ r \in Seq(R) /\ Once(r) /\ Range(r) \subseteq Range(u)
      /\ Total(r) >= W => \A i \in 1..Len(r) : Total(r) - r[i].amount < W
      /\ Total(r) < W => Range(r) = Range(u)
  BY <1>1, PassSelects
<1> QED BY <1>1, <1>2, <1>3 DEF u

(* The coin kept aside is left out again, or is the whole selection. *)
LEMMA SelectionFits ==
    ASSUME NEW R, Worths(R), NEW c \in Seq(R), Once(c), NEW W \in Nat, W > 0
    PROVE  LET r == optOutputs(W, Items(c, W)) IN Len(r) \in Nat /\ Len(r) <= K
<1> DEFINE u == Items(c, W)
           r == optOutputs(W, u)
<1>1. /\ u \in Seq(R) /\ Once(u) /\ Range(u) \subseteq Range(c)
      /\ Len(u) <= K \/ (Len(u) = K + 1 /\ HasLarge(u, W))
  BY ItemsAre
<1>2. /\ r \in Seq(R) /\ Once(r) /\ Range(r) \subseteq Range(u)
      /\ Total(r) >= W => \A i \in 1..Len(r) : Total(r) - r[i].amount < W
  BY SelectionIs
<1> HIDE DEF u, r
<1> DEFINE A == Where(u, Range(r))
           D == 1..Len(u)
<1>3. A \in SUBSET D /\ IsFiniteSet(A) /\ Cardinality(A) = Len(r)
  BY <1>1, <1>2, SubList
<1>4. Len(u) \in Nat /\ Len(r) \in Nat /\ K \in Nat /\ K > 0 /\ CoinList(r)
  BY <1>1, <1>2, SeqCoins, HalfIs
<1>5. IsFiniteSet(D) /\ Cardinality(D) = Len(u)
  <2> DEFINE n == Len(u)
  <2> HIDE DEF n
  <2>1. n \in Nat
    BY <1>4 DEF n
  <2>2. IsFiniteSet(1..n) /\ Cardinality(1..n) = n
    BY <2>1, UpTo
  <2> QED BY <2>2 DEF n
<1>6. Len(r) <= Len(u) /\ (Len(r) = Len(u) => A = D)
  <2> HIDE DEF A, D
  <2> QED BY <1>3, <1>5, FS_Subset
<1>7. CASE Len(u) <= K
  <2>1. Len(r) <= K
    BY <1>4, <1>6, <1>7
  <2> QED BY <1>4, <2>1 DEF r, u
<1>8. CASE Len(u) = K + 1 /\ HasLarge(u, W)
  <2>1. PICK k \in D : u[k].amount > W
    BY <1>8 DEF HasLarge
  <2>2. Len(r) <= K
    <3>1. CASE k \notin A
      <4>1. Len(r) # Len(u)
        BY <1>6, <3>1
      <4> QED BY <1>4, <1>6, <1>8, <4>1
    <3>2. CASE k \in A
      <4>1. PICK i \in 1..Len(r) : r[i] = u[k]
        <5>1. u[k] \in Range(r)
          BY <3>2 DEF Where
        <5>2. Range(r) = {r[j] : j \in 1..Len(r)}
          BY <1>2, SeqCoins
        <5> QED BY <5>1, <5>2
      <4>2. ASSUME NEW l \in 1..Len(r), l # i PROVE FALSE
        <5> DEFINE a == r[i].amount
                   b == r[l].amount
                   t == Total(r)
        <5>1. t \in Nat /\ a \in Nat /\ a <= t /\ b \in Nat /\ a + b <= t
          BY <1>4, <4>2, TotalCovers
        <5>2. a > W
          BY <2>1, <4>1
        <5>3. t >= W => t - b < W
          BY <1>2
        <5> HIDE DEF a, b, t
        <5> QED BY <5>1, <5>2, <5>3
      <4>3. Len(r) <= 1
        <5>1. CASE i = 1
          <6> SUFFICES ASSUME Len(r) > 1 PROVE FALSE
            BY <1>4
          <6>1. 2 \in 1..Len(r) /\ 2 # i
            BY <1>4, <5>1
          <6> QED BY <4>2, <6>1
        <5>2. CASE i # 1
          <6>1. 1 \in 1..Len(r) /\ 1 # i
            BY <1>4, <5>2
          <6> QED BY <4>2, <6>1
        <5> QED BY <5>1, <5>2
      <4> QED BY <1>4, <4>3
    <3> QED BY <3>1, <3>2
  <2> QED BY <1>4, <2>2 DEF r, u
<1> QED BY <1>1, <1>7, <1>8

(* When the selection falls short of the amount, it is the most K coins hold. *)
LEMMA ShortIsMost ==
    ASSUME NEW R, Worths(R), NEW c \in Seq(R), Once(c), NEW W \in Nat, W > 0,
           Total(optOutputs(W, Items(c, W))) < W, NEW S \in Selections(c)
    PROVE  SumOf(c, S) <= Total(optOutputs(W, Items(c, W)))
<1> DEFINE u == Items(c, W)
           r == optOutputs(W, u)
           n == Len(c)
<1>1. /\ u \in Seq(R) /\ Once(u) /\ Range(u) \subseteq Range(c)
      /\ HasLarge(u, W) \/ \A x \in Range(c) : x \in Range(u) \/ (Len(u) = K /\ Least(u, x))
  BY ItemsAre
<1>2. r \in Seq(R) /\ Once(r) /\ Range(r) = Range(u) /\ Total(r) < W
  BY SelectionIs
<1> HIDE DEF u, r
<1> DEFINE B == Where(c, Range(u))
<1>3. /\ Total(r) = SumOf(c, B) /\ B \in SUBSET (1..n) /\ IsFiniteSet(B) /\ Cardinality(B) = Len(u)
  <2>1. Range(r) \subseteq Range(c)
    BY <1>1, <1>2
  <2>2. Total(r) = SumOf(c, Where(c, Range(r)))
    BY <1>2, <2>1, SubList
  <2>3. B \in SUBSET (1..n) /\ IsFiniteSet(B) /\ Cardinality(B) = Len(u)
    BY <1>1, SubList
  <2> QED BY <1>2, <2>2, <2>3
<1>4. n \in Nat /\ CoinList(c) /\ CoinList(r) /\ K \in Nat /\ Range(c) = {c[k] : k \in 1..n}
      /\ Range(u) = {u[k] : k \in 1..Len(u)} /\ Range(r) = {r[k] : k \in 1..Len(r)}
  BY <1>1, <1>2, SeqCoins, HalfIs
<1>5. ~HasLarge(u, W)
  <2> SUFFICES ASSUME NEW k \in 1..Len(u), u[k].amount > W PROVE FALSE
    BY DEF HasLarge
  <2>1. PICK i \in 1..Len(r) : r[i] = u[k]
    BY <1>2, <1>4
  <2> DEFINE a == r[i].amount
             t == Total(r)
  <2>2. a \in Nat /\ t \in Nat /\ a <= t
    BY <1>4, TotalCovers
  <2>3. a > W /\ t < W
    BY <1>2, <2>1
  <2> HIDE DEF a, t
  <2> QED BY <2>2, <2>3
<1>6. \A i \in 1..n : i \in B \/ (Len(u) = K /\ Least(u, c[i]))
  BY <1>1, <1>4, <1>5 DEF Where
<1>7. S \in SUBSET (1..n) /\ Cardinality(S) = Fits(c)
  BY DEF Selections
<1> HIDE DEF B, n
<1>8. SumOf(c, S) <= SumOf(c, B)
  <2>1. CASE S \subseteq B
    <3>1. S \in SUBSET B
      BY <2>1
    <3> QED BY <1>4, <3>1, SumOfMono
  <2>2. CASE ~(S \subseteq B)
    <3>1. Len(u) = K
      BY <1>6, <1>7, <2>2
    <3> DEFINE E == S \cap B
               X == S \ B
               Y == B \ S
    <3>2. IsFiniteSet(S) /\ IsFiniteSet(1..n) /\ Cardinality(1..n) = n
      BY <1>4, <1>7, UpTo, FS_Subset
    <3>3. Cardinality(B) <= n
      <4>1. B \in SUBSET (1..n)
        BY <1>3 DEF n
      <4>2. Cardinality(B) <= Cardinality(1..n)
        BY ONLY <3>2, <4>1, FS_Subset
      <4> QED BY <3>2, <4>2
    <3>4. Cardinality(S) = K /\ Cardinality(B) = K
      <4>1. K <= n
        BY <1>3, <3>1, <3>3
      <4> QED BY <1>3, <1>7, <3>1, <4>1 DEF Fits, n
    <3>5. Cardinality(X) = K - Cardinality(S \cap B) /\ Cardinality(Y) = K - Cardinality(B \cap S)
      BY <1>3, <3>2, <3>4, FS_Difference
    <3>6. S \cap B = B \cap S
      OBVIOUS
    <3>7. Cardinality(X) = Cardinality(Y)
      BY <3>5, <3>6
    <3>8. \A i \in X, j \in Y : c[i].amount <= c[j].amount
      <4> SUFFICES ASSUME NEW i \in X, NEW j \in Y PROVE c[i].amount <= c[j].amount
        OBVIOUS
      <4>1. i \in 1..n /\ i \notin B /\ j \in B
        BY <1>7
      <4>2. c[j] \in Range(u)
        BY <4>1 DEF B, Where
      <4> QED BY <1>6, <4>1, <4>2 DEF Least
    <3>9. X \in SUBSET (1..Len(c)) /\ Y \in SUBSET (1..Len(c))
      BY <1>3, <1>7 DEF n
    <3>10. S = E \cup X /\ B = E \cup Y /\ E \cap X = {} /\ E \cap Y = {}
      OBVIOUS
    <3> HIDE DEF E, X, Y
    <3>11. SumOf(c, X) <= SumOf(c, Y)
      BY <1>4, <3>7, <3>8, <3>9, SumOfDominated
    <3>12. SumOf(c, S) = SumOf(c, E) + SumOf(c, X) /\ SumOf(c, B) = SumOf(c, E) + SumOf(c, Y)
      BY <1>4, <3>10, SumOfUnion
    <3>13. SumOf(c, E) \in Nat /\ SumOf(c, X) \in Nat /\ SumOf(c, Y) \in Nat
      BY <1>4, SumOfNat
    <3>14. \A e, x, y \in Nat : x <= y => e + x <= e + y
      OBVIOUS
    <3> QED BY <3>11, <3>12, <3>13, <3>14
  <2> QED BY <2>1, <2>2
<1> QED BY <1>3, <1>8 DEF r, u

(* findEligibleUtxos selects well, whatever the coins and the amount. *)
LEMMA SelectsWell ==
    ASSUME NEW R, Worths(R), NEW c \in Seq(R), Once(c), NEW W \in Nat, W > 0
    PROVE  WellSelected(findEligibleUtxos(W, c), c, W)
<1> DEFINE u == Items(c, W)
           r == optOutputs(W, u)
           n == Len(c)
           e == findEligibleUtxos(W, c)
           t == Total(r)
<1>1. /\ u \in Seq(R) /\ Once(u) /\ Range(u) \subseteq Range(c)
      /\ r \in Seq(R) /\ Once(r) /\ Range(r) \subseteq Range(u)
      /\ Total(r) >= W => \A i \in 1..Len(r) : Total(r) - r[i].amount < W
      /\ e.coins = r /\ e.found = t
  BY SelectionIs
<1>2. Len(r) \in Nat /\ Len(r) <= K
  BY SelectionFits
<1>3. t < W => \A S \in Selections(c) : SumOf(c, S) <= t
  BY ShortIsMost
<1> HIDE DEF u, r, e
<1>4. n \in Nat /\ CoinList(c) /\ CoinList(r) /\ DOMAIN r = 1..Len(r) /\ K \in Nat
  BY <1>1, SeqCoins, HalfIs
<1>5. /\ Reach(c) \in Nat /\ \E S \in Selections(c) : Reach(c) = SumOf(c, S)
      /\ \A S \in Selections(c) : SumOf(c, S) <= Reach(c)
  BY <1>4, ReachIs
<1>6. t \in Nat
  BY <1>4, TotalIs, SumOfNat
<1>7. t <= Reach(c)
  <2> DEFINE T == Where(c, Range(r))
             k == Fits(c)
  <2>1. t = SumOf(c, T) /\ T \in SUBSET (1..n) /\ IsFiniteSet(T) /\ Cardinality(T) = Len(r)
    <3>1. Range(r) \subseteq Range(c)
      BY <1>1
    <3> QED BY <1>1, <3>1, SubList
  <2>2. Cardinality(T) <= n
    <3> HIDE DEF T, n
    <3>1. IsFiniteSet(1..n) /\ Cardinality(1..n) = n
      BY <1>4, UpTo
    <3> QED BY <2>1, <3>1, FS_Subset
  <2>3. k \in Nat /\ k <= n /\ Len(r) <= k
    <3>1. Len(r) <= n
      BY <2>1, <2>2
    <3>2. k = IF K <= n THEN K ELSE n
      BY DEF Fits
    <3> HIDE DEF k, n
    <3> QED BY <1>2, <1>4, <3>1, <3>2
  <2> HIDE DEF T, k, n
  <2>4. PICK S \in SUBSET (1..n) : T \subseteq S /\ Cardinality(S) = k
    <3>1. Cardinality(T) <= k
      BY <2>1, <2>3
    <3>2. Grown(n, T, k) # {}
      BY <1>4, <2>1, <2>3, <3>1, Extends
    <3> QED BY <3>2 DEF Grown
  <2>5. S \in Selections(c)
    BY <2>4 DEF Selections, n, k
  <2>6. T \in SUBSET S
    BY <2>4
  <2>7. SumOf(c, T) <= SumOf(c, S) /\ SumOf(c, S) \in Nat
    BY <1>4, <2>6, SumOfMono, SumOfNat
  <2>8. SumOf(c, S) <= Reach(c)
    BY <1>5, <2>5
  <2>9. \A x, y, z \in Nat : x <= y /\ y <= z => x <= z
    OBVIOUS
  <2> QED BY <1>5, <1>6, <2>1, <2>7, <2>8, <2>9
<1>8. t < W => Reach(c) <= t
  BY <1>3, <1>5
<1>9. IsInjective(r)
  BY <1>1, <1>4 DEF Once, IsInjective
<1> DEFINE m == Reach(c)
<1> HIDE DEF t, m
<1>10. t >= W <=> m >= W
  <2>1. m \in Nat /\ t \in Nat /\ t <= m /\ (t < W => m <= t)
    BY <1>5, <1>6, <1>7, <1>8 DEF m
  <2> QED BY <2>1
<1>11. t >= W => \A i \in DOMAIN r : t - r[i].amount < W
  BY <1>1, <1>4 DEF t
<1>12. WellSelected(e, c, W)
  BY <1>1, <1>2, <1>9, <1>10, <1>11 DEF WellSelected, m, t
<1> QED BY <1>12 DEF e

(* A wallet of given amounts is a list of distinct coins. *)
LEMMA CoinsAre ==
    ASSUME NEW amounts \in Seq(Nat)
    PROVE  /\ Coins(amounts) \in Seq([id : Nat, amount : Nat]) /\ Once(Coins(amounts))
           /\ Worths([id : Nat, amount : Nat])
<1> DEFINE R == [id : Nat, amount : Nat]
           n == Len(amounts)
           c == Coins(amounts)
<1>1. n \in Nat /\ DOMAIN amounts = 1..n /\ \A i \in 1..n : amounts[i] \in Nat /\ i \in Nat
  OBVIOUS
<1> HIDE DEF n
<1>2. c \in [1..n -> R] /\ \A i \in 1..n : c[i].id = i
  BY <1>1 DEF Coins
<1> HIDE DEF c
<1>3. c \in Seq(R) /\ Len(c) = n
  BY <1>1, <1>2, FcnSeq
<1>4. Once(c)
  <2> SUFFICES ASSUME NEW i \in 1..n, NEW j \in 1..n, c[i] = c[j] PROVE i = j
    BY <1>3 DEF Once
  <2> QED BY <1>2
<1>5. Worths(R)
  BY DEF Worths
<1> QED BY <1>3, <1>4, <1>5 DEF c

(* No wallet and no amount makes the selection go wrong. *)
LEMMA NoneMisselected == Misselected = {}
<1> SUFFICES ASSUME NEW amounts \in Wallets, NEW want \in 1..(Reach(Coins(amounts)) + 1)
             PROVE  WellSelected(findEligibleUtxos(want, Coins(amounts)), Coins(amounts), want)
  BY DEF Misselected
<1> DEFINE c == Coins(amounts)
           R == [id : Nat, amount : Nat]
<1>1. amounts \in Seq(Nat)
  <2>1. amounts \in Seq(Nat \ {0})
    BY SelectionAssumption
  <2> QED BY <2>1
<1>2. c \in Seq(R) /\ Once(c) /\ Worths(R)
  BY <1>1, CoinsAre
<1> HIDE DEF c, R
<1>3. Reach(c) \in Nat
  BY <1>2, SeqCoins, ReachIs
<1>4. want \in Nat /\ want > 0
  BY <1>3 DEF c
<1>5. WellSelected(findEligibleUtxos(want, c), c, want)
  BY <1>2, <1>4, SelectsWell
<1> QED BY <1>5 DEF c

(* For any wallets and amounts findEligibleUtxos covers the amount if any  *)
(* K coins do, with K coins at most, none of them twice and none that      *)
(* could be left out: topKSelector's heap drops only coins that the K it   *)
(* keeps make useless.                                                     *)
THEOREM SelectionsAreOptimal == Spec => []SelectionOptimal
<1>1. SelectionOptimal
  BY NoneMisselected DEF SelectionOptimal
<1> QED BY <1>1, PTL

(***************************************************************************)
(* Fees                                                                    *)
(***************************************************************************)
(* The constants that fees are made of are numbers. *)
LEMMA FeeConstants ==
    /\ K \in Nat /\ K > 0 /\ MinRelayTxFee \in Nat /\ MinRelayTxFee > 0 /\ FeeUnit \in Nat /\ FeeUnit > 0
    /\ InputSize \in Nat /\ OutputSize \in Nat /\ BaseSize \in Nat /\ DustLimit \in Nat
BY SelectionAssumption

(* Multiplication is monotone. *)
LEMMA TimesMono ==
    ASSUME NEW a \in Nat, NEW b \in Nat, NEW d \in Nat, a <= b
    PROVE  a * d \in Nat /\ b * d \in Nat /\ a * d <= b * d
<1>1. PICK z \in Nat : b = a + z
  <2>1. b - a \in Nat /\ b = a + (b - a)
    OBVIOUS
  <2> QED BY <2>1
<1>2. (a + z) * d = a * d + z * d /\ a * d \in Nat /\ z * d \in Nat
  OBVIOUS
<1> QED BY <1>1, <1>2

(* Quotient and remainder. *)
LEMMA DivIs ==
    ASSUME NEW n \in Nat, NEW d \in Nat, d > 0
    PROVE  /\ n \div d \in Nat /\ n % d \in Nat /\ n % d < d
           /\ n = d * (n \div d) + (n % d)
OBVIOUS

(* Division is monotone. *)
LEMMA DivMono ==
    ASSUME NEW x \in Nat, NEW y \in Nat, NEW d \in Nat, d > 0, x <= y
    PROVE  x \div d <= y \div d
<1> DEFINE p == x \div d
           q == y \div d
           a == x % d
           b == y % d
<1>1. p \in Nat /\ a \in Nat /\ a < d /\ x = d * p + a
  BY DivIs
<1>2. q \in Nat /\ b \in Nat /\ b < d /\ y = d * q + b
  BY DivIs
<1> HIDE DEF p, q, a, b
<1>3. ASSUME ~(p <= q) PROVE FALSE
  <2>1. q + 1 <= p /\ q + 1 \in Nat
    BY <1>1, <1>2, <1>3
  <2>2. (q + 1) * d <= p * d
    BY <1>1, <2>1, TimesMono
  <2>3. (q + 1) * d = d * q + d /\ p * d = d * p /\ d * q \in Nat /\ d * p \in Nat
    BY <1>1, <1>2
  <2> DEFINE u == d * q
             v == d * p
             s == (q + 1) * d
             t == p * d
  <2>4. s <= t /\ s = u + d /\ t = v /\ u \in Nat /\ v \in Nat /\ x = v + a /\ y = u + b
    BY <1>1, <1>2, <2>2, <2>3
  <2> HIDE DEF u, v, s, t
  <2> QED BY <1>1, <1>2, <2>4
<1> QED BY <1>3 DEF p, q

(* The larger of two numbers. *)
LEMMA MaxTwo ==
    ASSUME NEW a \in Nat, NEW b \in Nat
    PROVE  Max({a, b}) = IF a >= b THEN a ELSE b
<1> DEFINE m == IF a >= b THEN a ELSE b
           V == {a, b}
<1>1. m \in V /\ \A y \in V : m >= y
  OBVIOUS
<1>2. \E x \in V : \A y \in V : x >= y
  <2> HIDE DEF m, V
  <2> QED BY <1>1
<1>3. Max(V) \in V /\ \A y \in V : Max(V) >= y
  <2> HIDE DEF V
  <2> QED BY <1>2 DEF Max
<1> DEFINE z == Max(V)
<1>4. z \in V /\ \A y \in V : z >= y
  BY <1>3
<1> HIDE DEF z, m
<1>5. z = m
  <2>1. z >= m /\ m >= z /\ z \in Nat /\ m \in Nat
    BY <1>1, <1>4
  <2> QED BY <2>1
<1> QED BY <1>5 DEF z, m

(* The larger of one number. *)
LEMMA MaxOne ==
    ASSUME NEW a \in Nat
    PROVE  Max({a}) = a
<1>1. Max({a, a}) = a
  BY MaxTwo
<1>2. {a, a} = {a}
  OBVIOUS
<1> QED BY <1>1, <1>2

(* The fee is the whole units that a size costs, and not less than the      *)
(* relay fee when it costs less than one.                                  *)
LEMMA RelayFeeIs ==
    ASSUME NEW size \in Nat
    PROVE  /\ CalcMinRequiredTxRelayFee(size) \in Nat /\ CalcMinRequiredTxRelayFee(size) > 0
           /\ \/ CalcMinRequiredTxRelayFee(size) = MinRelayTxFee
              \/ CalcMinRequiredTxRelayFee(size) = (size * MinRelayTxFee) \div FeeUnit
           /\ (size * MinRelayTxFee) \div FeeUnit <= CalcMinRequiredTxRelayFee(size)
<1> DEFINE x == size * MinRelayTxFee
           q == x \div FeeUnit
           a == x % FeeUnit
           f == CalcMinRequiredTxRelayFee(size)
<1>1. /\ MinRelayTxFee \in Nat /\ MinRelayTxFee > 0 /\ FeeUnit \in Nat /\ FeeUnit > 0 /\ x \in Nat
  BY FeeConstants
<1>0. f = Max({q} \cup (IF x < FeeUnit THEN {MinRelayTxFee} ELSE {}))
  BY DEF CalcMinRequiredTxRelayFee
<1> HIDE DEF x
<1>2. q \in Nat /\ a \in Nat /\ a < FeeUnit /\ x = FeeUnit * q + a
  BY <1>1, DivIs
<1> HIDE DEF q, a, f
<1>3. CASE x < FeeUnit
  <2>1. {q} \cup {MinRelayTxFee} = {q, MinRelayTxFee}
    OBVIOUS
  <2>2. f = Max({q, MinRelayTxFee})
    BY <1>0, <1>3, <2>1
  <2>3. f = IF q >= MinRelayTxFee THEN q ELSE MinRelayTxFee
    BY <1>1, <1>2, <2>2, MaxTwo
  <2>4. f \in Nat /\ f > 0 /\ (f = MinRelayTxFee \/ f = q) /\ q <= f
    BY <1>1, <1>2, <2>3
  <2> QED BY <2>4 DEF f, q, x
<1>4. CASE ~(x < FeeUnit)
  <2>1. {q} \cup {} = {q}
    OBVIOUS
  <2>2. f = q
    BY <1>0, <1>2, <1>4, <2>1, MaxOne
  <2>3. q > 0
    <3> SUFFICES ASSUME q = 0 PROVE FALSE
      BY <1>2
    <3>1. FeeUnit * q = 0
      BY <1>1
    <3> QED BY <1>1, <1>2, <1>4, <3>1
  <2>4. f \in Nat /\ f > 0 /\ f = q /\ q <= f
    BY <1>2, <2>2, <2>3
  <2> QED BY <2>4 DEF f, q, x
<1> QED BY <1>3, <1>4

(* A size is a number. *)
LEMMA SizeIs ==
    ASSUME NEW i \in Nat, NEW o \in Nat
    PROVE  estimateSignedSize(i, o) \in Nat
BY FeeConstants DEF estimateSignedSize

(* A required fee is positive. *)
LEMMA RequiredFeeIs ==
    ASSUME NEW i \in Nat, NEW o \in Nat
    PROVE  RequiredFee(i, o) \in Nat /\ RequiredFee(i, o) > 0
BY SizeIs, RelayFeeIs DEF RequiredFee

(* More inputs and outputs are no smaller. *)
LEMMA SizeMono ==
    ASSUME NEW i \in Nat, NEW j \in Nat, NEW o \in Nat, NEW p \in Nat, i <= j, o <= p
    PROVE  estimateSignedSize(i, o) <= estimateSignedSize(j, p)
<1>1. i * InputSize \in Nat /\ j * InputSize \in Nat /\ i * InputSize <= j * InputSize
  BY FeeConstants, TimesMono
<1>2. o * OutputSize \in Nat /\ p * OutputSize \in Nat /\ o * OutputSize <= p * OutputSize
  BY FeeConstants, TimesMono
<1> DEFINE a == i * InputSize
           b == j * InputSize
           d == o * OutputSize
           e == p * OutputSize
<1>3. a <= b /\ d <= e /\ a \in Nat /\ b \in Nat /\ d \in Nat /\ e \in Nat
  BY <1>1, <1>2
<1>4. BaseSize \in Nat
  BY FeeConstants
<1>5. estimateSignedSize(i, o) = a + d + BaseSize /\ estimateSignedSize(j, p) = b + e + BaseSize
  BY DEF estimateSignedSize
<1> HIDE DEF a, b, d, e
<1>6. a + d + BaseSize <= b + e + BaseSize
  BY <1>3, <1>4
<1> QED BY <1>5, <1>6

(* No transaction of the wallet has to pay more. *)
LEMMA LargestFeeIs ==
    ASSUME NEW n \in Nat, NEW i \in 0..K, NEW o \in 0..(n + 1), NEW outs, Len(outs) = n
    PROVE  /\ LargestFee(outs) \in Nat /\ LargestFee(outs) > 0 /\ MinRelayTxFee <= LargestFee(outs)
           /\ RequiredFee(i, o) <= LargestFee(outs)
<1> DEFINE L == LargestFee(outs)
           top == RequiredFee(K, n + 1)
           f == RequiredFee(i, o)
           M == MinRelayTxFee
           s == estimateSignedSize(i, o)
           t == estimateSignedSize(K, n + 1)
           p == (s * M) \div FeeUnit
           q == (t * M) \div FeeUnit
<1>1. /\ M \in Nat /\ M > 0 /\ K \in Nat /\ n + 1 \in Nat /\ i \in Nat /\ o \in Nat /\ i <= K /\ o <= n + 1
      /\ FeeUnit \in Nat /\ FeeUnit > 0
  BY FeeConstants
<1>2. s \in Nat /\ t \in Nat /\ s <= t
  BY <1>1, SizeIs, SizeMono
<1>3. top \in Nat /\ f \in Nat
  BY <1>1, RequiredFeeIs
<1>4. L = IF M >= top THEN M ELSE top
  BY <1>1, <1>3, MaxTwo DEF LargestFee
<1> HIDE DEF s, t
<1>5. f = M \/ f = p
  BY <1>2, RelayFeeIs DEF RequiredFee, s
<1>6. q <= top
  BY <1>2, RelayFeeIs DEF RequiredFee, t
<1>7. p <= q /\ p \in Nat /\ q \in Nat
  <2> DEFINE x == s * M
             y == t * M
  <2>1. x \in Nat /\ y \in Nat /\ x <= y
    BY <1>1, <1>2, TimesMono
  <2> HIDE DEF x, y
  <2>2. x \div FeeUnit <= y \div FeeUnit /\ x \div FeeUnit \in Nat /\ y \div FeeUnit \in Nat
    BY <1>1, <2>1, DivMono, DivIs
  <2> QED BY <2>2 DEF x, y
<1> HIDE DEF L, f, top, p, q, M
<1>8. L \in Nat /\ L > 0 /\ M <= L /\ f <= L
  BY <1>1, <1>3, <1>4, <1>5, <1>6, <1>7
<1> QED BY <1>8 DEF L, f, M

(***************************************************************************)
(* Automatic transactions                                                  *)
(***************************************************************************)
(* The four ends of a turn that asks for the fee t and a change of d. *)
Refused(a, c, W) ==
    a.err \in {"ErrOverfullUtxo", "ErrInsufficientFunds"} /\ Reach(c) < W

Asks(a, t, d) == a.err = "retry" /\ d = 0 /\ a.target = t /\ a.adj = MinRelayTxFee

Raises(a, t, L) == a.err = "retry" /\ a.target \in Nat /\ a.target > t /\ a.target <= L /\ a.adj = 0

Makes(a, c, outs, t) ==
    /\ a.err = "none" /\ a.outs = outs /\ a.fee = t /\ Balanced(a)
    /\ a.change \in Nat /\ (a.change = 0 \/ a.change >= MinRelayTxFee)
    /\ Range(a.coins) \subseteq Range(c)

(* A turn refuses, asks for a change, asks for a larger fee, or makes the  *)
(* transaction.                                                            *)
LEMMA AttemptIs ==
    ASSUME NEW R, Worths(R), NEW c \in Seq(R), Once(c), NEW outs \in Seq(Nat),
           NEW t \in Nat, t > 0, NEW d \in {0, MinRelayTxFee}
    PROVE  LET a == Attempt(c, outs, t, d)
           IN  \/ Refused(a, c, t + SeqSum(outs) + d) \/ Asks(a, t, d)
               \/ Raises(a, t, LargestFee(outs)) \/ Makes(a, c, outs, t)
<1> DEFINE sum == SeqSum(outs)
           want == t + sum
           W == want + d
           r == findEligibleUtxos(W, c)
           a == Attempt(c, outs, t, d)
           M == MinRelayTxFee
           change == r.found - want
           u == Items(c, W)
           L == LargestFee(outs)
           n == Len(outs)
<1>1. sum \in Nat /\ M \in Nat /\ M > 0 /\ n \in Nat /\ K \in Nat
  BY SumNat, FeeConstants
<1>2. a = Outcome(r, outs, t, d, want)
  BY DEF Attempt
<1> HIDE DEF sum, M, L, n
<1>3. want \in Nat /\ W \in Nat /\ W > 0 /\ d \in Nat
  BY <1>1 DEF M
<1> HIDE DEF want, W, u, r
<1>4. WellSelected(r, c, W)
  BY <1>3, SelectsWell DEF r
<1>5. /\ r.coins \in Seq(R) /\ Range(r.coins) \subseteq Range(c) /\ r.found = Total(r.coins)
  BY <1>3, SelectionIs DEF r
<1>6. r.found \in Nat /\ Len(r.coins) \in Nat /\ Len(r.coins) <= K /\ CoinList(r.coins)
  <2>1. CoinList(r.coins) /\ Len(r.coins) \in Nat
    BY <1>5, SeqCoins
  <2>2. Total(r.coins) \in Nat
    BY <2>1, TotalIs, SumOfNat
  <2>3. Len(r.coins) <= K
    BY <1>4 DEF WellSelected
  <2> QED BY <1>5, <2>1, <2>2, <2>3
<1>7. Reach(c) \in Nat
  BY SeqCoins, ReachIs
<1>8. CASE r.found < W
  <2>1. a = Failure(IF r.overfull THEN "ErrOverfullUtxo" ELSE "ErrInsufficientFunds")
    BY <1>2, <1>8 DEF Outcome, W
  <2>2. a.err \in {"ErrOverfullUtxo", "ErrInsufficientFunds"}
    BY <2>1 DEF Failure
  <2>3. r.found >= W <=> Reach(c) >= W
    BY <1>4 DEF WellSelected
  <2>4. Reach(c) < W
    <3> DEFINE x == r.found
               y == Reach(c)
    <3>1. x \in Nat /\ y \in Nat /\ x < W /\ (x >= W <=> y >= W)
      BY <1>6, <1>7, <1>8, <2>3
    <3> HIDE DEF x, y
    <3>2. y < W
      BY <1>3, <3>1
    <3> QED BY <3>2 DEF y
  <2> QED BY <2>2, <2>4 DEF Refused, W, want, sum
<1>9. CASE ~(r.found < W)
  <2>1. change \in Nat /\ change >= d /\ r.found = want + change
    <3> DEFINE x == r.found
    <3>1. x \in Nat /\ ~(x < want + d)
      BY <1>6, <1>9 DEF W
    <3> HIDE DEF x
    <3>2. x - want \in Nat /\ x - want >= d /\ x = want + (x - want)
      BY <1>3, <3>1
    <3> QED BY <3>2 DEF x
  <2>2. ~(r.found < want + d)
    BY <1>9 DEF W
  <2> DEFINE fee == PickedFee(r.coins, outs, change)
             o == n + (IF change # 0 THEN 1 ELSE 0)
             i == Len(r.coins)
  <2>3. fee = RequiredFee(i, o) /\ i \in 0..K /\ o \in 0..(n + 1) /\ o \in Nat
    BY <1>1, <1>6 DEF PickedFee, n
  <2>4. L \in Nat /\ fee \in Nat /\ fee <= L
    <3> HIDE DEF i, o
    <3>1. RequiredFee(i, o) \in Nat
      BY <1>1, <2>3, RequiredFeeIs
    <3>2. L \in Nat /\ RequiredFee(i, o) <= L
      BY <1>1, <2>3, LargestFeeIs DEF L, n
    <3> QED BY <2>3, <3>1, <3>2
  <2>5. CASE change # 0 /\ change < M
    <3>1. a = [err |-> "retry", target |-> t, adj |-> MinRelayTxFee]
      BY <1>2, <2>2, <2>5 DEF Outcome, M
    <3>2. d = 0
      <4> HIDE DEF change
      <4>1. d # M
        BY <1>1, <2>1, <2>5
      <4> QED BY <4>1 DEF M
    <3>3. Asks(a, t, d)
      BY <3>1, <3>2 DEF Asks
    <3> QED BY <3>3
  <2>6. CASE ~(change # 0 /\ change < M) /\ t < fee
    <3>1. a = [err |-> "retry", target |-> fee, adj |-> 0]
      BY <1>2, <2>2, <2>6 DEF Outcome, M
    <3> HIDE DEF fee
    <3>2. fee > t
      BY <2>4, <2>6
    <3>3. Raises(a, t, L)
      BY <2>4, <3>1, <3>2 DEF Raises
    <3> QED BY <3>3 DEF L
  <2>7. CASE ~(change # 0 /\ change < M) /\ ~(t < fee)
    <3>1. a = Made(r.coins, outs, change, t)
      BY <1>2, <2>2, <2>7 DEF Outcome, M
    <3>2. a.err = "none" /\ a.coins = r.coins /\ a.outs = outs /\ a.change = change /\ a.fee = t
      BY <3>1 DEF Made
    <3> HIDE DEF change, a
    <3>3. change = 0 \/ change >= M
      BY <1>1, <2>1, <2>7
    <3>4. Total(r.coins) = SeqSum(outs) + change + t
      <4>1. r.found = sum + change + t
        BY <1>1, <2>1 DEF want
      <4> QED BY <1>5, <4>1 DEF sum
    <3>5. t >= RequiredFee(Len(r.coins), Len(outs) + (IF change # 0 THEN 1 ELSE 0))
      <4> HIDE DEF fee
      <4>1. t >= fee
        BY <2>4, <2>7
      <4> QED BY <2>3, <4>1 DEF n
    <3>6. Balanced(a)
      BY <3>2, <3>4, <3>5 DEF Balanced
    <3>7. Makes(a, c, outs, t)
      BY <1>5, <2>1, <3>2, <3>3, <3>6 DEF Makes, M
    <3> QED BY <3>7 DEF a
  <2> QED BY <2>5, <2>6, <2>7
<1> QED BY <1>8, <1>9

(* What turn n may have come to: the fee asked for never falls below the    *)
(* first, and one that is tried again has grown with the turns.            *)
Bit(adj) == IF adj = MinRelayTxFee THEN 1 ELSE 0

Turned(c, outs, first, n, a) ==
    /\ \E t \in Nat \ {0}, d \in {0, MinRelayTxFee} :
          /\ a = Attempt(c, outs, t, d)
          /\ t >= first /\ (t = first \/ t <= LargestFee(outs))
    /\ a.err = "retry" =>
          /\ a.target \in Nat \ {0} /\ a.adj \in {0, MinRelayTxFee} /\ a.target >= first
          /\ \/ n = 0 /\ a.target = first /\ a.adj = MinRelayTxFee
             \/ a.target <= LargestFee(outs) /\ 2 * a.target + Bit(a.adj) >= n + 2

(* The first turn. *)
LEMMA TurnStart ==
    ASSUME NEW R, Worths(R), NEW c \in Seq(R), Once(c), NEW outs \in Seq(Nat), NEW first \in Nat \ {0}
    PROVE  Turned(c, outs, first, 0, Attempt(c, outs, first, 0))
<1> DEFINE a == Attempt(c, outs, first, 0)
           L == LargestFee(outs)
           W == first + SeqSum(outs) + 0
<1>1. MinRelayTxFee \in Nat /\ MinRelayTxFee > 0 /\ first > 0 /\ first >= first /\ 0 \in {0, MinRelayTxFee}
  BY FeeConstants
<1>2. Refused(a, c, W) \/ Asks(a, first, 0) \/ Raises(a, first, L) \/ Makes(a, c, outs, first)
  <2> DEFINE z == 0
  <2>1. z \in {0, MinRelayTxFee}
    OBVIOUS
  <2> HIDE DEF z
  <2>2. LET b == Attempt(c, outs, first, z)
        IN  \/ Refused(b, c, first + SeqSum(outs) + z) \/ Asks(b, first, z)
            \/ Raises(b, first, LargestFee(outs)) \/ Makes(b, c, outs, first)
    BY <1>1, <2>1, AttemptIs
  <2> QED BY <2>2 DEF z
<1> HIDE DEF a, L, W
<1>3. ASSUME a.err = "retry"
      PROVE  /\ a.target \in Nat \ {0} /\ a.adj \in {0, MinRelayTxFee} /\ a.target >= first
             /\ \/ 0 = 0 /\ a.target = first /\ a.adj = MinRelayTxFee
                \/ a.target <= L /\ 2 * a.target + Bit(a.adj) >= 0 + 2
  <2>1. CASE Asks(a, first, 0)
    BY <1>1, <2>1 DEF Asks
  <2>2. CASE Raises(a, first, L)
    <3> DEFINE x == a.target
    <3>1. x \in Nat /\ x > first /\ x <= L /\ a.adj = 0
      BY <2>2 DEF Raises
    <3>2. Bit(a.adj) = 0
      BY <1>1, <3>1 DEF Bit
    <3> HIDE DEF x
    <3>3. x \in Nat \ {0} /\ x >= first /\ 2 * x + 0 >= 0 + 2
      BY <1>1, <3>1
    <3> QED BY <3>1, <3>2, <3>3 DEF x
  <2>3. ~Refused(a, c, W) /\ ~Makes(a, c, outs, first)
    BY <1>3 DEF Refused, Makes
  <2> QED BY <1>2, <2>1, <2>2, <2>3
<1> QED BY <1>1, <1>3 DEF Turned, a, L

(* A further turn. *)
LEMMA TurnAgain ==
    ASSUME NEW R, Worths(R), NEW c \in Seq(R), Once(c), NEW outs \in Seq(Nat), NEW first \in Nat \ {0},
           NEW n \in Nat, NEW a, Turned(c, outs, first, n, a)
    PROVE  Turned(c, outs, first, n + 1, NextTurn(c, outs, a))
<1> DEFINE b == NextTurn(c, outs, a)
           L == LargestFee(outs)
<1>1. MinRelayTxFee \in Nat /\ MinRelayTxFee > 0 /\ Bit(0) = 0 /\ Bit(MinRelayTxFee) = 1
  BY FeeConstants DEF Bit
<1>2. CASE a.err # "retry"
  <2>1. b = a
    BY <1>2 DEF NextTurn
  <2> QED BY <1>2, <2>1 DEF Turned
<1>3. CASE a.err = "retry"
  <2> DEFINE t == a.target
             d == a.adj
             W == t + SeqSum(outs) + d
  <2>1. b = Attempt(c, outs, t, d)
    BY <1>3 DEF NextTurn
  <2>2. /\ t \in Nat \ {0} /\ d \in {0, MinRelayTxFee} /\ t >= first
        /\ \/ n = 0 /\ t = first /\ d = MinRelayTxFee
           \/ t <= L /\ 2 * t + Bit(d) >= n + 2
    BY <1>3 DEF Turned
  <2> HIDE DEF t, d, b
  <2>3. t \in Nat /\ t > 0 /\ (t = first \/ t <= L)
    BY <2>2
  <2>4. Refused(b, c, W) \/ Asks(b, t, d) \/ Raises(b, t, L) \/ Makes(b, c, outs, t)
    BY <2>1, <2>2, <2>3, AttemptIs
  <2> HIDE DEF L, W
  <2>5. ASSUME b.err = "retry"
        PROVE  /\ b.target \in Nat \ {0} /\ b.adj \in {0, MinRelayTxFee} /\ b.target >= first
               /\ b.target <= L /\ 2 * b.target + Bit(b.adj) >= (n + 1) + 2
    <3>1. CASE Asks(b, t, d)
      <4>1. d = 0 /\ b.target = t /\ b.adj = MinRelayTxFee
        BY <3>1 DEF Asks
      <4>2. t <= L /\ 2 * t + 0 >= n + 2
        BY <1>1, <2>2, <4>1
      <4>3. 2 * t + 1 >= (n + 1) + 2
        BY <2>3, <4>2
      <4> QED BY <1>1, <2>2, <4>1, <4>2, <4>3
    <3>2. CASE Raises(b, t, L)
      <4> DEFINE x == b.target
                 y == Bit(d)
      <4>1. x \in Nat /\ x > t /\ x <= L /\ b.adj = 0
        BY <3>2 DEF Raises
      <4>2. y \in Nat /\ y <= 1
        BY DEF Bit
      <4>3. n = 0 \/ 2 * t + y >= n + 2
        BY <2>2
      <4> HIDE DEF x, y
      <4>4. 2 * x + 0 >= (n + 1) + 2 /\ x >= first /\ x \in Nat \ {0}
        BY <2>2, <2>3, <4>1, <4>2, <4>3
      <4> QED BY <1>1, <4>1, <4>4 DEF x
    <3>3. ~Refused(b, c, W) /\ ~Makes(b, c, outs, t)
      BY <2>5 DEF Refused, Makes
    <3> QED BY <2>4, <3>1, <3>2, <3>3
  <2>6. \E s \in Nat \ {0}, e \in {0, MinRelayTxFee} :
           b = Attempt(c, outs, s, e) /\ s >= first /\ (s = first \/ s <= LargestFee(outs))
    BY <2>1, <2>2, <2>3 DEF L
  <2> QED BY <2>5, <2>6 DEF Turned, L, b
<1> QED BY <1>2, <1>3

(* The loop over the fee ends: within its turns no turn is to be tried     *)
(* again.                                                                  *)
LEMMA ConstructEnds ==
    ASSUME NEW R, Worths(R), NEW c \in Seq(R), Once(c), NEW outs \in Seq(Nat), NEW first \in Nat \ {0}
    PROVE  \E t \in Nat \ {0}, d \in {0, MinRelayTxFee} :
              /\ Construct(c, outs, first, 0) = Attempt(c, outs, t, d)
              /\ t >= first /\ (t = first \/ t <= LargestFee(outs))
              /\ Construct(c, outs, first, 0).err # "retry"
<1> DEFINE L == LargestFee(outs)
           m == 2 * L
           z == Attempt(c, outs, first, 0)
           S == {Attempt(c, outs, t, d) : t \in Nat \ {0}, d \in {0, MinRelayTxFee}}
           F == [p \in S \X (1..m) |-> IF NextTurn(c, outs, p[1]) \in S THEN NextTurn(c, outs, p[1]) ELSE p[1]]
           Loop(f) == f = [n \in 0..m |-> IF n = 0 THEN z ELSE NextTurn(c, outs, f[n - 1])]
<1>1. L \in Nat /\ L > 0 /\ MinRelayTxFee \in Nat
  <2> DEFINE k == Len(outs)
             x == 0
  <2>1. k \in Nat /\ x \in 0..K /\ x \in 0..(k + 1) /\ Len(outs) = k
    BY FeeConstants
  <2> HIDE DEF k, x
  <2>2. L \in Nat /\ L > 0
    BY <2>1, LargestFeeIs
  <2> QED BY <2>2, FeeConstants
<1> HIDE DEF L
<1>2. m \in Nat /\ 0 \in 0..m /\ m \in 0..m
  BY <1>1
<1>3. Turned(c, outs, first, 0, z)
  BY TurnStart
<1>4. z \in S
  OBVIOUS
<1> HIDE DEF z, m
<1>5. F \in [S \X (1..m) -> S]
  <2> HIDE DEF S
  <2> QED OBVIOUS
<1>6. PICK f \in [0..m -> S] : Unrolls(f, m, z, F)
  <2> HIDE DEF S, F
  <2> QED BY <1>2, <1>4, <1>5, TurnsExist
<1>7. \A i \in 0..m : f[i] = IF i = 0 THEN z ELSE F[<<f[i - 1], i>>]
  <2> HIDE DEF S, F
  <2> QED BY <1>6 DEF Unrolls
<1>8. \A n : \A a : Turned(c, outs, first, n, a) => a \in S
  BY DEF Turned
<1> HIDE DEF S
<1> DEFINE G == {i \in 0..m : Turned(c, outs, first, i, f[i]) /\ (i # 0 => f[i] = NextTurn(c, outs, f[i - 1]))}
<1>9. 0 \in G
  <2> HIDE DEF F
  <2> QED BY <1>2, <1>3, <1>7
<1>10. ASSUME NEW i \in 0..(m - 1), i \in G PROVE i + 1 \in G
  <2>1. i + 1 \in 0..m /\ i + 1 \in 1..m /\ i + 1 # 0 /\ (i + 1) - 1 = i /\ i \in 0..m /\ i \in Nat
    BY <1>2
  <2>2. f[i] \in S /\ Turned(c, outs, first, i, f[i])
    BY <1>10, <2>1
  <2>3. Turned(c, outs, first, i + 1, NextTurn(c, outs, f[i]))
    BY <2>1, <2>2, TurnAgain
  <2>4. NextTurn(c, outs, f[i]) \in S
    BY <1>8, <2>3
  <2>5. F[<<f[i], i + 1>>] = NextTurn(c, outs, f[i])
    BY <2>1, <2>2, <2>4
  <2> HIDE DEF F
  <2>6. f[i + 1] = NextTurn(c, outs, f[i])
    BY <1>7, <2>1, <2>5
  <2> QED BY <2>1, <2>3, <2>6
<1>11. \A i \in 0..m : i \in G
  <2> HIDE DEF G
  <2> QED BY <1>2, <1>9, <1>10, Turn
<1>12. Loop(f)
  <2> HIDE DEF F
  <2>1. \A i \in 0..m : f[i] = IF i = 0 THEN z ELSE NextTurn(c, outs, f[i - 1])
    BY <1>2, <1>7, <1>11
  <2> QED BY <1>6, <2>1
<1>13. Loop(CHOOSE g : Loop(g))
  <2> HIDE DEF Loop
  <2> QED BY <1>12
<1>14. Construct(c, outs, first, 0) = (CHOOSE g : Loop(g))[m]
  BY DEF Construct, z, m, L
<1> DEFINE s == CHOOSE g : Loop(g)
<1>15. Construct(c, outs, first, 0) = s[m] /\ Loop(s)
  BY <1>13, <1>14
<1> HIDE DEF s, Loop
<1>16. \A i \in 0..m : s[i] = IF i = 0 THEN z ELSE NextTurn(c, outs, s[i - 1])
  BY <1>15 DEF Loop
<1> DEFINE H == {i \in 0..m : Turned(c, outs, first, i, s[i])}
<1>17. 0 \in H
  BY <1>2, <1>3, <1>16
<1>18. ASSUME NEW i \in 0..(m - 1), i \in H PROVE i + 1 \in H
  <2>1. i + 1 \in 0..m /\ i + 1 # 0 /\ (i + 1) - 1 = i /\ i \in Nat
    BY <1>2
  <2>2. s[i + 1] = NextTurn(c, outs, s[i])
    BY <1>16, <2>1
  <2>3. Turned(c, outs, first, i + 1, s[i + 1])
    BY <1>18, <2>1, <2>2, TurnAgain
  <2> QED BY <2>1, <2>3
<1>19. Turned(c, outs, first, m, s[m])
  <2>1. \A i \in 0..m : i \in H
    <3> HIDE DEF H
    <3> QED BY <1>2, <1>17, <1>18, Turn
  <2> QED BY <1>2, <2>1
<1>20. s[m].err # "retry"
  <2> SUFFICES ASSUME s[m].err = "retry" PROVE FALSE
    OBVIOUS
  <2> DEFINE x == s[m].target
             y == Bit(s[m].adj)
  <2>1. x \in Nat /\ (m = 0 \/ (x <= L /\ 2 * x + y >= m + 2)) /\ y \in Nat /\ y <= 1
    BY <1>19 DEF Turned, L, Bit
  <2> HIDE DEF x, y
  <2>2. m = 2 * L
    BY DEF m
  <2> QED BY <1>1, <2>1, <2>2
<1> QED BY <1>15, <1>19, <1>20 DEF Turned

(* autoConstructTxInAndChangeTxOut balances, whatever the coins, payments  *)
(* and fee.                                                                *)
LEMMA AutoIsBalanced ==
    ASSUME NEW R, Worths(R), NEW c \in Seq(R), Once(c), NEW outs \in Seq(Nat), NEW userTxFee \in Nat
    PROVE  AutoBalanced(autoConstructTxInAndChangeTxOut(c, outs, userTxFee), c, outs, userTxFee)
<1> DEFINE first == FirstTarget(userTxFee)
           r == Construct(c, outs, first, 0)
           L == LargestFee(outs)
           M == MinRelayTxFee
           sum == SeqSum(outs)
           top == Max({userTxFee, L})
<1>1. /\ M \in Nat /\ M > 0 /\ sum \in Nat /\ L \in Nat /\ M <= L
  <2> DEFINE k == Len(outs)
             x == 0
  <2>1. k \in Nat /\ x \in 0..K /\ x \in 0..(k + 1) /\ Len(outs) = k
    BY FeeConstants
  <2> HIDE DEF k, x
  <2>2. L \in Nat /\ M <= L
    BY <2>1, LargestFeeIs
  <2> QED BY <2>2, FeeConstants, SumNat
<1>2. first = IF userTxFee = 0 THEN M ELSE userTxFee
  BY DEF FirstTarget
<1>3. first \in Nat \ {0} /\ first >= userTxFee
  BY <1>1, <1>2
<1>4. top = IF userTxFee >= L THEN userTxFee ELSE L
  BY <1>1, MaxTwo
<1> HIDE DEF first, r
<1>5. PICK t \in Nat \ {0}, d \in {0, MinRelayTxFee} :
         /\ r = Attempt(c, outs, t, d) /\ t >= first /\ (t = first \/ t <= L) /\ r.err # "retry"
  BY <1>3, ConstructEnds DEF r
<1>6. Refused(r, c, t + SeqSum(outs) + d) \/ Makes(r, c, outs, t)
  <2>1. t \in Nat /\ t > 0
    OBVIOUS
  <2>2. \/ Refused(r, c, t + SeqSum(outs) + d) \/ Asks(r, t, d)
        \/ Raises(r, t, L) \/ Makes(r, c, outs, t)
    BY <1>5, <2>1, AttemptIs
  <2> QED BY <1>5, <2>2 DEF Asks, Raises
<1>7. autoConstructTxInAndChangeTxOut(c, outs, userTxFee) = r
  BY DEF autoConstructTxInAndChangeTxOut, r, first
<1>8. CASE Makes(r, c, outs, t)
  <2>1. /\ r.err = "none" /\ Balanced(r) /\ r.fee = t
        /\ r.change = 0 \/ r.change >= MinRelayTxFee
    BY <1>8 DEF Makes
  <2>2. r.fee >= userTxFee
    BY <1>3, <1>5, <2>1
  <2> QED BY <1>7, <2>1, <2>2 DEF AutoBalanced
<1>9. CASE Refused(r, c, t + SeqSum(outs) + d)
  <2> DEFINE x == Reach(c)
  <2>1. r.err # "none" /\ x < t + sum + d
    BY <1>9 DEF Refused
  <2>2. x \in Nat
    BY SeqCoins, ReachIs
  <2>3. d \in Nat /\ d <= M
    BY <1>1
  <2> HIDE DEF x, sum, top, L, M
  <2>4. t <= top /\ top \in Nat
    BY <1>1, <1>2, <1>4, <1>5
  <2>5. x < sum + M + top
    BY <1>1, <2>1, <2>2, <2>3, <2>4
  <2> QED BY <1>7, <2>1, <2>5 DEF AutoBalanced, x, sum, top, L, M
<1> QED BY <1>6, <1>8, <1>9

(***************************************************************************)
(* Transactions of named coins                                             *)
(***************************************************************************)
(* A value in the places F, zero elsewhere. *)
Even(n, F, e) == [i \in 1..n |-> IF i \in F THEN e ELSE 0]

(* The sum of a value in so many places. *)
LEMMA SumEven ==
    ASSUME NEW n \in Nat, NEW F \in SUBSET (1..n), NEW e \in Nat
    PROVE  SeqSum(Even(n, F, e)) = e * Cardinality(F)
<1> DEFINE v == Even(n, F, e)
           P(i) == F \cap (1..i)
<1>1. v \in [1..n -> Nat] /\ \A i \in 1..n : v[i] = IF i \in F THEN e ELSE 0
  BY DEF Even
<1> HIDE DEF v
<1>2. v \in Seq(Nat) /\ Len(v) = n
  BY <1>1, FcnSeq
<1>3. PICK f \in [0..Len(v) -> Nat] : SeqSum(v) = f[Len(v)] /\ SumLoop(v, f)
  BY <1>2, SumTurns
<1>4. /\ f[0] = 0
      /\ \A i \in 0..(Len(v) - 1) : f[i + 1] = f[i] + v[i + 1] /\ f[i] \in Nat
  BY <1>2, <1>3, SumStep
<1>5. IsFiniteSet(F)
  <2>1. IsFiniteSet(1..n)
    BY UpTo
  <2> QED BY <2>1, FS_Subset
<1>6. \A i \in Nat : IsFiniteSet(P(i)) /\ Cardinality(P(i)) \in Nat
  BY <1>5, FS_Intersection, FS_CardinalityType
<1> DEFINE G == {i \in 0..n : f[i] = e * Cardinality(P(i))}
<1>7. 0 \in G
  <2>1. P(0) = {} /\ Cardinality({}) = 0 /\ e * 0 = 0
    BY FS_EmptySet
  <2> QED BY <1>4, <2>1
<1>8. ASSUME NEW i \in 0..(n - 1), i \in G PROVE i + 1 \in G
  <2>1. i + 1 \in 0..n /\ i + 1 \in 1..n /\ i \in Nat
    OBVIOUS
  <2>2. f[i + 1] = f[i] + v[i + 1] /\ f[i] = e * Cardinality(P(i))
    BY <1>2, <1>4, <1>8
  <2> DEFINE k == Cardinality(P(i))
             l == Cardinality(P(i + 1))
  <2>3. CASE i + 1 \in F
    <3>1. P(i + 1) = P(i) \cup {i + 1} /\ i + 1 \notin P(i)
      BY <2>1, <2>3
    <3>2. l = k + 1
      <4> DEFINE Q == P(i)
      <4>1. IsFiniteSet(Q) /\ i + 1 \notin Q
        BY <1>6, <2>1, <3>1
      <4> HIDE DEF Q
      <4>2. Cardinality(Q \cup {i + 1}) = Cardinality(Q) + 1
        BY <4>1, FS_AddElement
      <4> QED BY <3>1, <4>2 DEF Q
    <3>3. k \in Nat
      BY <1>6, <2>1
    <3>4. f[i + 1] = e * k + e
      <4>1. v[i + 1] = e
        BY <1>1, <2>1, <2>3
      <4>2. f[i] = e * k
        BY <2>2
      <4> HIDE DEF k
      <4> QED BY <2>2, <4>1, <4>2
    <3> HIDE DEF k, l
    <3>5. e * (k + 1) = e * k + e
      BY <3>3
    <3> QED BY <2>1, <3>2, <3>4, <3>5 DEF l
  <2>4. CASE i + 1 \notin F
    <3>1. P(i + 1) = P(i)
      <4>1. \A j \in 1..(i + 1) : j \in 1..i \/ j = i + 1
        BY <2>1
      <4>2. 1..i \subseteq 1..(i + 1)
        BY <2>1
      <4> QED BY <2>4, <4>1, <4>2
    <3>2. v[i + 1] = 0
      BY <1>1, <2>1, <2>4
    <3>3. k \in Nat /\ e * k \in Nat
      <4>1. k \in Nat
        BY <1>6, <2>1
      <4> HIDE DEF k
      <4> QED BY <4>1
    <3>4. f[i + 1] = e * k
      <4> HIDE DEF k
      <4>1. f[i + 1] = e * k + 0
        BY <2>2, <3>2 DEF k
      <4> QED BY <3>3, <4>1
    <3> QED BY <2>1, <3>1, <3>4
  <2> QED BY <2>3, <2>4
<1>9. n \in G
  <2> HIDE DEF G
  <2>1. \A i \in 0..n : i \in G
    BY <1>7, <1>8, Turn
  <2> QED BY <2>1
<1>10. P(n) = F
  OBVIOUS
<1> QED BY <1>2, <1>3, <1>9, <1>10 DEF v

(* The receivers pay the fee in equal shares, rounded up. *)
LEMMA SharesCover ==
    ASSUME NEW fee \in Nat, NEW k \in Nat \ {0}
    PROVE  (fee + k - 1) \div k \in Nat /\ ((fee + k - 1) \div k) * k >= fee
<1> DEFINE x == fee + k - 1
           q == x \div k
           r == x % k
<1>1. x \in Nat /\ k > 0
  OBVIOUS
<1>2. q \in Nat /\ r \in Nat /\ r < k /\ x = k * q + r
  <2> HIDE DEF x
  <2> QED BY <1>1, DivIs
<1>3. k * q = q * k /\ q * k \in Nat
  BY <1>2
<1> DEFINE p == q * k
<1>4. x = p + r /\ p \in Nat /\ x = fee + k - 1
  BY <1>2, <1>3
<1> HIDE DEF q, r, p, x
<1>5. p >= fee
  BY <1>2, <1>4
<1> QED BY <1>2, <1>5 DEF p, q, x

(* What the receivers are left with, and what that pays. *)
LEMMA SubtractIs ==
    ASSUME NEW outs \in Seq(Nat), NEW from \in SUBSET (DOMAIN outs), NEW fee \in Nat,
           ~SubtractsTooMuch(outs, from, fee)
    PROVE  LET new == maybeSubtractFeeFromAmounts(outs, from, fee)
           IN  /\ new \in Seq(Nat) /\ Len(new) = Len(outs) /\ DOMAIN new = DOMAIN outs
               /\ \E paid \in Nat : /\ paid >= fee /\ TotalAndFee(outs, from, fee) = SeqSum(new) + paid
                                    /\ from # {} => SeqSum(outs) = SeqSum(new) + paid
<1> DEFINE n == Len(outs)
           e == eachSub(from, fee)
           new == maybeSubtractFeeFromAmounts(outs, from, fee)
           k == Cardinality(from)
<1>1. n \in Nat /\ DOMAIN outs = 1..n /\ outs \in [1..n -> Nat]
  OBVIOUS
<1>2. new = [i \in 1..n |-> IF i \in from THEN outs[i] - e ELSE outs[i]]
  BY <1>1 DEF maybeSubtractFeeFromAmounts
<1>3. CASE from = {}
  <2>1. new = outs
    BY <1>1, <1>2, <1>3
  <2>2. TotalAndFee(outs, from, fee) = SeqSum(outs) + fee /\ fee >= fee
    BY <1>3 DEF TotalAndFee
  <2> QED BY <1>3, <2>1, <2>2
<1>4. CASE from # {}
  <2>1. from \in SUBSET (1..n)
    BY <1>1
  <2>2. IsFiniteSet(from) /\ k \in Nat \ {0}
    <3>1. IsFiniteSet(1..n)
      <4> HIDE DEF n
      <4> QED BY <1>1, UpTo
    <3>2. IsFiniteSet(from)
      <4> HIDE DEF n
      <4> QED BY <2>1, <3>1, FS_Subset
    <3>3. k \in Nat
      BY <3>2, FS_CardinalityType
    <3>4. k # 0
      BY <1>4, <3>2, FS_EmptySet
    <3> QED BY <3>2, <3>3, <3>4
  <2>3. e \in Nat /\ e * k >= fee
    <3> HIDE DEF k
    <3>1. e = (fee + k - 1) \div k
      BY DEF eachSub, k
    <3> QED BY <2>2, <3>1, SharesCover
  <2>4. \A i \in from : outs[i] >= e
    <3>1. \A i \in from : ~(outs[i] < e) /\ outs[i] \in Nat
      BY <1>1, <2>1 DEF SubtractsTooMuch
    <3>2. \A x, y \in Nat : ~(x < y) => x >= y
      OBVIOUS
    <3> QED BY <2>3, <3>1, <3>2
  <2>5. TotalAndFee(outs, from, fee) = SeqSum(new) + e * k
    BY <1>4 DEF TotalAndFee
  <2> HIDE DEF e, new, n
  <2>6. /\ new \in [1..n -> Nat]
        /\ \A i \in 1..n : outs[i] = new[i] + Even(n, from, e)[i]
    <3>1. \A x, y \in Nat : x >= y => x - y \in Nat /\ x = (x - y) + y
      OBVIOUS
    <3>2. \A i \in from : outs[i] - e \in Nat /\ outs[i] = (outs[i] - e) + e
      BY <1>1, <2>1, <2>3, <2>4, <3>1
    <3>3. \A i \in 1..n : Even(n, from, e)[i] = IF i \in from THEN e ELSE 0
      BY DEF Even
    <3>4. \A i \in 1..n : new[i] = IF i \in from THEN outs[i] - e ELSE outs[i]
      BY <1>2
    <3>5. \A x \in Nat : x = x + 0
      OBVIOUS
    <3>6. new \in [1..n -> Nat]
      BY <1>1, <1>2, <3>2
    <3>7. ASSUME NEW i \in 1..n PROVE outs[i] = new[i] + Even(n, from, e)[i]
      <4>1. CASE i \in from
        BY <3>2, <3>3, <3>4, <4>1
      <4>2. CASE i \notin from
        <5>1. new[i] = outs[i] /\ Even(n, from, e)[i] = 0 /\ outs[i] \in Nat
          BY <1>1, <3>3, <3>4, <4>2
        <5> QED BY <3>5, <5>1
      <4> QED BY <4>1, <4>2
    <3> QED BY <3>6, <3>7
  <2>7. new \in Seq(Nat) /\ Len(new) = n
    BY <1>1, <2>6, FcnSeq
  <2>8. Even(n, from, e) \in Seq(Nat) /\ Len(Even(n, from, e)) = n
    <3>1. Even(n, from, e) \in [1..n -> Nat]
      BY <2>3 DEF Even
    <3> QED BY <1>1, <3>1, FcnSeq
  <2>9. SeqSum(outs) = SeqSum(new) + SeqSum(Even(n, from, e))
    <3> DEFINE w == Even(n, from, e)
    <3>1. w \in Seq(Nat) /\ Len(w) = n /\ \A i \in 1..Len(new) : outs[i] = new[i] + w[i]
      BY <2>6, <2>7, <2>8
    <3>2. Len(outs) = Len(new) /\ Len(w) = Len(new)
      BY <2>7, <3>1 DEF n
    <3> HIDE DEF w
    <3>3. SeqSum(outs) = SeqSum(new) + SeqSum(w)
      BY <2>7, <3>1, <3>2, SumAdd
    <3> QED BY <3>3 DEF w
  <2>10. SeqSum(Even(n, from, e)) = e * k
    BY <1>1, <2>1, <2>3, SumEven
  <2>11. e * k \in Nat
    <3> HIDE DEF k
    <3> QED BY <2>2, <2>3
  <2>12. DOMAIN new = DOMAIN outs
    BY <1>1, <2>6
  <2> HIDE DEF k
  <2>13. \E paid \in Nat : /\ paid >= fee /\ TotalAndFee(outs, from, fee) = SeqSum(new) + paid
                           /\ from # {} => SeqSum(outs) = SeqSum(new) + paid
    BY <2>3, <2>5, <2>9, <2>10, <2>11
  <2> QED BY <2>7, <2>12, <2>13 DEF new, n
<1> QED BY <1>3, <1>4

(* A transaction whose coins cover payments, fee and change balances. *)
LEMMA WithChangeIs ==
    ASSUME NEW c, CoinList(c), NEW outs \in Seq(Nat), NEW from \in SUBSET (DOMAIN outs), NEW change \in Nat,
           NEW fee \in Nat, ~SubtractsTooMuch(outs, from, fee),
           fee = RequiredFee(Len(c), Len(outs) + (IF change # 0 THEN 1 ELSE 0)),
           Total(c) = TotalAndFee(outs, from, fee) + change
    PROVE  ManualBalanced(WithChange(c, outs, from, fee, change), c, outs, from)
<1> DEFINE r == WithChange(c, outs, from, fee, change)
           new == maybeSubtractFeeFromAmounts(outs, from, fee)
           left == Total(c) - SeqSum(new) - change
<1> SUFFICES ASSUME r.err = "none"
             PROVE  /\ Balanced(r) /\ (r.change = 0 \/ r.change >= DustLimit)
                    /\ \A i \in DOMAIN outs : r.outs[i] >= DustLimit
                    /\ from # {} => Total(c) - r.change = SeqSum(outs)
  BY DEF ManualBalanced
<1>1. /\ ~\E i \in DOMAIN new : new[i] < DustLimit
      /\ ~(change # 0 /\ change < DustLimit)
      /\ r = Made(c, new, change, left)
  <2>1. "ErrDustAmount" # "none" /\ "ErrDustChange" # "none"
    OBVIOUS
  <2> QED BY <2>1 DEF WithChange, Failure
<1>2. r.coins = c /\ r.outs = new /\ r.change = change /\ r.fee = left
  BY <1>1 DEF Made
<1>3. /\ new \in Seq(Nat) /\ Len(new) = Len(outs) /\ DOMAIN new = DOMAIN outs
      /\ \E paid \in Nat : /\ paid >= fee /\ TotalAndFee(outs, from, fee) = SeqSum(new) + paid
                           /\ from # {} => SeqSum(outs) = SeqSum(new) + paid
  BY SubtractIs
<1>4. PICK paid \in Nat : /\ paid >= fee /\ TotalAndFee(outs, from, fee) = SeqSum(new) + paid
                          /\ from # {} => SeqSum(outs) = SeqSum(new) + paid
  BY <1>3
<1> HIDE DEF r, new
<1>5. SeqSum(new) \in Nat /\ Total(c) = SeqSum(new) + paid + change
  BY <1>3, <1>4, SumNat
<1> DEFINE s == SeqSum(new)
           x == Total(c)
<1>6. left = paid /\ x - change = s + paid /\ x = s + change + paid
  <2>1. s \in Nat /\ x = s + paid + change /\ left = x - s - change
    BY <1>5
  <2> HIDE DEF s, x, left
  <2> QED BY <2>1
<1>7. Balanced(r)
  <2>1. Total(r.coins) = SeqSum(r.outs) + r.change + r.fee
    BY <1>2, <1>6
  <2>2. r.fee >= RequiredFee(Len(r.coins), Len(r.outs) + (IF r.change # 0 THEN 1 ELSE 0))
    <3> HIDE DEF left
    <3> QED BY <1>2, <1>3, <1>4, <1>6
  <2> QED BY <2>1, <2>2 DEF Balanced
<1>8. r.change = 0 \/ r.change >= DustLimit
  BY <1>1, <1>2, FeeConstants
<1>9. \A i \in DOMAIN outs : r.outs[i] >= DustLimit
  <2>1. \A i \in DOMAIN outs : new[i] \in Nat
    BY <1>3
  <2>2. \A y \in Nat : ~(y < DustLimit) => y >= DustLimit
    BY FeeConstants
  <2> QED BY <1>1, <1>2, <1>3, <2>1, <2>2
<1>10. from # {} => Total(c) - r.change = SeqSum(outs)
  BY <1>2, <1>4, <1>6
<1> QED BY <1>7, <1>8, <1>9, <1>10

(* CreateRawTransaction balances, whatever the coins, payments and         *)
(* subtractions.                                                           *)
LEMMA ManualIsBalanced ==
    ASSUME NEW c, CoinList(c), NEW outs \in Seq(Nat), NEW from \in SUBSET (DOMAIN outs)
    PROVE  ManualBalanced(CreateRawTransaction(c, outs, from), c, outs, from)
<1> DEFINE total == Total(c)
           no == RequiredFee(Len(c), Len(outs))
           with == RequiredFee(Len(c), Len(outs) + 1)
           r == CreateRawTransaction(c, outs, from)
<1>1. Len(c) \in Nat /\ Len(outs) \in Nat /\ total \in Nat
  BY TotalIs, SumOfNat DEF CoinList
<1>2. no \in Nat /\ with \in Nat
  <2>1. Len(outs) + 1 \in Nat
    BY <1>1
  <2> QED BY <1>1, <2>1, RequiredFeeIs
<1>3. \A s : ManualBalanced(Failure(s), c, outs, from) \/ s = "none"
  BY DEF ManualBalanced, Failure
<1>4. CASE SubtractsTooMuch(outs, from, no)
  <2>1. r = Failure("ErrInvalidAmount")
    BY <1>4 DEF CreateRawTransaction
  <2> QED BY <1>3, <2>1
<1>5. CASE ~SubtractsTooMuch(outs, from, no) /\ total < TotalAndFee(outs, from, no)
  <2>1. r = Failure("ErrNotEnoughInputs")
    BY <1>5 DEF CreateRawTransaction
  <2> QED BY <1>3, <2>1
<1>6. CASE ~SubtractsTooMuch(outs, from, no) /\ ~(total < TotalAndFee(outs, from, no))
           /\ total = TotalAndFee(outs, from, no)
  <2> DEFINE z == 0
  <2>1. r = WithChange(c, outs, from, no, z)
    BY <1>6 DEF CreateRawTransaction
  <2>2. no = RequiredFee(Len(c), Len(outs) + (IF z # 0 THEN 1 ELSE 0))
    <3>1. Len(outs) + 0 = Len(outs)
      BY <1>1
    <3> QED BY <3>1
  <2>3. Total(c) = TotalAndFee(outs, from, no) + z
    <3> HIDE DEF no, total
    <3>1. total + 0 = total
      BY <1>1
    <3> QED BY <1>6, <3>1 DEF total
  <2>4. z \in Nat
    OBVIOUS
  <2> HIDE DEF z, no
  <2>5. ManualBalanced(WithChange(c, outs, from, no, z), c, outs, from)
    BY <1>2, <1>6, <2>2, <2>3, <2>4, WithChangeIs
  <2> QED BY <2>1, <2>5
<1>7. CASE ~SubtractsTooMuch(outs, from, no) /\ ~(total < TotalAndFee(outs, from, no))
           /\ total # TotalAndFee(outs, from, no)
  <2>1. CASE SubtractsTooMuch(outs, from, with)
    <3>1. r = Failure("ErrInvalidAmount")
      BY <1>7, <2>1 DEF CreateRawTransaction
    <3> QED BY <1>3, <3>1
  <2>2. CASE ~SubtractsTooMuch(outs, from, with) /\ total <= TotalAndFee(outs, from, with)
    <3>1. r = Failure("ErrNotEnoughInputs")
      BY <1>7, <2>2 DEF CreateRawTransaction
    <3> QED BY <1>3, <3>1
  <2>3. CASE ~SubtractsTooMuch(outs, from, with) /\ ~(total <= TotalAndFee(outs, from, with))
    <3> DEFINE y == TotalAndFee(outs, from, with)
               d == total - y
    <3>1. r = WithChange(c, outs, from, with, d)
      BY <1>7, <2>3 DEF CreateRawTransaction
    <3>2. y \in Nat
      <4> HIDE DEF with
      <4> DEFINE new == maybeSubtractFeeFromAmounts(outs, from, with)
      <4>1. /\ new \in Seq(Nat)
            /\ \E paid \in Nat : TotalAndFee(outs, from, with) = SeqSum(new) + paid
        BY <1>2, <2>3, SubtractIs
      <4> HIDE DEF new
      <4>2. SeqSum(new) \in Nat
        BY <4>1, SumNat
      <4> QED BY <4>1, <4>2
    <3> HIDE DEF y
    <3>3. d \in Nat /\ d # 0 /\ total = y + d
      <4>1. ~(total <= y)
        BY <2>3 DEF y
      <4> HIDE DEF total
      <4> QED BY <1>1, <3>2, <4>1
    <3> HIDE DEF d
    <3>4. with = RequiredFee(Len(c), Len(outs) + (IF d # 0 THEN 1 ELSE 0))
      BY <3>3
    <3>5. Total(c) = TotalAndFee(outs, from, with) + d
      BY <3>3 DEF y
    <3> HIDE DEF with
    <3>6. ManualBalanced(WithChange(c, outs, from, with, d), c, outs, from)
      BY <1>2, <2>3, <3>3, <3>4, <3>5, WithChangeIs
    <3> QED BY <3>1, <3>6
  <2> QED BY <2>1, <2>2, <2>3
<1> QED BY <1>4, <1>5, <1>6, <1>7

(* No payment, automatic or of named coins, fails to add up. *)
LEMMA NoneUnbalanced == Unbalanced = {}
<1> SUFFICES ASSUME NEW amounts \in Wallets, NEW outs \in Payments
             PROVE  /\ \A userTxFee \in UserFees :
                          AutoBalanced(autoConstructTxInAndChangeTxOut(Coins(amounts), outs, userTxFee),
                                       Coins(amounts), outs, userTxFee)
                    /\ \A from \in SUBSET DOMAIN outs :
                          ManualBalanced(CreateRawTransaction(Coins(amounts), outs, from),
                                         Coins(amounts), outs, from)
  BY DEF Unbalanced
<1> DEFINE c == Coins(amounts)
           R == [id : Nat, amount : Nat]
<1>1. amounts \in Seq(Nat)
  <2>1. amounts \in Seq(Nat \ {0})
    BY SelectionAssumption
  <2> QED BY <2>1
<1>2. c \in Seq(R) /\ Once(c) /\ Worths(R)
  BY <1>1, CoinsAre
<1>3. outs \in Seq(Nat) /\ UserFees \subseteq Nat
  BY SelectionAssumption
<1> HIDE DEF c, R
<1>4. CoinList(c)
  BY <1>2, SeqCoins
<1>5. \A userTxFee \in UserFees :
         AutoBalanced(autoConstructTxInAndChangeTxOut(c, outs, userTxFee), c, outs, userTxFee)
  BY <1>2, <1>3, AutoIsBalanced
<1>6. \A from \in SUBSET DOMAIN outs : ManualBalanced(CreateRawTransaction(c, outs, from), c, outs, from)
  BY <1>3, <1>4, ManualIsBalanced
<1> QED BY <1>5, <1>6 DEF c

(* For any wallets, payments, fees and subtractions what                   *)
(* autoConstructTxInAndChangeTxOut and CreateRawTransaction make balances: *)
(* inputs are payments, change and fee, the fee covers the size, the       *)
(* change is no dust, and subtracted shares add up to the fee.  The first  *)
(* refuses only what K coins could not pay with the largest fee: its loop  *)
(* ends, as each turn raises the fee or, once for a fee, the change.       *)
THEOREM CreationsAreBalanced == Spec => []CreatedBalanced
<1>1. CreatedBalanced
  BY NoneUnbalanced DEF CreatedBalanced
<1> QED BY <1>1, PTL

(***************************************************************************)
(* The turns of a creation                                                 *)
(***************************************************************************)
(* The spendable coins as credits are a list of distinct coins. *)
LEMMA CreditsAre ==
    ASSUME NEW S \in SUBSET Coin
    PROVE  /\ AsCredits(S) \in Seq([id : S, amount : Nat]) /\ Once(AsCredits(S))
           /\ Worths([id : S, amount : Nat])
<1> DEFINE R == [id : S, amount : Nat]
           n == Cardinality(S)
           s == SetToSeq(S)
           c == AsCredits(S)
<1>1. IsFiniteSet(S)
  BY SpendingAssumption, FS_Subset
<1>2. n \in Nat /\ ExistsBijection(1..n, S)
  BY <1>1, FS_CardinalityType
<1>3. PICK f \in [1..n -> S] : IsInjective(f)
  BY <1>2 DEF ExistsBijection, Bijection, Injection
<1>4. s \in [1..n -> S] /\ IsInjective(s)
  BY <1>3 DEF SetToSeq
<1>5. c = [i \in DOMAIN s |-> [id |-> s[i], amount |-> Amount[s[i]]]]
  BY DEF AsCredits
<1> HIDE DEF s, c, n
<1>6. DOMAIN s = 1..n /\ \A i \in 1..n : s[i] \in S /\ Amount[s[i]] \in Nat
  BY <1>4, SpendingAssumption
<1>7. c \in [1..n -> R] /\ \A i \in 1..n : c[i].id = s[i]
  BY <1>5, <1>6
<1>8. c \in Seq(R) /\ Len(c) = n
  BY <1>2, <1>7, FcnSeq
<1>9. Once(c)
  <2> SUFFICES ASSUME NEW i \in 1..n, NEW j \in 1..n, c[i] = c[j] PROVE i = j
    BY <1>8 DEF Once
  <2>1. s[i] = s[j]
    BY <1>7
  <2> QED BY <1>4, <1>6, <2>1 DEF IsInjective
<1>10. Worths(R)
  BY DEF Worths
<1> QED BY <1>8, <1>9, <1>10 DEF c

(* A selection names coins it was offered. *)
LEMMA SelectionPicksOffered ==
    ASSUME NEW turn \in Turns, turn[5].err = "none"
    PROVE  Ids(turn[5].coins) \subseteq turn[1]
<1>1. PICK S \in SUBSET Coin, outs \in AutoOuts, t \in Targets, d \in {0, MinRelayTxFee} :
         turn = <<S, outs, t, d, Attempt(AsCredits(S), outs, t, d)>>
  BY DEF Turns
<1> DEFINE c == AsCredits(S)
           R == [id : S, amount : Nat]
           a == Attempt(c, outs, t, d)
<1>2. turn[5] = a /\ turn[1] = S
  BY <1>1
<1>3. c \in Seq(R) /\ Once(c) /\ Worths(R)
  BY CreditsAre
<1>4. outs \in Seq(Nat) /\ UserFees \subseteq Nat
  BY SpendingAssumption, SelectionAssumption
<1>5. t \in Nat /\ t > 0
  <2>1. CASE t \in {FirstTarget(fee) : fee \in UserFees}
    BY <1>4, <2>1, FeeConstants DEF FirstTarget
  <2>2. CASE t \notin {FirstTarget(fee) : fee \in UserFees}
    <3>1. PICK i \in 1..MostInputs, o \in 1..MostOutputs : t = RequiredFee(i, o)
      BY <2>2 DEF Targets
    <3>2. i \in Nat /\ o \in Nat
      OBVIOUS
    <3> QED BY <3>1, <3>2, RequiredFeeIs
  <2> QED BY <2>1, <2>2
<1> HIDE DEF c, R, a
<1>6. \/ Refused(a, c, t + SeqSum(outs) + d) \/ Asks(a, t, d)
      \/ Raises(a, t, LargestFee(outs)) \/ Makes(a, c, outs, t)
  BY <1>3, <1>4, <1>5, AttemptIs DEF a
<1>7. Makes(a, c, outs, t)
  BY <1>2, <1>6 DEF Refused, Asks, Raises
<1>8. Range(a.coins) \subseteq Range(c)
  BY <1>7 DEF Makes
<1>9. Range(c) \subseteq R
  BY <1>3, SeqCoins
<1>10. Ids(a.coins) \subseteq S
  BY <1>8, <1>9 DEF Ids, Range, R
<1> QED BY <1>2, <1>10

(***************************************************************************)
(* Coins, requests and the chain                                           *)
(***************************************************************************)
(* Shapes of what the node and the requests hold. *)
QueueInv ==
    /\ blocks \in Seq([spends : SUBSET Coin, coins : SUBSET Coin])
    /\ pool \subseteq SUBSET Coin
    /\ DOMAIN credits \subseteq Coin

(* A coin enters the ledger once: no queued block pays a coin the wallet   *)
(* has, or one that another queued block pays.                             *)
CreditsInv ==
    /\ height \in Nat
    /\ \A c \in DOMAIN credits : credits[c] \in 0..height
    /\ \A i \in 1..Len(blocks) : blocks[i].coins \cap DOMAIN credits = {}
    /\ \A i, j \in 1..Len(blocks) : i # j => blocks[i].coins \cap blocks[j].coins = {}

RequestInv ==
    /\ DOMAIN req = Request
    /\ \A r \in Request :
        /\ DOMAIN req[r] = {"pc", "auto", "outs", "seen", "target", "adj", "coins"}
        /\ req[r].pc \in {"idle", "read", "scan", "mark", "draft", "signed"}
        /\ req[r].seen \in 0..height
        /\ Live(r) => req[r].coins \subseteq DOMAIN credits

LedgerInv == QueueInv /\ CreditsInv /\ RequestInv

(* What a scan picks was mature at the height it had read, or counts as    *)
(* mature because the subtraction wrapped.                                 *)
LEMMA ScanPicksMature ==
    ASSUME NEW seen \in 0..height, height \in Nat, NEW c \in Coin, credits[c] \in 0..height, Mature(seen, c)
    PROVE  \/ height - credits[c] + 1 >= Maturity[c]
           \/ credits[c] >= seen + 2
<1> DEFINE n == seen - credits[c] + 1
<1>1. n \in Int /\ n % ConfWrap >= Maturity[c] /\ Maturity[c] \in Int
  BY SpendingAssumption DEF Mature, Confirmations
<1>2. CASE n >= 0
  <2>1. n >= Maturity[c]
    <3> HIDE DEF n
    <3> QED
      BY <1>1, <1>2 DEF ConfWrap
  <2> QED
    BY <1>1, <2>1
<1>3. CASE n < 0
  BY <1>3
<1> QED
  BY <1>1, <1>2, <1>3

(* A wallet with the coins of its first block and no requests. *)
LEMMA InitLedgerInv == Init => LedgerInv
BY SpendingAssumption
   DEF Init, LedgerInv, QueueInv, CreditsInv, RequestInv, Height1, Idle, Live

(* Steps of a request that leave the ledger and the node alone. *)
LEMMA RequestStep ==
    ASSUME LedgerInv, UNCHANGED <<height, credits, blocks>>, pool' \subseteq SUBSET Coin,
           NEW r \in Request, NEW q, req' = [req EXCEPT ![r] = q],
           DOMAIN q = {"pc", "auto", "outs", "seen", "target", "adj", "coins"},
           q.pc \in {"idle", "read", "scan", "mark", "draft", "signed"},
           q.seen \in 0..height,
           q.pc \in {"mark", "draft", "signed"} => q.coins \subseteq DOMAIN credits
    PROVE  LedgerInv'
<1>1. QueueInv' /\ CreditsInv'
  BY DEF LedgerInv, QueueInv, CreditsInv
<1>2. DOMAIN req' = Request /\ height' = height /\ credits' = credits
  BY DEF LedgerInv, RequestInv
<1>3. ASSUME NEW s \in Request
      PROVE  /\ DOMAIN req'[s] = {"pc", "auto", "outs", "seen", "target", "adj", "coins"}
             /\ req'[s].pc \in {"idle", "read", "scan", "mark", "draft", "signed"}
             /\ req'[s].seen \in 0..height
             /\ req'[s].pc \in {"mark", "draft", "signed"} => req'[s].coins \subseteq DOMAIN credits
  <2>1. CASE s = r
    BY <2>1 DEF LedgerInv, RequestInv
  <2>2. CASE s # r
    BY <2>2 DEF LedgerInv, RequestInv, Live
  <2> QED
    BY <2>1, <2>2
<1> QED
  BY <1>1, <1>2, <1>3 DEF LedgerInv, RequestInv, Live

(* A request that is over. *)
LEMMA IdleIs ==
    /\ DOMAIN Idle = {"pc", "auto", "outs", "seen", "target", "adj", "coins"}
    /\ Idle.pc = "idle" /\ Idle.seen = 0
BY DEF Idle

(* What the steps below use of LedgerInv. *)
LEMMA LedgerFacts ==
    ASSUME LedgerInv
    PROVE  /\ height \in Nat /\ 0 \in 0..height /\ height \in 0..height
           /\ pool \subseteq SUBSET Coin /\ DOMAIN credits \subseteq Coin
           /\ DOMAIN req = Request
           /\ \A r \in Request :
                /\ DOMAIN req[r] = {"pc", "auto", "outs", "seen", "target", "adj", "coins"}
                /\ req[r].seen \in 0..height
                /\ req[r].pc \in {"mark", "draft", "signed"} => req[r].coins \subseteq DOMAIN credits
BY DEF LedgerInv, QueueInv, CreditsInv, RequestInv, Live

(* The outcome of a scan: another turn, coins that are selectable, or a    *)
(* failure.                                                                *)
LEMMA ScanOutcome ==
    ASSUME LedgerInv, NEW r \in Request, Scan(r)
    PROVE  \E q : /\ req' = [req EXCEPT ![r] = q]
                  /\ DOMAIN q = {"pc", "auto", "outs", "seen", "target", "adj", "coins"}
                  /\ q.pc \in {"idle", "read", "mark"}
                  /\ q.seen \in 0..height
                  /\ q.pc = "mark" => /\ q.seen = req[r].seen
                                      /\ q.coins \subseteq Selectable(req[r].seen)
<1> DEFINE p == req[r]
           Next1(a) == CASE a.err = "retry" -> Again(p, a)
                         [] a.err = "none" -> [p EXCEPT !.pc = "mark", !.coins = Ids(a.coins)]
                         [] OTHER -> Idle
<1>1. PICK t \in Turns : /\ t[1] = Selectable(p.seen)
                         /\ req' = [req EXCEPT ![r] = Next1(t[5])]
  BY DEF Scan, Set
<1>2. DOMAIN p = {"pc", "auto", "outs", "seen", "target", "adj", "coins"} /\ p.seen \in 0..height
  BY DEF LedgerInv, RequestInv
<1>3. height \in Nat
  BY DEF LedgerInv, CreditsInv
<1> DEFINE a == t[5]
<1>4. CASE a.err = "retry"
  <2>1. Next1(a) = Again(p, a)
    BY <1>4
  <2> DEFINE q == Next1(a)
  <2>2. /\ DOMAIN q = {"pc", "auto", "outs", "seen", "target", "adj", "coins"}
        /\ q.pc = "read" /\ q.seen = p.seen
    <3> HIDE DEF p, a, Next1
    <3> QED
      BY <2>1, <1>2 DEF Again
  <2> HIDE DEF Next1
  <2> QED
    BY <1>1, <1>2, <2>2
<1>5. CASE a.err = "none"
  <2>1. Next1(a) = [p EXCEPT !.pc = "mark", !.coins = Ids(a.coins)]
    BY <1>5
  <2>2. Ids(a.coins) \subseteq Selectable(p.seen)
    BY <1>1, <1>5, SelectionPicksOffered
  <2> DEFINE q == Next1(a)
  <2>3. /\ DOMAIN q = {"pc", "auto", "outs", "seen", "target", "adj", "coins"}
        /\ q.pc = "mark" /\ q.seen = p.seen /\ q.coins = Ids(a.coins)
    <3> HIDE DEF p, a, Next1
    <3> QED
      BY <2>1, <1>2
  <2> HIDE DEF Next1
  <2> QED
    BY <1>1, <1>2, <2>2, <2>3
<1>6. CASE a.err # "retry" /\ a.err # "none"
  <2>1. Next1(a) = Idle
    BY <1>6
  <2> HIDE DEF Next1
  <2>2. req' = [req EXCEPT ![r] = Idle] /\ 0 \in 0..height
    BY <1>1, <1>3, <2>1
  <2> QED
    BY <2>2, IdleIs
<1> QED
  BY <1>4, <1>5, <1>6

(* One case per handler. *)
LEMMA NextLedgerInv ==
    ASSUME LedgerInv, [Next]_vars
    PROVE  LedgerInv'
<1> USE LedgerFacts
<1>0. CASE UNCHANGED vars
  BY <1>0 DEF LedgerInv, vars, QueueInv, CreditsInv, RequestInv, Live
<1>1. ASSUME NEW r \in Request, NEW outs, NEW fee, AutoCreate(r, outs, fee)
      PROVE  LedgerInv'
  <2> DEFINE q == [Idle EXCEPT !.pc = "read", !.auto = TRUE, !.outs = outs, !.target = FirstTarget(fee)]
  <2>1. /\ req' = [req EXCEPT ![r] = q]
        /\ UNCHANGED <<height, credits, blocks, pool>>
    BY <1>1 DEF AutoCreate, Set, walletVars
  <2>2. /\ DOMAIN q = {"pc", "auto", "outs", "seen", "target", "adj", "coins"}
        /\ q.pc = "read" /\ q.seen = 0
    BY DEF Idle
  <2> HIDE DEF q
  <2> QED
    BY <2>1, <2>2, RequestStep
<1>2. ASSUME NEW r \in Request, ReadHeight(r)
      PROVE  LedgerInv'
  <2> DEFINE q == [req[r] EXCEPT !.pc = "scan", !.seen = height]
  <2>1. /\ req' = [req EXCEPT ![r] = q]
        /\ UNCHANGED <<height, credits, blocks, pool>>
    BY <1>2 DEF ReadHeight, Set, walletVars
  <2>2. /\ DOMAIN q = {"pc", "auto", "outs", "seen", "target", "adj", "coins"}
        /\ q.pc = "scan" /\ q.seen = height
    OBVIOUS
  <2> HIDE DEF q
  <2> QED
    BY <2>1, <2>2, RequestStep
<1>3. ASSUME NEW r \in Request, Scan(r)
      PROVE  LedgerInv'
  <2>1. UNCHANGED <<height, credits, blocks, pool>>
    BY <1>3 DEF Scan, walletVars
  <2>2. Selectable(req[r].seen) \subseteq DOMAIN credits
    BY DEF Selectable
  <2> QED
    BY <1>3, <2>1, <2>2, ScanOutcome, RequestStep
<1>4. ASSUME NEW r \in Request, MarkUsedUTXO(r)
      PROVE  LedgerInv'
  <2> DEFINE d == [Idle EXCEPT !.pc = "draft", !.auto = TRUE, !.seen = req[r].seen, !.coins = req[r].coins]
             q == IF req[r].target <= MaxTxFee THEN d ELSE Idle
  <2>1. /\ req' = [req EXCEPT ![r] = q] /\ req[r].pc = "mark"
        /\ UNCHANGED <<height, credits, blocks, pool>>
    BY <1>4 DEF MarkUsedUTXO, Set, walletVars
  <2>2. /\ DOMAIN d = {"pc", "auto", "outs", "seen", "target", "adj", "coins"}
        /\ d.pc = "draft" /\ d.seen = req[r].seen /\ d.coins = req[r].coins
    BY DEF Idle
  <2>3. q = d \/ q = Idle
    OBVIOUS
  <2> HIDE DEF q, d
  <2> QED
    BY <2>1, <2>2, <2>3, RequestStep, IdleIs
<1>5. ASSUME NEW r \in Request, NEW S, NEW outs, NEW from, ManualCreate(r, S, outs, from)
      PROVE  LedgerInv'
  <2> DEFINE d == [Idle EXCEPT !.pc = "draft", !.coins = S]
  <2>1. PICK q \in {d, Idle} : req' = [req EXCEPT ![r] = q]
    BY <1>5 DEF ManualCreate, Set
  <2>2. /\ UNCHANGED <<height, credits, blocks, pool>>
        /\ S \subseteq DOMAIN credits
    BY <1>5 DEF ManualCreate, walletVars
  <2>3. /\ DOMAIN d = {"pc", "auto", "outs", "seen", "target", "adj", "coins"}
        /\ d.pc = "draft" /\ d.seen = 0 /\ d.coins = S
    BY DEF Idle
  <2> HIDE DEF d
  <2> QED
    BY <2>1, <2>2, <2>3, RequestStep, IdleIs
<1>6. ASSUME NEW r \in Request, NEW right, Sign(r, right)
      PROVE  LedgerInv'
  <2> DEFINE q == [req[r] EXCEPT !.pc = "signed"]
  <2>1. /\ req' = [req EXCEPT ![r] = q] \/ req' = req
        /\ req[r].pc = "draft"
        /\ UNCHANGED <<height, credits, blocks, pool>>
    BY <1>6 DEF Sign, Set, walletVars
  <2>2. /\ DOMAIN q = {"pc", "auto", "outs", "seen", "target", "adj", "coins"}
        /\ q.pc = "signed" /\ q.seen = req[r].seen /\ q.coins = req[r].coins
    OBVIOUS
  <2>3. CASE req' = req
    BY <2>1, <2>3 DEF LedgerInv, QueueInv, CreditsInv, RequestInv, Live
  <2> HIDE DEF q
  <2> QED
    BY <2>1, <2>2, <2>3, RequestStep
<1>7. ASSUME NEW r \in Request, NEW accepted, Send(r, accepted)
      PROVE  LedgerInv'
  <2>1. /\ req' = [req EXCEPT ![r] = Idle] /\ req[r].pc = "signed"
        /\ UNCHANGED <<height, credits, blocks>>
        /\ pool' = pool \/ pool' = pool \cup {req[r].coins}
    BY <1>7 DEF Send, Set
  <2>2. req[r].coins \subseteq Coin
    BY <2>1
  <2> QED
    BY <2>1, <2>2, RequestStep, IdleIs
<1>8. ASSUME NEW r \in Request, Abandon(r)
      PROVE  LedgerInv'
  <2>1. /\ req' = [req EXCEPT ![r] = Idle]
        /\ UNCHANGED <<height, credits, blocks, pool>>
    BY <1>8 DEF Abandon, Set, walletVars
  <2> QED
    BY <2>1, RequestStep, IdleIs
<1>9. ASSUME NEW c \in Coin, Expire(c)
      PROVE  LedgerInv'
  BY <1>9 DEF LedgerInv, Expire, walletVars, QueueInv, CreditsInv, RequestInv, Live
<1>10. ASSUME NEW T \in SUBSET pool, NEW N \in SUBSET (Coin \ DOMAIN credits), NodeMine(T, N)
       PROVE  LedgerInv'
  <2> DEFINE B == [spends |-> UNION T, coins |-> N]
             BlockSet == [spends : SUBSET Coin, coins : SUBSET Coin]
  <2>1. /\ UNCHANGED <<height, credits, req>>
        /\ blocks' = Append(blocks, B) /\ pool' = pool \ T
        /\ \A i \in DOMAIN blocks : blocks[i].coins \cap N = {}
    BY <1>10 DEF NodeMine, walletVars
  <2>2. B \in BlockSet /\ B.coins = N /\ blocks \in Seq(BlockSet)
    BY DEF LedgerInv, QueueInv
  <2>3. /\ Len(blocks) \in Nat /\ DOMAIN blocks = 1..Len(blocks)
        /\ blocks' \in Seq(BlockSet) /\ Len(blocks') = Len(blocks) + 1
        /\ \A i \in 1..Len(blocks) : blocks'[i] = blocks[i]
        /\ blocks'[Len(blocks) + 1] = B
    <3> HIDE DEF B, BlockSet
    <3> QED
      BY <2>1, <2>2
  <2>4. QueueInv'
    BY <2>1, <2>3 DEF QueueInv
  <2> HIDE DEF B, BlockSet
  <2>5. \A i \in 1..Len(blocks') : i \in 1..Len(blocks) \/ i = Len(blocks) + 1
    BY <2>3
  <2>6. \A i \in 1..Len(blocks') : (blocks'[i]).coins \cap DOMAIN credits' = {}
    BY <2>1, <2>2, <2>3, <2>5 DEF LedgerInv, CreditsInv
  <2>7. \A i, j \in 1..Len(blocks') : i # j => (blocks'[i]).coins \cap (blocks'[j]).coins = {}
    BY <2>1, <2>2, <2>3, <2>5 DEF LedgerInv, CreditsInv
  <2>8. CreditsInv'
    BY <2>1, <2>6, <2>7 DEF LedgerInv, CreditsInv
  <2> QED
    BY <2>1, <2>4, <2>8 DEF LedgerInv, RequestInv, Live
<1>11. CASE ConnectBlock
  <2> DEFINE B == Head(blocks)
             BlockSet == [spends : SUBSET Coin, coins : SUBSET Coin]
  <2>1. /\ blocks # <<>> /\ blocks' = Tail(blocks) /\ height' = height + 1
        /\ DOMAIN credits' = DOMAIN credits \cup B.coins
        /\ \A c \in DOMAIN credits' : credits'[c] = IF c \in B.coins THEN height + 1 ELSE credits[c]
        /\ UNCHANGED <<pool, req>>
    BY <1>11 DEF ConnectBlock
  <2>2. blocks \in Seq(BlockSet)
    BY DEF LedgerInv, QueueInv
  <2>3. /\ Len(blocks) \in Nat /\ Len(blocks) > 0
        /\ blocks' \in Seq(BlockSet) /\ Len(blocks') = Len(blocks) - 1
        /\ \A i \in 1..Len(blocks') : blocks'[i] = blocks[i + 1]
        /\ B = blocks[1] /\ B \in BlockSet
    <3> HIDE DEF BlockSet
    <3> QED
      BY <2>1, <2>2
  <2>4. B.coins \subseteq Coin
    BY <2>3
  <2>5. QueueInv'
    BY <2>1, <2>3, <2>4 DEF QueueInv
  <2> HIDE DEF B, BlockSet
  <2>6. \A i \in 1..Len(blocks') : i + 1 \in 1..Len(blocks) /\ i + 1 # 1
    BY <2>3
  <2>7. \A i \in 1..Len(blocks') : (blocks'[i]).coins \cap DOMAIN credits' = {}
    BY <2>1, <2>3, <2>6 DEF LedgerInv, CreditsInv
  <2>8. \A i, j \in 1..Len(blocks') : i # j => (blocks'[i]).coins \cap (blocks'[j]).coins = {}
    BY <2>3, <2>6 DEF LedgerInv, CreditsInv
  <2>9. CreditsInv'
    <3>1. \A c \in DOMAIN credits' : credits'[c] \in 0..height'
      BY <2>1 DEF LedgerInv, CreditsInv
    <3> QED
      BY <2>1, <2>7, <2>8, <3>1 DEF CreditsInv
  <2>10. RequestInv'
    <3>1. \A r \in Request : req[r].seen \in 0..height'
      BY <2>1
    <3> QED
      BY <2>1, <3>1 DEF LedgerInv, RequestInv, Live
  <2> QED
    BY <2>5, <2>9, <2>10 DEF LedgerInv
<1>12. CASE Restart
  <2>1. /\ UNCHANGED <<height, credits, blocks>> /\ pool' = {}
        /\ req' = [r \in Request |-> IF req[r].pc \in {"draft", "signed"} THEN req[r] ELSE Idle]
    BY <1>12 DEF Restart, walletVars
  <2>2. QueueInv' /\ CreditsInv'
    BY <2>1 DEF LedgerInv, QueueInv, CreditsInv
  <2>3. RequestInv'
    BY <2>1, IdleIs DEF LedgerInv, RequestInv, Live
  <2> QED
    BY <2>2, <2>3 DEF LedgerInv
<1> QED
  BY <1>0, <1>1, <1>2, <1>3, <1>4, <1>5, <1>6, <1>7, <1>8, <1>9, <1>10, <1>11, <1>12 DEF Next

(* Coins are received once, and requests hold coins the wallet received.   *)
THEOREM LedgerInvariant == Spec => []LedgerInv
BY InitLedgerInv, NextLedgerInv, PTL DEF Spec

-----------------------------------------------------------------------------
(* The transactions whose coins the selector chose: those in the making    *)
(* and the automatic drafts.                                               *)
Picks(q) == q.pc = "mark" \/ (q.pc \in {"draft", "signed"} /\ q.auto)

OldEnough(c, seen) ==
    /\ Class[c] = "std"
    /\ height - credits[c] + 1 >= Maturity[c] \/ credits[c] >= seen + 2

PickedInv == \A r \in Request : Picks(req[r]) => \A c \in req[r].coins : OldEnough(c, req[r].seen)

(* Blocks only make a coin older, and no step changes when a coin came. *)
LEMMA PickedKept ==
    ASSUME LedgerInv, PickedInv, height' \in Nat, height' >= height,
           \A c \in DOMAIN credits : credits'[c] = credits[c],
           \A r \in Request : Picks(req'[r]) => /\ Picks(req[r])
                                                /\ req'[r].coins = req[r].coins
                                                /\ req'[r].seen = req[r].seen
    PROVE  PickedInv'
<1> SUFFICES ASSUME NEW r \in Request, Picks(req'[r]), NEW c \in req'[r].coins
             PROVE  /\ Class[c] = "std"
                    /\ height' - credits'[c] + 1 >= Maturity[c] \/ credits'[c] >= req'[r].seen + 2
  BY DEF PickedInv, OldEnough, Picks
<1>1. /\ Picks(req[r]) /\ c \in req[r].coins /\ req'[r].seen = req[r].seen
      /\ OldEnough(c, req[r].seen)
  BY DEF PickedInv
<1>2. /\ c \in DOMAIN credits /\ c \in Coin /\ credits'[c] = credits[c]
      /\ credits[c] \in 0..height /\ height \in Nat
  BY <1>1 DEF Picks, LedgerInv, QueueInv, CreditsInv, RequestInv, Live
<1>3. Maturity[c] \in Int
  BY <1>2, SpendingAssumption
<1> QED
  BY <1>1, <1>2, <1>3 DEF OldEnough

(* Only a scan picks coins; the other handlers keep or drop them. *)
LEMMA NextPickedInv ==
    ASSUME LedgerInv, LedgerInv', PickedInv, [Next]_vars
    PROVE  PickedInv'
<1> DEFINE Same(r) == /\ Picks(req[r]) /\ req'[r].coins = req[r].coins
                      /\ req'[r].seen = req[r].seen
           Quiet == UNCHANGED <<height, credits>>
<1> USE LedgerFacts
<1>0. ASSUME Quiet, \A r \in Request : Picks(req'[r]) => Same(r)
      PROVE  PickedInv'
  BY <1>0, PickedKept
<1>00. CASE UNCHANGED vars
  BY <1>0, <1>00 DEF vars
<1>1. ASSUME NEW r \in Request, NEW outs, NEW fee, AutoCreate(r, outs, fee)
      PROVE  PickedInv'
  <2> DEFINE q == [Idle EXCEPT !.pc = "read", !.auto = TRUE, !.outs = outs, !.target = FirstTarget(fee)]
  <2>1. Quiet /\ req' = [req EXCEPT ![r] = q] /\ q.pc = "read"
    BY <1>1 DEF AutoCreate, Set, walletVars, Idle
  <2> HIDE DEF q
  <2> QED
    BY <1>0, <2>1 DEF Picks
<1>2. ASSUME NEW r \in Request, ReadHeight(r)
      PROVE  PickedInv'
  <2> DEFINE q == [req[r] EXCEPT !.pc = "scan", !.seen = height]
  <2>1. Quiet /\ req' = [req EXCEPT ![r] = q] /\ q.pc = "scan"
    BY <1>2 DEF ReadHeight, Set, walletVars
  <2> HIDE DEF q
  <2> QED
    BY <1>0, <2>1 DEF Picks
<1>3. ASSUME NEW r \in Request, Scan(r)
      PROVE  PickedInv'
  <2>1. Quiet
    BY <1>3 DEF Scan, walletVars
  <2>2. PICK q : /\ req' = [req EXCEPT ![r] = q]
                 /\ q.pc \in {"idle", "read", "mark"}
                 /\ q.pc = "mark" => /\ q.seen = req[r].seen
                                     /\ q.coins \subseteq Selectable(req[r].seen)
    BY <1>3, ScanOutcome
  <2>3. ASSUME q.pc = "mark", NEW c \in q.coins
        PROVE  OldEnough(c, q.seen)
    <3>1. /\ c \in DOMAIN credits /\ Mature(req[r].seen, c) /\ Class[c] = "std"
          /\ q.seen = req[r].seen
      BY <2>2, <2>3 DEF Selectable
    <3>2. credits[c] \in 0..height /\ c \in Coin
      BY <3>1 DEF LedgerInv, CreditsInv
    <3> QED
      BY <3>1, <3>2, ScanPicksMature DEF OldEnough
  <2>4. ASSUME NEW s \in Request, Picks(req'[s]), NEW c \in req'[s].coins
        PROVE  OldEnough(c, req'[s].seen)
    BY <2>2, <2>3, <2>4 DEF PickedInv, Picks
  <2> QED
    BY <2>1, <2>4 DEF PickedInv, OldEnough, Picks
<1>4. ASSUME NEW r \in Request, MarkUsedUTXO(r)
      PROVE  PickedInv'
  <2> DEFINE d == [Idle EXCEPT !.pc = "draft", !.auto = TRUE, !.seen = req[r].seen, !.coins = req[r].coins]
  <2>1. /\ req' = [req EXCEPT ![r] = d] \/ req' = [req EXCEPT ![r] = Idle]
        /\ Quiet /\ req[r].pc = "mark"
    BY <1>4 DEF MarkUsedUTXO, Set, walletVars
  <2>2. d.seen = req[r].seen /\ d.coins = req[r].coins
    BY DEF Idle
  <2> HIDE DEF d
  <2> QED
    BY <1>0, <2>1, <2>2, IdleIs DEF Picks
<1>5. ASSUME NEW r \in Request, NEW S, NEW outs, NEW from, ManualCreate(r, S, outs, from)
      PROVE  PickedInv'
  <2> DEFINE d == [Idle EXCEPT !.pc = "draft", !.coins = S]
  <2>1. /\ req' = [req EXCEPT ![r] = d] \/ req' = [req EXCEPT ![r] = Idle]
        /\ Quiet
    BY <1>5 DEF ManualCreate, Set, walletVars
  <2>2. d.pc = "draft" /\ d.auto = FALSE
    BY DEF Idle
  <2> HIDE DEF d
  <2> QED
    BY <1>0, <2>1, <2>2, IdleIs DEF Picks
<1>6. ASSUME NEW r \in Request, NEW right, Sign(r, right)
      PROVE  PickedInv'
  <2> DEFINE q == [req[r] EXCEPT !.pc = "signed"]
  <2>1. /\ req' = [req EXCEPT ![r] = q] \/ req' = req
        /\ req[r].pc = "draft" /\ Quiet
    BY <1>6 DEF Sign, Set, walletVars
  <2>2. q.pc = "signed" /\ q.seen = req[r].seen /\ q.coins = req[r].coins /\ q.auto = req[r].auto
    OBVIOUS
  <2> HIDE DEF q
  <2> QED
    BY <1>0, <2>1, <2>2 DEF Picks
<1>7. ASSUME NEW r \in Request, NEW accepted, Send(r, accepted) \/ Abandon(r)
      PROVE  PickedInv'
  <2>1. req' = [req EXCEPT ![r] = Idle] /\ Quiet
    BY <1>7 DEF Send, Abandon, Set, walletVars
  <2> QED
    BY <1>0, <2>1, IdleIs DEF Picks
<1>8. ASSUME \/ \E c \in Coin : Expire(c)
             \/ \E T \in SUBSET pool, N \in SUBSET (Coin \ DOMAIN credits) : NodeMine(T, N)
      PROVE  PickedInv'
  BY <1>0, <1>8 DEF Expire, NodeMine, walletVars
<1>9. CASE ConnectBlock
  <2>1. /\ height' = height + 1 /\ req' = req
        /\ DOMAIN credits \subseteq DOMAIN credits'
        /\ \A c \in DOMAIN credits : credits'[c] = IF c \in Head(blocks).coins THEN height + 1 ELSE credits[c]
    BY <1>9 DEF ConnectBlock
  <2>2. Head(blocks).coins \cap DOMAIN credits = {}
    <3>1. blocks # <<>> /\ blocks \in Seq([spends : SUBSET Coin, coins : SUBSET Coin])
      BY <1>9 DEF ConnectBlock, LedgerInv, QueueInv
    <3>2. 1 \in 1..Len(blocks) /\ Head(blocks) = blocks[1]
      BY <3>1
    <3> QED
      BY <3>2 DEF LedgerInv, CreditsInv
  <2>3. \A c \in DOMAIN credits : credits'[c] = credits[c]
    BY <2>1, <2>2
  <2> QED
    BY <2>1, <2>3, PickedKept
<1>10. CASE Restart
  <2>1. /\ Quiet
        /\ req' = [r \in Request |-> IF req[r].pc \in {"draft", "signed"} THEN req[r] ELSE Idle]
    BY <1>10 DEF Restart, walletVars
  <2> QED
    BY <1>0, <2>1, IdleIs DEF Picks
<1> QED
  BY <1>00, <1>1, <1>2, <1>3, <1>4, <1>5, <1>6, <1>7, <1>8, <1>9, <1>10 DEF Next

(* No automatic transaction spends a coin that is not mature, or not a     *)
(* standard one, whatever blocks arrive between the reads of its scan,     *)
(* except where the subtraction of the heights wraps.                      *)
THEOREM PickedAreMature == Spec => []PickedMature
<1>1. Init => PickedInv
  BY IdleIs DEF Init, PickedInv, Picks
<1>2. PickedInv => PickedMature
  BY DEF PickedInv, PickedMature, Picks, OldEnough, Live
<1> QED
  BY <1>1, <1>2, InitLedgerInv, NextLedgerInv, NextPickedInv, PTL DEF Spec

-----------------------------------------------------------------------------
(* The coins of a request, those of a draft that has been handed out,      *)
(* those that pooled transactions spend, and those that mined blocks spend *)
(* before the wallet has connected them.                                   *)
Holds(q) == IF q.pc \in {"mark", "draft", "signed"} THEN q.coins ELSE {}
Drafted(q) == IF q.pc \in {"draft", "signed"} THEN q.coins ELSE {}
Pooled(P) == UNION P
Queued(bs) == UNION {bs[i].spends : i \in DOMAIN bs}

(* What makes a coin promised once: a coin that a draft holds, or that a   *)
(* block spends, is still marked, so that no scan picks it, unless it      *)
(* lapsed.                                                                 *)
PromiseInv ==
    /\ \A r, s \in Request : r # s => Holds(req[r]) \cap Drafted(req[s]) \subseteq lapsed
    /\ \A r \in Request : Holds(req[r]) \cap (Pooled(pool) \cup Queued(blocks)) \subseteq lapsed
    /\ \A r \in Request : Drafted(req[r]) \subseteq used \cup lapsed
    /\ Queued(blocks) \subseteq used \cup lapsed

(* Clearing marks loses none that somebody relies on without noting it. *)
LEMMA UnmarkNotes ==
    ASSUME NEW S, Unmark(S)
    PROVE  /\ lapsed \subseteq lapsed'
           /\ \A c \in used \cup lapsed :
                (c \in Queued(blocks) \/ \E r \in Request : c \in Holds(req[r])) => c \in used' \cup lapsed'
BY DEF Unmark, Promised, InQueue, Queued, Holds, Live

(* One request takes a step; the others hold what they held. *)
LEMMA PromiseStep ==
    ASSUME PromiseInv, DOMAIN req = Request, NEW r \in Request, NEW q, req' = [req EXCEPT ![r] = q],
           lapsed \subseteq lapsed',
           Queued(blocks') = Queued(blocks),
           \A c \in used \cup lapsed :
                (c \in Queued(blocks) \/ \E s \in Request : c \in Holds(req[s])) => c \in used' \cup lapsed',
           Drafted(q) \subseteq used' \cup lapsed',
           \A s \in Request : s # r => /\ Holds(q) \cap Drafted(req[s]) \subseteq lapsed'
                                       /\ Holds(req[s]) \cap Drafted(q) \subseteq lapsed'
                                       /\ Holds(req[s]) \cap Pooled(pool') \subseteq lapsed',
           Holds(q) \cap (Pooled(pool') \cup Queued(blocks)) \subseteq lapsed'
    PROVE  PromiseInv'
<1>1. /\ req'[r] = q /\ \A s \in Request : s # r => req'[s] = req[s]
      /\ \A s \in Request : Drafted(req[s]) \subseteq Holds(req[s])
  BY DEF Drafted, Holds
<1>2. \A s, t \in Request : s # t => Holds(req'[s]) \cap Drafted(req'[t]) \subseteq lapsed'
  BY <1>1 DEF PromiseInv
<1>3. \A s \in Request : Holds(req'[s]) \cap (Pooled(pool') \cup Queued(blocks')) \subseteq lapsed'
  BY <1>1 DEF PromiseInv
<1>4. \A s \in Request : Drafted(req'[s]) \subseteq used' \cup lapsed'
  BY <1>1 DEF PromiseInv
<1>5. Queued(blocks') \subseteq used' \cup lapsed'
  BY DEF PromiseInv
<1> QED
  BY <1>2, <1>3, <1>4, <1>5 DEF PromiseInv, Holds, Drafted, Queued, Pooled

(* A scan picks no marked coin; a mark is cleared only with a note. *)
LEMMA NextPromiseInv ==
    ASSUME LedgerInv, PromiseInv, [Next]_vars
    PROVE  PromiseInv'
<1> DEFINE Still == UNCHANGED <<blocks, pool, used, lapsed>>
<1> USE LedgerFacts
<1>i. Holds(Idle) = {} /\ Drafted(Idle) = {}
  BY IdleIs DEF Holds, Drafted
<1>d. \A r \in Request : Drafted(req[r]) \subseteq Holds(req[r])
  BY DEF Drafted, Holds
<1>0. CASE UNCHANGED vars
  BY <1>0 DEF vars, PromiseInv, Holds, Drafted, Queued, Pooled
(* A request that holds nothing afterwards, and one that holds what it held. *)
<1>e. ASSUME NEW r \in Request, NEW q, req' = [req EXCEPT ![r] = q], Still, Holds(q) = {}, Drafted(q) = {}
      PROVE  PromiseInv'
  BY <1>e, PromiseStep DEF PromiseInv
(* Marks are cleared and nothing else happens. *)
<1>u. ASSUME NEW S, Unmark(S), UNCHANGED <<blocks, pool, req>>
      PROVE  PromiseInv'
  <2>1. /\ lapsed \subseteq lapsed'
        /\ \A x \in used \cup lapsed :
             (x \in Queued(blocks) \/ \E s \in Request : x \in Holds(req[s])) => x \in used' \cup lapsed'
    BY <1>u, UnmarkNotes
  <2>2. /\ \A r \in Request : Drafted(req[r]) \subseteq used' \cup lapsed'
        /\ Queued(blocks) \subseteq used' \cup lapsed'
    BY <1>d, <2>1 DEF PromiseInv
  <2>3. /\ \A r, s \in Request : r # s => Holds(req[r]) \cap Drafted(req[s]) \subseteq lapsed'
        /\ \A r \in Request : Holds(req[r]) \cap (Pooled(pool) \cup Queued(blocks)) \subseteq lapsed'
    BY <2>1 DEF PromiseInv
  <2> QED
    BY <1>u, <2>2, <2>3 DEF PromiseInv, Holds, Drafted, Queued, Pooled
<1>1. ASSUME NEW r \in Request, NEW outs, NEW fee, AutoCreate(r, outs, fee)
      PROVE  PromiseInv'
  <2> DEFINE q == [Idle EXCEPT !.pc = "read", !.auto = TRUE, !.outs = outs, !.target = FirstTarget(fee)]
  <2>1. Still /\ req' = [req EXCEPT ![r] = q] /\ q.pc = "read"
    BY <1>1 DEF AutoCreate, Set, Idle
  <2> HIDE DEF q
  <2> QED
    BY <1>e, <2>1 DEF Holds, Drafted
<1>2. ASSUME NEW r \in Request, ReadHeight(r)
      PROVE  PromiseInv'
  <2> DEFINE q == [req[r] EXCEPT !.pc = "scan", !.seen = height]
  <2>1. Still /\ req' = [req EXCEPT ![r] = q] /\ q.pc = "scan"
    BY <1>2 DEF ReadHeight, Set
  <2> HIDE DEF q
  <2> QED
    BY <1>e, <2>1 DEF Holds, Drafted
<1>3. ASSUME NEW r \in Request, Scan(r)
      PROVE  PromiseInv'
  <2>1. Still
    BY <1>3 DEF Scan
  <2>2. PICK q : /\ req' = [req EXCEPT ![r] = q]
                 /\ q.pc \in {"idle", "read", "mark"}
                 /\ q.pc = "mark" => q.coins \subseteq Selectable(req[r].seen)
    BY <1>3, ScanOutcome
  <2>3. Drafted(q) = {} /\ (Holds(q) = {} \/ Holds(q) \subseteq Selectable(req[r].seen))
    BY <2>2 DEF Drafted, Holds
  <2>4. Selectable(req[r].seen) \cap (used \cup Pooled(pool)) = {}
    BY DEF Selectable, Free, InPool, Pooled
  <2>5. Holds(q) \cap used = {} /\ Holds(q) \cap Pooled(pool) = {}
    BY <2>3, <2>4
  <2>6. /\ \A s \in Request : Holds(q) \cap Drafted(req[s]) \subseteq lapsed
        /\ Holds(q) \cap Queued(blocks) \subseteq lapsed
    BY <2>5 DEF PromiseInv
  <2>7. /\ \A s \in Request : Drafted(req[s]) \subseteq used \cup lapsed
        /\ \A s \in Request : Holds(req[s]) \cap Pooled(pool) \subseteq lapsed
    BY DEF PromiseInv
  <2>8. /\ Queued(blocks') = Queued(blocks) /\ Pooled(pool') = Pooled(pool)
        /\ used' = used /\ lapsed' = lapsed
    BY <2>1
  <2>9. /\ Holds(q) \cap (Pooled(pool) \cup Queued(blocks)) \subseteq lapsed
        /\ Drafted(q) \subseteq used
    BY <2>3, <2>5, <2>6
  <2>10. \A s \in Request : Holds(req[s]) \cap Drafted(q) \subseteq lapsed
    BY <2>3
  <2> QED
    BY <2>2, <2>6, <2>7, <2>8, <2>9, <2>10, PromiseStep
<1>4. ASSUME NEW r \in Request, MarkUsedUTXO(r)
      PROVE  PromiseInv'
  <2> DEFINE d == [Idle EXCEPT !.pc = "draft", !.auto = TRUE, !.seen = req[r].seen, !.coins = req[r].coins]
  <2>1. /\ req' = [req EXCEPT ![r] = d] \/ req' = [req EXCEPT ![r] = Idle]
        /\ req[r].pc = "mark" /\ used' = used \cup req[r].coins /\ lapsed' = lapsed \cup Raced(r)
        /\ UNCHANGED <<blocks, pool>>
    BY <1>4 DEF MarkUsedUTXO, Set
  <2>2. d.pc = "draft" /\ d.coins = req[r].coins
    BY DEF Idle
  <2> HIDE DEF d
  <2>3. Holds(d) = req[r].coins /\ Drafted(d) = req[r].coins /\ Holds(req[r]) = req[r].coins
    BY <2>1, <2>2 DEF Holds, Drafted
  <2>4. ASSUME NEW s \in Request, s # r
        PROVE  Holds(req[s]) \cap req[r].coins \subseteq lapsed'
    <3>1. CASE req[s].pc = "mark"
      BY <2>1, <2>4, <3>1 DEF Raced, Holds
    <3>2. CASE req[s].pc # "mark"
      <4>1. Holds(req[s]) = Drafted(req[s])
        BY <3>2 DEF Holds, Drafted
      <4> QED
        BY <2>1, <2>3, <2>4, <4>1 DEF PromiseInv
    <3> QED
      BY <3>1, <3>2
  <2>5. /\ \A s \in Request : s # r => Holds(req[r]) \cap Drafted(req[s]) \subseteq lapsed
        /\ \A s \in Request : Holds(req[s]) \cap (Pooled(pool) \cup Queued(blocks)) \subseteq lapsed
    BY DEF PromiseInv
  <2>6. CASE req' = [req EXCEPT ![r] = d]
    <3>1. /\ lapsed \subseteq lapsed' /\ used \subseteq used' /\ Drafted(d) \subseteq used'
          /\ Queued(blocks') = Queued(blocks) /\ Pooled(pool') = Pooled(pool)
      BY <2>1, <2>3
    <3>2. ASSUME NEW s \in Request, s # r
          PROVE  /\ Holds(d) \cap Drafted(req[s]) \subseteq lapsed'
                 /\ Holds(req[s]) \cap Drafted(d) \subseteq lapsed'
                 /\ Holds(req[s]) \cap Pooled(pool') \subseteq lapsed'
      BY <2>3, <2>4, <2>5, <3>1, <3>2
    <3>3. Holds(d) \cap (Pooled(pool') \cup Queued(blocks)) \subseteq lapsed'
      BY <2>3, <2>5, <3>1
    <3> QED
      BY <2>6, <3>1, <3>2, <3>3, PromiseStep
  <2>7. CASE req' = [req EXCEPT ![r] = Idle]
    BY <1>i, <2>1, <2>5, <2>7, PromiseStep
  <2> QED
    BY <2>1, <2>6, <2>7
<1>5. ASSUME NEW r \in Request, NEW S, NEW outs, NEW from, ManualCreate(r, S, outs, from)
      PROVE  PromiseInv'
  <2> DEFINE d == [Idle EXCEPT !.pc = "draft", !.coins = S]
  <2>1. /\ req' = [req EXCEPT ![r] = d] \/ req' = [req EXCEPT ![r] = Idle]
        /\ used' = used \cup S /\ lapsed' = lapsed \cup S
        /\ UNCHANGED <<blocks, pool>>
    BY <1>5 DEF ManualCreate, Set
  <2>2. d.pc = "draft" /\ d.coins = S
    BY DEF Idle
  <2> HIDE DEF d
  <2>3. Holds(d) = S /\ Drafted(d) = S
    BY <2>2 DEF Holds, Drafted
  <2>4. \A s \in Request : Holds(req[s]) \cap Pooled(pool) \subseteq lapsed
    BY DEF PromiseInv
  <2>5. CASE req' = [req EXCEPT ![r] = d]
    BY <2>1, <2>3, <2>4, <2>5, PromiseStep
  <2>6. CASE req' = [req EXCEPT ![r] = Idle]
    BY <1>i, <2>1, <2>4, <2>6, PromiseStep
  <2> QED
    BY <2>1, <2>5, <2>6
<1>6. ASSUME NEW r \in Request, NEW right, Sign(r, right)
      PROVE  PromiseInv'
  <2> DEFINE q == [req[r] EXCEPT !.pc = "signed"]
  <2>1. /\ req[r].pc = "draft" /\ UNCHANGED <<blocks, pool>>
        /\ \/ req' = [req EXCEPT ![r] = q] /\ UNCHANGED <<used, lapsed>>
           \/ req' = req /\ Unmark(req[r].coins)
    BY <1>6 DEF Sign, Set
  <2>2. q.pc = "signed" /\ q.coins = req[r].coins
    OBVIOUS
  <2> HIDE DEF q
  <2>3. Holds(q) = Holds(req[r]) /\ Drafted(q) = Drafted(req[r])
    BY <2>1, <2>2 DEF Holds, Drafted
  <2>4. CASE req' = [req EXCEPT ![r] = q] /\ UNCHANGED <<used, lapsed>>
    BY <2>1, <2>3, <2>4, PromiseStep DEF PromiseInv
  <2>5. CASE req' = req /\ Unmark(req[r].coins)
    <3>1. /\ lapsed \subseteq lapsed'
          /\ \A c \in used \cup lapsed :
               (c \in Queued(blocks) \/ \E s \in Request : c \in Holds(req[s])) => c \in used' \cup lapsed'
      BY <2>5, UnmarkNotes
    <3> QED
      BY <1>u, <2>1, <2>5
  <2> QED
    BY <2>1, <2>4, <2>5
<1>7. ASSUME NEW r \in Request, NEW accepted, Send(r, accepted)
      PROVE  PromiseInv'
  <2>1. /\ req' = [req EXCEPT ![r] = Idle] /\ req[r].pc = "signed" /\ UNCHANGED blocks
        /\ \/ pool' = pool \cup {req[r].coins} /\ UNCHANGED <<used, lapsed>>
           \/ pool' = pool /\ Unmark(req[r].coins)
    BY <1>7 DEF Send, Set
  <2>2. Drafted(req[r]) = req[r].coins
    BY <2>1 DEF Drafted
  <2>3. CASE pool' = pool \cup {req[r].coins} /\ UNCHANGED <<used, lapsed>>
    <3>1. \A c \in Pooled(pool') : c \in Pooled(pool) \/ c \in req[r].coins
      BY <2>3 DEF Pooled
    <3>2. ASSUME NEW s \in Request, s # r
          PROVE  Holds(req[s]) \cap Pooled(pool') \subseteq lapsed
      <4>1. Holds(req[s]) \cap req[r].coins \subseteq lapsed /\ Holds(req[s]) \cap Pooled(pool) \subseteq lapsed
        BY <2>2, <3>2 DEF PromiseInv
      <4> QED
        BY <3>1, <4>1
    <3> QED
      BY <1>i, <2>1, <2>3, <3>2, PromiseStep
  <2>4. CASE pool' = pool /\ Unmark(req[r].coins)
    <3>1. /\ lapsed \subseteq lapsed'
          /\ \A c \in used \cup lapsed :
               (c \in Queued(blocks) \/ \E s \in Request : c \in Holds(req[s])) => c \in used' \cup lapsed'
      BY <2>4, UnmarkNotes
    <3>2. \A s \in Request : Holds(req[s]) \cap Pooled(pool') \subseteq lapsed'
      BY <2>4, <3>1 DEF PromiseInv
    <3> QED
      BY <1>i, <2>1, <3>1, <3>2, PromiseStep
  <2> QED
    BY <2>1, <2>3, <2>4
<1>8. ASSUME NEW r \in Request, Abandon(r)
      PROVE  PromiseInv'
  BY <1>e, <1>i, <1>8 DEF Abandon, Set
<1>9. ASSUME NEW c \in Coin, Expire(c)
      PROVE  PromiseInv'
  <2>1. Unmark({c}) /\ UNCHANGED <<blocks, pool, req>>
    BY <1>9 DEF Expire
  <2> QED
    BY <1>u, <2>1
<1>10. ASSUME NEW T \in SUBSET pool, NEW N, NodeMine(T, N)
       PROVE  PromiseInv'
  <2> DEFINE B == [spends |-> UNION T, coins |-> N]
  <2>0. /\ blocks' = Append(blocks, B) /\ pool' = pool \ T
        /\ lapsed' = lapsed \cup ((UNION T) \ used) /\ UNCHANGED <<used, req>>
    BY <1>10 DEF NodeMine
  <2>1. /\ blocks' = Append(blocks, B) /\ pool' = pool \ T
        /\ lapsed' = lapsed \cup (Pooled(T) \ used) /\ UNCHANGED <<used, req>>
    <3>1. UNION T = Pooled(T)
      BY DEF Pooled
    <3> QED
      BY <2>0, <3>1
  <2>2. Queued(blocks') = Queued(blocks) \cup Pooled(T)
    <3>1. blocks \in Seq([spends : SUBSET Coin, coins : SUBSET Coin]) /\ B.spends = Pooled(T)
      BY DEF LedgerInv, QueueInv, Pooled
    <3> HIDE DEF B
    <3>2. /\ DOMAIN blocks = 1..Len(blocks) /\ Len(blocks) \in Nat
          /\ DOMAIN blocks' = 1..(Len(blocks) + 1)
          /\ \A i \in 1..Len(blocks) : blocks'[i] = blocks[i]
          /\ blocks'[Len(blocks) + 1] = B
      BY <2>1, <3>1
    <3>3. \A i \in DOMAIN blocks' : i \in DOMAIN blocks \/ i = Len(blocks) + 1
      BY <3>2
    <3>4. DOMAIN blocks \subseteq DOMAIN blocks' /\ Len(blocks) + 1 \in DOMAIN blocks'
      BY <3>2
    <3> QED
      BY <3>1, <3>2, <3>3, <3>4 DEF Queued
  <2>3. Pooled(pool') \subseteq Pooled(pool) /\ Pooled(T) \subseteq Pooled(pool)
    BY <2>1 DEF Pooled
  <2>4. lapsed \subseteq lapsed' /\ used' = used
    BY <2>1
  <2>5. /\ \A r, s \in Request : r # s => Holds(req[r]) \cap Drafted(req[s]) \subseteq lapsed'
        /\ \A r \in Request : Drafted(req[r]) \subseteq used' \cup lapsed'
    BY <2>4 DEF PromiseInv
  <2>6. Queued(blocks') \subseteq used' \cup lapsed'
    <3>1. Queued(blocks) \subseteq used \cup lapsed
      BY DEF PromiseInv
    <3> QED
      BY <2>1, <2>2, <3>1
  <2>7. ASSUME NEW r \in Request
        PROVE  Holds(req[r]) \cap (Pooled(pool') \cup Queued(blocks')) \subseteq lapsed'
    <3>1. Holds(req[r]) \cap (Pooled(pool) \cup Queued(blocks)) \subseteq lapsed
      BY DEF PromiseInv
    <3> QED
      BY <2>2, <2>3, <2>4, <3>1
  <2> QED
    BY <2>1, <2>5, <2>6, <2>7 DEF PromiseInv, Holds, Drafted, Queued, Pooled
<1>11. CASE ConnectBlock
  <2>1. blocks # <<>> /\ blocks' = Tail(blocks) /\ UNCHANGED <<pool, used, req, lapsed>>
    BY <1>11 DEF ConnectBlock
  <2>2. Queued(blocks') \subseteq Queued(blocks)
    <3>1. blocks \in Seq([spends : SUBSET Coin, coins : SUBSET Coin])
      BY DEF LedgerInv, QueueInv
    <3>2. \A i \in DOMAIN blocks' : i + 1 \in DOMAIN blocks /\ blocks'[i] = blocks[i + 1]
      BY <2>1, <3>1
    <3> QED
      BY <3>2 DEF Queued
  <2>3. /\ \A r \in Request : Holds(req[r]) \cap (Pooled(pool) \cup Queued(blocks')) \subseteq lapsed
        /\ Queued(blocks') \subseteq used \cup lapsed
    BY <2>2 DEF PromiseInv
  <2> QED
    BY <2>1, <2>3 DEF PromiseInv, Holds, Drafted, Queued, Pooled
<1>12. CASE Restart
  <2>1. /\ used' = {} /\ pool' = {} /\ UNCHANGED blocks
        /\ lapsed' = lapsed \cup (UNION pool) \cup {c \in used : Promised(c)}
        /\ req' = [r \in Request |-> IF req[r].pc \in {"draft", "signed"} THEN req[r] ELSE Idle]
    BY <1>12 DEF Restart
  <2>2. \A r \in Request : /\ Holds(req'[r]) \subseteq Holds(req[r])
                           /\ Drafted(req'[r]) = Drafted(req[r])
    BY <1>i, <2>1 DEF Holds, Drafted
  <2>3. \A c \in used : (c \in Queued(blocks) \/ \E r \in Request : c \in Holds(req[r])) => c \in lapsed'
    <3>1. \A c : (c \in Queued(blocks) \/ \E r \in Request : c \in Holds(req[r])) => Promised(c)
      BY DEF Promised, InQueue, Queued, Holds, Live
    <3>2. \A c \in used : Promised(c) => c \in lapsed'
      BY <2>1
    <3> QED
      BY <3>1, <3>2
  <2>4. /\ \A r, s \in Request : r # s => Holds(req'[r]) \cap Drafted(req'[s]) \subseteq lapsed'
        /\ \A r \in Request : Holds(req'[r]) \cap (Pooled(pool') \cup Queued(blocks)) \subseteq lapsed'
    <3>1. lapsed \subseteq lapsed' /\ Pooled(pool') = {}
      BY <2>1 DEF Pooled
    <3> QED
      BY <2>2, <3>1 DEF PromiseInv
  <2>5. /\ \A r \in Request : Drafted(req'[r]) \subseteq used' \cup lapsed'
        /\ Queued(blocks) \subseteq used' \cup lapsed'
    BY <1>d, <2>1, <2>2, <2>3 DEF PromiseInv
  <2> QED
    BY <2>1, <2>4, <2>5 DEF PromiseInv, Holds, Drafted, Queued, Pooled
<1> QED
  BY <1>0, <1>1, <1>2, <1>3, <1>4, <1>5, <1>6, <1>7, <1>8, <1>9, <1>10, <1>11, <1>12 DEF Next

(* However many sessions create, sign, send and abandon transactions at    *)
(* once, with blocks and restarts in between, a coin is promised to two of *)
(* them only when its mark lapsed.                                         *)
THEOREM PromisesHold == Spec => []PromisedOnce
<1>1. Init => PromiseInv
  BY IdleIs DEF Init, PromiseInv, Holds, Drafted, Queued, Pooled
<1>2. ASSUME PromiseInv
      PROVE  PromisedOnce
  <2> SUFFICES ASSUME NEW r \in Request, Live(r), NEW c \in req[r].coins, c \notin lapsed
               PROVE  /\ ~InPool(c) /\ ~InQueue(c)
                      /\ \A s \in Request \ {r} : req[s].pc \in {"draft", "signed"} => c \notin req[s].coins
    BY DEF PromisedOnce
  <2>1. c \in Holds(req[r])
    BY DEF Holds, Live
  <2>2. c \notin Pooled(pool) /\ c \notin Queued(blocks)
    BY <1>2, <2>1 DEF PromiseInv
  <2>3. \A s \in Request \ {r} : c \notin Drafted(req[s])
    BY <1>2, <2>1 DEF PromiseInv
  <2> QED
    BY <2>2, <2>3 DEF InPool, InQueue, Queued, Drafted, Pooled
<1> QED
  BY <1>1, <1>2, InitLedgerInv, NextLedgerInv, NextPromiseInv, PTL DEF Spec
=============================================================================
