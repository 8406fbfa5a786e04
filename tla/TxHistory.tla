----------------------------- MODULE TxHistory -----------------------------
(***************************************************************************)
(* WalletManager.GetTxHistory: the newest transactions that touch the      *)
(* wallet's scripts, read from the chain's index backwards in batches of   *)
(* blocks until the wanted number is reached.                              *)
(*                                                                         *)
(* related[h] is the number of related transactions of block h, counted    *)
(* from 1; a transaction is <<height, position>>.                          *)
(***************************************************************************)
EXTENDS Integers, Sequences, FiniteSets

CONSTANTS
    BlockBatch,
    Related,            \* bound: the chains tried
    Wanted              \* bound: the numbers asked for

ASSUME HistoryAssumption ==
    /\ BlockBatch \in Nat \ {0}
    /\ \A related \in Related : related \in Seq(Nat)
    /\ Wanted \subseteq Nat

TxsAt(related, h) == {<<h, i>> : i \in 1..related[h]}

(* ChainFetcher.FetchScriptHashRelatedTx: blocks start to end - 1. *)
FetchScriptHashRelatedTx(related, start, end) ==
    UNION {TxsAt(related, h) : h \in start..(end - 1)}

(* One block of selectRelatedTx: all its transactions if they fit, of the  *)
(* first block that does not fit the last ones.                            *)
Take(sel, data, num) ==
    LET rest == num - Cardinality(sel.result)
    IN  IF sel.full THEN sel
        ELSE IF Cardinality(data) <= rest
        THEN [result |-> sel.result \cup data, full |-> FALSE]
        ELSE [result |-> sel.result \cup {t \in data : t[2] > Cardinality(data) - rest},
              full |-> TRUE]

(* The newest num of the transactions of blocks start to end - 1, from the *)
(* last block down.                                                        *)
selectRelatedTx(txs, start, end, num) ==
    LET sel[i \in 0..(end - start)] ==
            IF i = 0 THEN [result |-> {}, full |-> FALSE]
            ELSE Take(sel[i - 1], {t \in txs : t[1] = end - i}, num)
    IN  sel[end - start].result

(* Mutant form: the batch before the one at start misses the block between. *)
NextBatchSkips(start) ==
    IF start <= BlockBatch THEN <<1, start - 1>> ELSE <<start - BlockBatch, start - 1>>

calc(start) == IF start <= BlockBatch THEN <<1, start>> ELSE <<start - BlockBatch, start>>

Batch(related, wanted, b) ==
    LET rTxs == FetchScriptHashRelatedTx(related, b.start, b.end)
        rest == wanted - Cardinality(b.taken)
    IN  IF b.done THEN b
        ELSE IF Cardinality(rTxs) > rest
        THEN [b EXCEPT !.taken = @ \cup selectRelatedTx(rTxs, b.start, b.end, rest), !.done = TRUE]
        ELSE [start |-> calc(b.start)[1], end |-> calc(b.start)[2],
              taken |-> b.taken \cup rTxs, done |-> b.start = 1]

FirstBatch(bestHeight) ==
    [start |-> IF bestHeight < BlockBatch THEN 1 ELSE bestHeight - BlockBatch + 1,
     end |-> bestHeight + 1, taken |-> {}, done |-> FALSE]

(* A batch covers a block at least, so there are no more batches than       *)
(* blocks.  wanted = 0 stands for TxHistoryMax and is left out, and so are  *)
(* transactions that the node cannot fetch.                                 *)
GetTxHistory(related, wanted) ==
    LET bestHeight == Len(related)
        b[i \in 0..(bestHeight + 1)] ==
            IF i = 0 THEN FirstBatch(bestHeight) ELSE Batch(related, wanted, b[i - 1])
    IN  b[bestHeight + 1].taken

Newer(a, b) == a[1] > b[1] \/ (a[1] = b[1] /\ a[2] > b[2])

NewestTaken(related, wanted) ==
    LET all == FetchScriptHashRelatedTx(related, 1, Len(related) + 1)
        history == GetTxHistory(related, wanted)
    IN  /\ history \subseteq all
        /\ Cardinality(history) = IF wanted < Cardinality(all) THEN wanted ELSE Cardinality(all)
        /\ \A t \in history, u \in all \ history : Newer(t, u)

(* The inputs that fail, as a set that TLC computes once. *)
WrongHistories == {related \in Related : \E wanted \in Wanted : ~NewestTaken(related, wanted)}
=============================================================================
