--------------------------- MODULE CoinSelection ---------------------------
(***************************************************************************)
(* utxo_selector.go, tx.go and common.go: which coins pay for a            *)
(* transaction, what it costs and what comes back as change.               *)
(*                                                                         *)
(* A coin is [id, amount].  sort.Slice may put equal coins in any order,   *)
(* which makes no difference to an amount.  Addresses, scripts and sums    *)
(* above MaxAmount are left out.                                           *)
(***************************************************************************)
EXTENDS Naturals, Sequences, FiniteSets, FiniteSetsExt, SequencesExt

CONSTANTS
    K,                  \* selector.K(): the coins that fit in a transaction
    MinRelayTxFee,
    InputSize, OutputSize, BaseSize,    \* of estimateSignedSize
    FeeUnit,            \* bytes that MinRelayTxFee pays for, 1000
    DustLimit,          \* external: blockchain.IsDust
    Wallets,            \* bound: the coin lists tried, sequences of amounts
    Payments,           \* bound: the outputs tried, sequences of amounts
    UserFees            \* bound: the fees a caller asks for, 0 for none

ASSUME SelectionAssumption ==
    /\ K \in Nat \ {0} /\ MinRelayTxFee \in Nat \ {0} /\ FeeUnit \in Nat \ {0}
    /\ InputSize \in Nat /\ OutputSize \in Nat /\ BaseSize \in Nat /\ DustLimit \in Nat
    /\ \A amounts \in Wallets : amounts \in Seq(Nat \ {0})
    /\ \A outs \in Payments : outs \in Seq(Nat)
    /\ UserFees \subseteq Nat

SeqSum(values) ==
    LET sum[i \in 0..Len(values)] == IF i = 0 THEN 0 ELSE sum[i - 1] + values[i]
    IN  sum[Len(values)]

Total(coins) == SeqSum([i \in DOMAIN coins |-> coins[i].amount])

-----------------------------------------------------------------------------
(* topKSelector: base is a heap of the K largest coins up to requireAmt,   *)
(* the smallest on top; guard is the smallest coin above it.               *)

Swap(s, i, j) == [s EXCEPT ![i] = s[j], ![j] = s[i]]

(* One level of adjust: the smaller child moves up.  The loop ends at a     *)
(* coin that is in place, or below the last parent; K levels are enough.    *)
SiftDown(h) ==
    LET left == 2 * h.cur
        child == IF left + 1 <= K /\ h.base[left].amount > h.base[left + 1].amount
                 THEN left + 1 ELSE left
    IN  IF h.cur <= K \div 2 /\ h.base[h.cur].amount > h.base[child].amount
        THEN [base |-> Swap(h.base, h.cur, child), cur |-> child] ELSE h

adjust(base, cur) ==
    LET sift[l \in 0..K] == IF l = 0 THEN [base |-> base, cur |-> cur] ELSE SiftDown(sift[l - 1])
    IN  sift[K].base

Heapify(base) ==
    LET heap[i \in 0..(K \div 2)] ==
            IF i = 0 THEN base ELSE adjust(heap[i - 1], K \div 2 + 1 - i)
    IN  heap[K \div 2]

submit(s, item, requireAmt) ==
    IF item.amount > requireAmt
    THEN IF s.guard = <<>> \/ item.amount < s.guard[1].amount
         THEN [s EXCEPT !.guard = <<item>>] ELSE s
    ELSE IF Len(s.base) < K
    THEN LET base == Append(s.base, item)
         IN  [s EXCEPT !.base = IF Len(base) = K THEN Heapify(base) ELSE base]
    ELSE IF item.amount > s.base[1].amount
    THEN [s EXCEPT !.base = adjust([@ EXCEPT ![1] = item], 1)]
    ELSE s

Items(utxos, requireAmt) ==
    LET s[i \in 0..Len(utxos)] ==
            IF i = 0 THEN [base |-> <<>>, guard |-> <<>>]
            ELSE submit(s[i - 1], utxos[i], requireAmt)
        end == s[Len(utxos)]
    IN  end.base \o end.guard

-----------------------------------------------------------------------------
(* optOutputs: largest first, leaving out what would exceed the amount;    *)
(* the smallest coin, or the last one left out, closes the gap.            *)

(* The coins up to coin i in the order, larger ones first. *)
Ahead(utxos, i) ==
    {j \in DOMAIN utxos : \/ utxos[j].amount > utxos[i].amount
                          \/ utxos[j].amount = utxos[i].amount /\ j <= i}

Rank(utxos, i) == Cardinality(Ahead(utxos, i))

Largest(utxos) == [k \in DOMAIN utxos |-> utxos[CHOOSE i \in DOMAIN utxos : Rank(utxos, i) = k]]

(* Mutant form: the coins chosen after the one left out are kept. *)
AllSelected(selected, lastUnsel) == selected \cup {lastUnsel}

Before(selected, lastUnsel) == {i \in selected : i < lastUnsel} \cup {lastUnsel}

OptStep(s, amount, sorted, i) ==
    LET opt == s.opt + sorted[i].amount
    IN  IF s.done THEN s
        ELSE IF i = Len(sorted)
        THEN [s EXCEPT !.done = TRUE,
                       !.sel = IF opt < amount /\ s.unsel # {}
                               THEN Before(@ \cup {i}, Max(s.unsel)) ELSE @ \cup {i}]
        ELSE IF opt > amount THEN [s EXCEPT !.unsel = @ \cup {i}]
        ELSE [s EXCEPT !.opt = opt, !.sel = @ \cup {i}, !.done = (opt = amount)]

(* The k-th smallest of a set of indices. *)
Nth(S, k) == CHOOSE i \in S : Cardinality({j \in S : j <= i}) = k

optOutputs(amount, utxos) ==
    LET sorted == Largest(utxos)
        s[i \in 0..Len(sorted)] ==
            IF i = 0 THEN [opt |-> 0, sel |-> {}, unsel |-> {}, done |-> FALSE]
            ELSE OptStep(s[i - 1], amount, sorted, i)
        end == s[Len(sorted)]
    IN  [i \in 1..Cardinality(end.sel) |-> sorted[Nth(end.sel, i)]]

Eligible(utxos, selections) ==
    [coins |-> selections, found |-> Total(selections),
     overfull |-> Len(utxos) = K /\ Len(utxos) = Len(selections)]

findEligibleUtxos(amount, coins) ==
    LET utxos == Items(coins, amount) IN Eligible(utxos, optOutputs(amount, utxos))

-----------------------------------------------------------------------------
(* Fees.  CalcMinRequiredTxRelayFee is external (blockchain). *)

CalcMinRequiredTxRelayFee(size) ==
    Max({(size * MinRelayTxFee) \div FeeUnit} \cup
        (IF size * MinRelayTxFee < FeeUnit THEN {MinRelayTxFee} ELSE {}))

estimateSignedSize(inputs, outputs) == inputs * InputSize + outputs * OutputSize + BaseSize

RequiredFee(inputs, outputs) == CalcMinRequiredTxRelayFee(estimateSignedSize(inputs, outputs))

Failure(err) == [err |-> err]
Made(coins, outs, change, fee) ==
    [err |-> "none", coins |-> coins, outs |-> outs, change |-> change, fee |-> fee]

(* Mutant form: the fee of the transaction without its change output. *)
FeeWithoutChange(coins, outs, change) == RequiredFee(Len(coins), Len(outs))

(* The payload, which counts too, is left out. *)
PickedFee(coins, outs, change) ==
    RequiredFee(Len(coins), Len(outs) + (IF change # 0 THEN 1 ELSE 0))

(* One turn of autoConstructTxInAndChangeTxOut.  adj asks for more, so that *)
(* the change is not dust; a turn that found the fee too low starts over    *)
(* with the fee of what it picked.                                          *)
Outcome(r, outs, targetTxFee, adj, want) ==
    LET change == r.found - want
    IN  IF r.found < want + adj
        THEN Failure(IF r.overfull THEN "ErrOverfullUtxo" ELSE "ErrInsufficientFunds")
        ELSE IF change # 0 /\ change < MinRelayTxFee
        THEN [err |-> "retry", target |-> targetTxFee, adj |-> MinRelayTxFee]
        ELSE IF targetTxFee < PickedFee(r.coins, outs, change)
        THEN [err |-> "retry", target |-> PickedFee(r.coins, outs, change), adj |-> 0]
        ELSE Made(r.coins, outs, change, targetTxFee)

Attempt(coins, outs, targetTxFee, adj) ==
    LET want == targetTxFee + SeqSum(outs)
    IN  Outcome(findEligibleUtxos(want + adj, coins), outs, targetTxFee, adj, want)

(* The most that PickedFee asks for; every fee is tried twice at most. *)
LargestFee(outs) == Max({MinRelayTxFee, RequiredFee(K, Len(outs) + 1)})

NextTurn(coins, outs, a) ==
    IF a.err = "retry" THEN Attempt(coins, outs, a.target, a.adj) ELSE a

Construct(coins, outs, targetTxFee, adj) ==
    LET turn[n \in 0..(2 * LargestFee(outs))] ==
            IF n = 0 THEN Attempt(coins, outs, targetTxFee, adj)
            ELSE NextTurn(coins, outs, turn[n - 1])
    IN  turn[2 * LargestFee(outs)]

FirstTarget(userTxFee) == IF userTxFee = 0 THEN MinRelayTxFee ELSE userTxFee

autoConstructTxInAndChangeTxOut(coins, outs, userTxFee) ==
    Construct(coins, outs, FirstTarget(userTxFee), 0)

-----------------------------------------------------------------------------
(* CreateRawTransaction: the caller names the coins, and may let some of   *)
(* the receivers pay the fee.  from is the set of those receivers.         *)

eachSub(from, fee) == (fee + Cardinality(from) - 1) \div Cardinality(from)

SubtractsTooMuch(outs, from, fee) == \E i \in from : outs[i] < eachSub(from, fee)

maybeSubtractFeeFromAmounts(outs, from, fee) ==
    [i \in DOMAIN outs |-> IF i \in from THEN outs[i] - eachSub(from, fee) ELSE outs[i]]

TotalAndFee(outs, from, fee) ==
    IF from = {} THEN SeqSum(outs) + fee
    ELSE SeqSum(maybeSubtractFeeFromAmounts(outs, from, fee))
         + eachSub(from, fee) * Cardinality(from)

(* constructTxOut, and the fee as what the outputs leave. *)
WithChange(coins, outs, from, fee, change) ==
    LET new == maybeSubtractFeeFromAmounts(outs, from, fee)
    IN  IF \E i \in DOMAIN new : new[i] < DustLimit THEN Failure("ErrDustAmount")
        ELSE IF change # 0 /\ change < DustLimit THEN Failure("ErrDustChange")
        ELSE Made(coins, new, change, Total(coins) - SeqSum(new) - change)

CreateRawTransaction(coins, outs, from) ==
    LET totalIn == Total(coins)
        noChange == RequiredFee(Len(coins), Len(outs))
        withChange == RequiredFee(Len(coins), Len(outs) + 1)
    IN  IF SubtractsTooMuch(outs, from, noChange) THEN Failure("ErrInvalidAmount")
        ELSE IF totalIn < TotalAndFee(outs, from, noChange) THEN Failure("ErrNotEnoughInputs")
        ELSE IF totalIn = TotalAndFee(outs, from, noChange)
        THEN WithChange(coins, outs, from, noChange, 0)
        ELSE IF SubtractsTooMuch(outs, from, withChange) THEN Failure("ErrInvalidAmount")
        ELSE IF totalIn <= TotalAndFee(outs, from, withChange) THEN Failure("ErrNotEnoughInputs")
        ELSE WithChange(coins, outs, from, withChange,
                        totalIn - TotalAndFee(outs, from, withChange))

-----------------------------------------------------------------------------
Coins(amounts) == [i \in DOMAIN amounts |-> [id |-> i, amount |-> amounts[i]]]

SumOf(coins, S) == SeqSum([i \in DOMAIN coins |-> IF i \in S THEN coins[i].amount ELSE 0])

(* The most that K coins of the list are worth. *)
Reach(coins) == Max({SumOf(coins, S) : S \in kSubset(Min({K, Len(coins)}), DOMAIN coins)})

WellSelected(r, coins, want) ==
    /\ r.found >= want <=> Reach(coins) >= want
    /\ Len(r.coins) <= K
    /\ IsInjective(r.coins)
    /\ r.found >= want => \A i \in DOMAIN r.coins : r.found - r.coins[i].amount < want

(* The wallets for which the bounded heap, the coin kept aside and the      *)
(* greedy pass together go wrong, as a set that TLC computes once.          *)
Misselected ==
    {amounts \in Wallets : LET coins == Coins(amounts)
                           IN  \E want \in 1..(Reach(coins) + 1) :
                                 ~WellSelected(findEligibleUtxos(want, coins), coins, want)}

(* What a created transaction moves adds up. *)
Balanced(r) ==
    /\ Total(r.coins) = SeqSum(r.outs) + r.change + r.fee
    /\ r.fee >= RequiredFee(Len(r.coins), Len(r.outs) + (IF r.change # 0 THEN 1 ELSE 0))

AutoBalanced(r, coins, outs, userTxFee) ==
    LET enough == SeqSum(outs) + MinRelayTxFee + Max({userTxFee, LargestFee(outs)})
    IN  IF r.err = "none"
        THEN /\ Balanced(r)
             /\ r.fee >= userTxFee
             /\ r.change = 0 \/ r.change >= MinRelayTxFee
        ELSE Reach(coins) < enough

ManualBalanced(r, coins, outs, from) ==
    r.err = "none" =>
        /\ Balanced(r)
        /\ r.change = 0 \/ r.change >= DustLimit
        /\ \A i \in DOMAIN outs : r.outs[i] >= DustLimit
        /\ from # {} => Total(coins) - r.change = SeqSum(outs)

(* The inputs that fail, as a set that TLC computes once. *)
Unbalanced ==
    {amounts \in Wallets :
        LET coins == Coins(amounts)
        IN  \E outs \in Payments :
              \/ \E userTxFee \in UserFees :
                   ~AutoBalanced(autoConstructTxInAndChangeTxOut(coins, outs, userTxFee),
                                 coins, outs, userTxFee)
              \/ \E from \in SUBSET DOMAIN outs :
                   ~ManualBalanced(CreateRawTransaction(coins, outs, from), coins, outs, from)}
=============================================================================
