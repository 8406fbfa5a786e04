---------------------------- MODULE StakingReward ----------------------------
(***************************************************************************)
(* GetBlockStakingReward (api/block_service.go): who was paid for staking  *)
(* by a block.  The node gives the ranking at the block's height and the   *)
(* block's coinbase, whose payload says how many of its first outputs are  *)
(* staking rewards; the handler joins the two by script hash.  Weights,    *)
(* which the node computed, are left out.                                  *)
(***************************************************************************)
EXTENDS Amounts

CONSTANTS
    Rankings,       \* bound: rankings of script hashes, best first, without repetition
    RewardScripts,  \* bound: scripts of coinbase outputs: a ranked hash or something else
    RewardValues,   \* bound
    StakedAmount    \* script hash -> the sum of its staking transactions

AbnormalData == "ErrAPIAbnormalData"
RewardError == [err |-> AbnormalData, details |-> <<>>]

(* rankToProfit starts at 0 for every rank; a reward for a hash that is    *)
(* not ranked, or that has one already, is unexpected.                     *)
NewProfits(ranks) == [err |-> FALSE, of |-> [h \in Range(ranks) |-> 0]]

AddProfit(p, out) ==
    IF p.err \/ out.hash \notin DOMAIN p.of \/ p.of[out.hash] # 0 THEN [p EXCEPT !.err = TRUE]
    ELSE [p EXCEPT !.of[out.hash] = out.value]

(* The list stops at the first rank without a profit. *)
RewardedRanks(ranks, profit) ==
    LET unpaid == {i \in DOMAIN ranks : profit[ranks[i]] = 0}
    IN  IF unpaid = {} THEN ranks
        ELSE SubSeq(ranks, 1, (CHOOSE i \in unpaid : \A j \in unpaid : i <= j) - 1)

GetBlockStakingReward(ranks, txOuts, numStakingReward) ==
    LET p == FoldLeft(AddProfit, NewProfits(ranks), SubSeq(txOuts, 1, numStakingReward))
        paid == RewardedRanks(ranks, p.of)
        list == [i \in DOMAIN paid |->
                    [rank |-> i, hash |-> paid[i], amount |-> AmountToString(StakedAmount[paid[i]]),
                     profit |-> AmountToString(p.of[paid[i]])]]
    IN  IF p.err THEN RewardError
        ELSE IF \E i \in DOMAIN list : NotString \in {list[i].amount, list[i].profit} THEN RewardError
        ELSE IF numStakingReward # Len(list) THEN RewardError
        ELSE [err |-> "none", details |-> list]

-----------------------------------------------------------------------------
(* What is answered is what the coinbase pays: each reward output once, in *)
(* the order of the ranking, with its amount.  And a coinbase that rewards *)
(* the best ranks, in any order, one positive output each, is answered.    *)
RewardOuts == [hash : RewardScripts, value : RewardValues]
Coinbases == UNION {[1..n -> RewardOuts] : n \in 0..3}

WellFormed(ranks, outs) ==
    /\ Len(outs) <= Len(ranks)
    /\ {o.hash : o \in Range(outs)} = {ranks[i] : i \in 1..Len(outs)}
    /\ \A o \in Range(outs) : o.value > 0 /\ o.value <= MaxAmount /\ StakedAmount[o.hash] <= MaxAmount

Reported(details) == {<<d.hash, StringToAmount(d.profit)>> : d \in Range(details)}

RightReward(ranks, outs, n) ==
    LET rewards == SubSeq(outs, 1, n)
        r == GetBlockStakingReward(ranks, outs, n)
    IN  /\ WellFormed(ranks, rewards) = (r.err # AbnormalData)
        /\ r.err # AbnormalData =>
              /\ Len(r.details) = n
              /\ \A i \in 1..n : r.details[i].rank = i /\ r.details[i].hash = ranks[i]
              /\ Reported(r.details) = {<<o.hash, o.value>> : o \in Range(rewards)}

WrongRewards ==
    {c \in Coinbases : \E ranks \in Rankings, n \in 0..Len(c) : ~RightReward(ranks, c, n)}
=============================================================================
