----------------------------- MODULE MCSpending -----------------------------
(* Instance of Spending, and the bounded inputs of CoinSelection,          *)
(* TxHistory and StakingReward; and TxRequests, which shares no state with *)
(* Spending.                                                               *)
EXTENDS Spending, TxRequests, StakingReward

CONSTANTS c1, c2, g

VARIABLE part

Lists(S, from, to) == UNION {[1..n -> S] : n \in from..to}

MCRelated == Lists(0..2, 0, 7)

MCWallets == Lists({2, 5, 6, 11}, 1, 4)
MCPayments == Lists({1, 4, 9}, 1, 2)
MCAmount == c1 :> 14 @@ c2 :> 11 @@ g :> 14
MCClass == c1 :> "std" @@ c2 :> "std" @@ g :> "staking"
MCMaturity == c1 :> 1 @@ c2 :> 2 @@ g :> 1
MCAutoOuts == {<<9>>}
MCManualIns == {{c1}}

(* "1.2", ".09", "0.040", "", "0..1" and the like *)
MCStrings == Lists({0, 1, 2, 9, Dot}, 0, 5)
MCAmountStrings == {<<Dot, 0, 9>>, <<0, Dot, 0, 4, 0>>, <<>>, <<0, Dot, Dot, 1>>}
MCFeeStrings == {<<0>>, <<0, Dot, 0, 4>>, <<Dot, Dot>>}
MCFeeLimit == <<Dot, 0, 4>>

(* Rewards for ranked hashes and another script, in any order, some twice; *)
(* 1300 is more than there can be.                                         *)
MCRankings == {<<>>, <<"h1">>, <<"h2", "h1">>, <<"h1", "h2", "h3">>}
MCRewardScripts == {"h1", "h2", "other"}
MCStakedAmount == [h1 |-> 1200, h2 |-> 40, h3 |-> 1300, other |-> 0]

MCOwn == {1, 2}
MCPurse ==
    LET coin(value, script, h) == [value |-> value, script |-> script, height |-> h]
        target == Address("target", 5)
    IN  [p1 |-> coin(14, StdScript(1), 1), p2 |-> coin(11, StdScript(2), 1),
         stk |-> coin(12, StakingScript(1, 2), 1),
         old |-> coin(12, BindingScript(1, target), 4), new |-> coin(12, BindingScript(1, target), 5),
         fresh |-> coin(9, StdScript(1), 0), theirs |-> coin(9, StdScript(8), 1)]
MCInputLists ==
    {<<>>, <<"p1">>, <<"p2">>, <<"stk">>, <<"old", "new">>, <<"p1", "p1">>, <<"fresh">>, <<"theirs">>, <<"gone">>}
MCRecipients == {Address("std", 2), Address("std", 7), Address("bad", 9)}
MCAddresses == {Address("std", 1), Address("staking", 1), Address("target", 5), Address("bad", 9)}

MCInit == part \in {"spending", "requests"} /\ Init /\ ReqInit
MCNext == \/ part = "spending" /\ Next /\ UNCHANGED <<reqVars, part>>
          \/ part = "requests" /\ ReqNext /\ UNCHANGED <<vars, part>>
MCSpec == MCInit /\ [][MCNext]_<<vars, reqVars, part>> /\ Fairness

(* Amounts survive the trip through their strings: whatever is in the       *)
(* answer of a request that made a transaction, an amount is written as a   *)
(* string that StringToAmount reads as the same amount, and a string is     *)
(* read as the amount it denotes or refused, for fractions of any length,   *)
(* leading and trailing zeros and the largest amount.  And the rewards that *)
(* GetBlockStakingReward puts together from ranking and coinbase are the    *)
(* ones the coinbase pays, or an error where the two do not match.          *)
AmountsFaithful == txn # NoTx => Misread = {} /\ Miswritten = {} /\ WrongRewards = {}
=============================================================================
