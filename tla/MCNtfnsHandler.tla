-------------------------- MODULE MCNtfnsHandler --------------------------
(* Instances of NtfnsHandler.  The tree is                                 *)
(*     g - p1 - a2 - a3 - a4                                               *)
(*            \ b2 - b3                                                    *)
(* and the transactions pay the wallets w1 (addresses x1, x2) and w2 (y1). *)
EXTENDS NtfnsHandler

MCBlock == {"g", "p1", "a2", "b2", "b3", "a3", "a4"}
MCOneFork == MCBlock \ {"a3", "a4"}
MCGenesis == "g"
MCPrev == [b \in MCBlock |-> CASE b \in {"g", "p1"} -> "g" [] b \in {"a2", "b2"} -> "p1"
                               [] b = "b3" -> "b2" [] b = "a3" -> "a2" [] b = "a4" -> "a3"]
MCHeight == [b \in MCBlock |-> CASE b = "g" -> 0 [] b = "p1" -> 1
                                 [] b \in {"a2", "b2"} -> 2 [] b \in {"a3", "b3"} -> 3
                                 [] b = "a4" -> 4]
OneForkPrev == [b \in MCOneFork |-> MCPrev[b]]
OneForkHeight == [b \in MCOneFork |-> MCHeight[b]]
MCAddr == {"x1", "x2", "y1"}
MCOwner == [a \in MCAddr |-> IF a = "y1" THEN "w2" ELSE "w1"]
W1 == {"w1"}
W12 == {"w1", "w2"}

(* A longer fork, for the node to leave a branch and to return to it:      *)
(*     g - p1 - a2 - a3 - a4 - a5                                          *)
(*            \ b2 - b3 - b4                                               *)
LongBlock == MCBlock \cup {"b4", "a5"}
LongPrev == [b \in LongBlock |-> CASE b = "b4" -> "b3" [] b = "a5" -> "a4" [] OTHER -> MCPrev[b]]
LongHeight == [b \in LongBlock |-> CASE b = "b4" -> 4 [] b = "a5" -> 5 [] OTHER -> MCHeight[b]]

Out(a, v, c) == [addr |-> a, val |-> v, class |-> c]

(* c1 pays w1; t1 spends it to both wallets and stakes; t2 spends what w2  *)
(* got; t3 withdraws the stake into a binding; t4 spends the coinbase of a2.  t5 and its  *)
(* child t6 conflict with t1 and are never mined.                          *)
MCTx == {"c1", "ca", "cb", "t1", "t2", "t3", "t4", "t5", "t6"}
MCCoinbase == {"c1", "ca", "cb"}
MCTxIns == [t \in MCTx |->
    CASE t \in MCCoinbase -> <<>>
      [] t \in {"t1", "t5"} -> << <<"c1", 1>> >>
      [] t = "t2" -> << <<"t1", 2>> >>
      [] t = "t6" -> << <<"t5", 2>> >>
      [] t = "t3" -> << <<"t1", 3>> >>
      [] t = "t4" -> << <<"ca", 1>> >>]
MCTxOuts == [t \in MCTx |->
    CASE t = "c1" -> << Out("x1", 9, "std") >>
      [] t = "ca" -> << Out("x2", 5, "std") >>
      [] t = "cb" -> << Out("y1", 6, "std") >>
      [] t = "t1" -> << Out("x2", 1, "std"), Out("y1", 3, "std"), Out("x1", 4, "staking") >>
      [] t = "t2" -> << Out("foreign", 1, "std"), Out("y1", 2, "std") >>
      [] t = "t3" -> << Out("x1", 4, "binding") >>
      [] t = "t4" -> << Out("x1", 3, "binding"), Out("x2", 2, "std") >>
      [] t = "t5" -> << Out("foreign", 2, "std"), Out("x2", 7, "std") >>
      [] t = "t6" -> << Out("x1", 7, "std") >>]

(* The same transactions are mined on both branches, at other heights. *)
MCBlockTxs == [b \in MCBlock |->
    CASE b = "g" -> <<>>
      [] b = "p1" -> <<"c1">>
      [] b = "a2" -> <<"ca", "t1", "t3">>
      [] b = "b2" -> <<"cb">>
      [] b = "b3" -> <<"t1", "t2", "t3">>
      [] b = "a3" -> <<>>
      [] b = "a4" -> <<"t2">>]

(* t4 is mined in the block after the one that creates what it spends. *)
ChildBlockTxs == [MCBlockTxs EXCEPT !["a3"] = <<"t4">>]

(* For removals: c1 pays w2 and a second time w1 as well; t7 gives what w2 *)
(* got to w1 alone, and t8 gives the other coin of w1 away.                *)
GiftTx == MCTx \cup {"t7", "t8"}
GiftTxIns == [t \in GiftTx |->
    CASE t = "t7" -> << <<"c1", 2>> >>
      [] t = "t8" -> << <<"c1", 3>> >>
      [] OTHER -> MCTxIns[t]]
GiftTxOuts == [t \in GiftTx |->
    CASE t = "c1" -> << Out("x1", 9, "std"), Out("y1", 8, "std"), Out("x1", 2, "std") >>
      [] t = "t7" -> << Out("x2", 8, "std") >>
      [] t = "t8" -> << Out("foreign", 2, "std") >>
      [] OTHER -> MCTxOuts[t]]

(* What w2 gets in a2 is spent in a4, and b2 has nothing for w2: an import *)
(* that reads it instead of a2 does not notice.  Nor does one that reads   *)
(* b3 after a2, which mines t1 again.  Rolling back b2 undoes t8, which    *)
(* pays no wallet; t7 is mined where it is not rolled back.                *)
LongBlockTxs == [b \in LongBlock |->
    CASE b \in {"g", "a3", "b4", "a5"} -> <<>>
      [] b = "p1" -> <<"c1">>
      [] b = "a2" -> <<"ca", "t1">>
      [] b = "b2" -> <<"t8">>
      [] b = "a4" -> <<"t2", "t7">>
      [] b = "b3" -> <<"cb", "t1", "t2">>]

(* Rolling back a2 undoes t7. *)
GiftBlockTxs == [b \in MCOneFork |->
    CASE b = "p1" -> <<"c1">> [] b = "a2" -> <<"t7">> [] OTHER -> <<>>]

RelayT2 == {"t2"}
RelayConflict == {"t5", "t6"}
RelayNone == {}

Moves3Requests0 == {<<3, 0>>}
Moves3Requests1 == {<<3, 1>>}
Moves2Requests1 == {<<2, 1>>}
(* With one API call the node may leave a branch and return to it; with    *)
(* two, it moves once, so that a wallet is removed next to another one     *)
(* without what ReorgChild.cfg shows.                                      *)
ReturnOrGrow == {<<3, 1>>, <<1, 2>>}
=============================================================================
