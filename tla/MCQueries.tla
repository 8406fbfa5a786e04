----------------------------- MODULE MCQueries -----------------------------
(* The instance of MCNtfnsHandler with the queries.  The branch of a2 is   *)
(* longer, so that the stake of t1 is mined, locked, free and withdrawn;   *)
(* on the other branch it is withdrawn into a binding, which t7 withdraws, *)
(* all in one block.                                                       *)
EXTENDS MCNtfnsHandler, ApiQueries

MCMinConfs == {0, 1, 2}

QBlock == MCBlock \cup {"a5"}
QPrev == [b \in QBlock |-> IF b = "a5" THEN "a4" ELSE MCPrev[b]]
QHeight == [b \in QBlock |-> IF b = "a5" THEN 5 ELSE MCHeight[b]]
QBlockTxs == [b \in QBlock |->
    CASE b = "a2" -> <<"ca", "t1">> [] b = "a5" -> <<"t3">> [] b = "b3" -> <<"t1", "t2", "t3", "t7">>
      [] OTHER -> MCBlockTxs[b]]

QTx == MCTx \cup {"t7"}
QTxIns == [t \in QTx |-> IF t = "t7" THEN << <<"t3", 1>> >> ELSE MCTxIns[t]]
QTxOuts == [t \in QTx |-> IF t = "t7" THEN << Out("x2", 4, "std") >> ELSE MCTxOuts[t]]

(* A stake, a binding of it and the withdrawal of that. *)
QRelayed == {"t1", "t3", "t7"}
=============================================================================
