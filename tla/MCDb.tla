-------------------------------- MODULE MCDb --------------------------------
(* The drivers, and the rows that txmgr keeps in them.  They have no state *)
(* in common: a behaviour exercises one of the two.                        *)
EXTENDS DbDrivers, LedgerRows

VARIABLE part

A  == <<97>>
B  == <<98>>
AB == <<97, 95, 98>>   \* a_b, no valid bucket name

MCPath  == {<<A>>, <<A, B>>, <<A, B, A>>, <<AB>>}
MCKey   == {<<120>>, <<98, 95, 120>>}   \* x, b_x
MCTrees == {[p \in {} |-> <<>>],
            [p \in {<<A>>, <<A, B>>, <<A, B, A>>} |-> [k \in MCKey |-> <<1>>]]}
MCValue == {<<1>>, <<2>>}

(* Bytes of 16 values; heights 15 and 16 differ in both bytes, and a hash  *)
(* starts like a height.  t2 spends two outputs of t1, t3 one of t2.       *)
MCHash == [t1 |-> <<0, 1>>, t2 |-> <<0, 15>>, t3 |-> <<1, 0>>,
           b0 |-> <<0, 0>>, b1 |-> <<0, 15>>, b2 |-> <<1, 0>>, b3 |-> <<1, 1>>]
Out(w, a, n, c, cl) == [wallet |-> w, address |-> a, amount |-> n, change |-> c,
                        class |-> cl, maturity |-> 3]
MCOuts == [t1 |-> <<Out(<<1>>, <<1, 2>>, 17, FALSE, "std"), Out(<<1>>, <<1, 3>>, 5, FALSE, "staking"),
                    Out(<<0>>, <<1, 2>>, 16, TRUE, "binding")>>,
           t2 |-> <<Out(<<0>>, <<0, 2>>, 20, TRUE, "std"), Out(<<1>>, <<1, 2>>, 1, FALSE, "binding")>>,
           t3 |-> <<Out(<<1>>, <<1, 3>>, 15, FALSE, "staking")>>]
MCIns == [t1 |-> <<>>, t2 |-> <<<<"t1", 1>>, <<"t1", 2>>>>, t3 |-> <<<<"t2", 1>>, <<"t1", 3>>>>]
MCRowBlock == [b0 |-> 14, b1 |-> 15, b2 |-> 16, b3 |-> 16]
MCLoc == [t \in {"t1", "t2", "t3"} |-> [blk \in {"b1", "b2", "b3"} |->
            <<1, MCRowBlock[blk], 17, IF t = "t1" THEN 2 ELSE 15, 3>>]]

MCInit == part \in {"drivers", "rows"} /\ BothInit /\ RowsInit
MCNext == \/ part = "drivers" /\ BothNext /\ UNCHANGED <<rowVars, part>>
          \/ part = "rows" /\ RowsNext /\ UNCHANGED <<bothVars, part>>
MCSpec == MCInit /\ [][MCNext]_<<bothVars, rowVars, part>>
=============================================================================
