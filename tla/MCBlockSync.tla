---------------------------- MODULE MCBlockSync ----------------------------
(* Instances of BlockSync: a tree with three branches                      *)
(*     g - a1 - a2                                                         *)
(*       \ b1 - b2 - b3                                                    *)
(*               \ c3 - c4                                                 *)
(* so that a move of the node can extend, replace one block or several,    *)
(* and fork off inside a branch the wallet is still connecting.            *)
EXTENDS BlockSync

MCBlock == {"g", "a1", "a2", "b1", "b2", "b3", "c3", "c4"}
MCGenesis == "g"
MCPrev == [b \in MCBlock |->
    CASE b \in {"g", "a1", "b1"} -> "g"
      [] b = "a2" -> "a1" [] b = "b2" -> "b1"
      [] b \in {"b3", "c3"} -> "b2" [] b = "c4" -> "c3"]
MCHeight == [b \in MCBlock |->
    CASE b = "g" -> 0 [] b \in {"a1", "b1"} -> 1 [] b \in {"a2", "b2"} -> 2
      [] b \in {"b3", "c3"} -> 3 [] b = "c4" -> 4]
=============================================================================
