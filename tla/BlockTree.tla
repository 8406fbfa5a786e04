----------------------------- MODULE BlockTree -----------------------------
(***************************************************************************)
(* The block tree the full node (mass-core) maintains, as far as the       *)
(* wallet can see it through ifc.ChainFetcher and block headers.  It is    *)
(* external to the repository: the wallet only compares hashes, follows    *)
(* header.Previous and reads header.Height.  A block and its hash are      *)
(* identified.                                                             *)
(***************************************************************************)
EXTENDS Naturals

CONSTANTS
    Block,      \* the blocks that exist in a behaviour
    Genesis,    \* chainParams.GenesisBlock
    Prev,       \* header.Previous
    Height      \* header.Height

ASSUME BlockTreeAssumption ==
    /\ Genesis \in Block
    /\ Prev \in [Block -> Block]
    /\ Height \in [Block -> Nat]
    /\ Height[Genesis] = 0
    /\ \A b \in Block \ {Genesis} : Height[b] = Height[Prev[b]] + 1

(* The blocks on the branch that ends in b. *)
Branch[b \in Block] == IF b = Genesis THEN {b} ELSE {b} \cup Branch[Prev[b]]

=============================================================================
