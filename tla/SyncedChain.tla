---------------------------- MODULE SyncedChain ----------------------------
(***************************************************************************)
(* What the wallet's sync position promises, without saying how reorg      *)
(* finds the fork: the durable state is a chain of blocks from genesis,    *)
(* and every durable change keeps a prefix of it and appends a path whose  *)
(* every block names its predecessor.  The only other change is the        *)
(* header-only catch-up of a wallet manager without ready wallets, which   *)
(* records one more block without such a check.                            *)
(***************************************************************************)
EXTENDS BlockTree

VARIABLE chain      \* height -> block

Init == chain = [h \in {0} |-> Genesis]

IsChain(c) == DOMAIN c \subseteq Nat /\ \E n \in DOMAIN c : DOMAIN c = 0..n

Switch ==
    /\ IsChain(chain')
    /\ \E k \in DOMAIN chain :
          /\ k \in DOMAIN chain'
          /\ \A h \in 0..k : chain'[h] = chain[h]
          /\ \A h \in DOMAIN chain' : h > k => Prev[chain'[h]] = chain'[h - 1]

RecordHeader ==
    \E b \in Block :
        /\ Height[b] \notin DOMAIN chain /\ Height[b] - 1 \in DOMAIN chain
        /\ chain' = [h \in DOMAIN chain \cup {Height[b]} |->
                        IF h = Height[b] THEN b ELSE chain[h]]

Spec == Init /\ [][Switch \/ RecordHeader]_chain

=============================================================================
