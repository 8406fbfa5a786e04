------------------------------- MODULE Ledger -------------------------------
(***************************************************************************)
(* The wallet's ledger: the buckets of txmgr.TxStore and txmgr.UtxoStore   *)
(* and the operations on them, as operators on the contents of one         *)
(* database transaction.  A transaction's intermediate state is a record   *)
(*    [err |-> the error returned so far, db |-> the buckets,              *)
(*     bal |-> the balance map that is written back at the end];           *)
(* once err is set the caller returns and the database rolls back.         *)
(*                                                                         *)
(* An output index is a position in TxOuts[t], i.e. the program's index    *)
(* plus one.  What a key determines (amount, script, class of an output)   *)
(* is not repeated in the value.                                           *)
(***************************************************************************)
EXTENDS BlockTree, Integers, Sequences, FiniteSets, SequencesExt, Functions

CONSTANTS
    Tx,         \* transactions
    TxIns,      \* Tx -> Seq(<<tx, output index>>)
    TxOuts,     \* Tx -> Seq([addr, val, class])
    Coinbase,   \* the coinbase transactions
    BlockTxs,   \* Block -> Seq(Tx)
    Addr,       \* addresses that belong to some wallet
    Owner,      \* Addr -> wallet
    CreditBatch \* the 20000 of removeRelevantCredit

Foreign == "foreign"    \* an address of no wallet
NoSpender == <<>>       \* the value of an unspent credit
Std == "std"
Game == {"staking", "binding"}

ASSUME LedgerAssumption ==
    /\ \A t \in Tx : \A i \in DOMAIN TxIns[t] :
          TxIns[t][i][1] \in Tx /\ TxIns[t][i][2] \in DOMAIN TxOuts[TxIns[t][i][1]]
    /\ \A t \in Tx : \A i \in DOMAIN TxOuts[t] :
          /\ TxOuts[t][i].addr \in Addr \cup {Foreign}
          /\ TxOuts[t][i].val \in Nat /\ TxOuts[t][i].class \in {Std} \cup Game
    /\ \A t \in Coinbase : TxIns[t] = <<>>
    /\ \A b \in Block : \A i \in DOMAIN BlockTxs[b] : BlockTxs[b][i] \in Tx

(* Functions as buckets. *)
Put(f, k, v) == [x \in DOMAIN f \cup {k} |-> IF x = k THEN v ELSE f[x]]
Del(f, S) == Restrict(f, DOMAIN f \ S)
Get(f, k, default) == IF k \in DOMAIN f THEN f[k] ELSE default
EmptyBucket == <<>>

OutOf(op) == TxOuts[op[1]][op[2]]
IsGame(op) == OutOf(op).class \in Game

(* The keystore manager finds the wallet of an address it manages. *)
Managed(db, op) == OutOf(op).addr \in db.keys
WalletOf(op) == Owner[OutOf(op).addr]
Outs(t) == {<<t, i>> : i \in DOMAIN TxOuts[t]}

UnspentKey(op) == <<WalletOf(op), op[1], op[2]>>
CreditKey(op, b) == <<op[1], op[2], b>>
GameKey(op, b) == <<WalletOf(op), op[1], op[2], Height[b]>>
UnminedGameKey(op) == <<WalletOf(op), op[1], op[2]>>

(* A binding's holder has the row of the standard address. *)
AddressKey(op) == <<OutOf(op).addr, IF OutOf(op).class = "staking" THEN "staking" ELSE Std>>

(* The errors the callers tell apart: asyncImport gives up on the second. *)
NoErr == "none"
CreditNotFound == "ErrUnexpectedCreditNotFound"
OtherErr == "other"
Failed(s) == s.err # NoErr
Error(s) == [s EXCEPT !.err = OtherErr]

(* The loops over inputs, outputs and transactions stop at the first error. *)
Fold(s, seq, Step(_, _)) ==
    FoldLeft(LAMBDA acc, x : IF Failed(acc) THEN acc ELSE Step(acc, x), s, seq)

Then(s, F(_)) == IF Failed(s) THEN s ELSE F(s)

AddBal(s, w, v) == [s EXCEPT !.bal = Put(@, w, Get(@, w, 0) + v)]
SubBal(s, w, v) ==      \* Amount.Sub fails below zero
    IF Get(s.bal, w, 0) < v THEN Error(s)
    ELSE [s EXCEPT !.bal = Put(@, w, Get(@, w, 0) - v)]

(* A transaction as filterTx sees it: its relevant inputs and outputs. *)
TxRecord(t, ins, outs) == [tx |-> t, ins |-> ins, outs |-> outs]

-----------------------------------------------------------------------------
(* Mutant: a spend without its debit. *)
SpendWithoutDebit(s, t, vin, b) ==
    LET op == TxIns[t][vin]
        uk == UnspentKey(op)
        ck == CreditKey(op, s.db.unspent[uk])
        gk == GameKey(op, s.db.unspent[uk])
    IN  IF uk \notin DOMAIN s.db.unspent THEN [s EXCEPT !.err = CreditNotFound]
        ELSE SubBal([s EXCEPT !.db.credits[ck] = <<t, vin, b>>,
                              !.db.game = IF IsGame(op) THEN Put(@, gk, TRUE) ELSE @,
                              !.db.unspent = Del(@, {uk})],
                    WalletOf(op), OutOf(op).val)

(* updateMinedBalance, one relevant input: spendCredit, withdrawGame,      *)
(* putDebit, deleteRawUnspent.                                             *)
SpendInput(s, t, vin, b) ==
    LET op == TxIns[t][vin]
        uk == UnspentKey(op)
        ck == CreditKey(op, s.db.unspent[uk])
        gk == GameKey(op, s.db.unspent[uk])
    IN  IF uk \notin DOMAIN s.db.unspent THEN [s EXCEPT !.err = CreditNotFound]
        ELSE IF
           \/ Get(s.db.credits, ck, <<"absent">>) # NoSpender
           \/ IsGame(op) /\ Get(s.db.game, gk, TRUE)  \* withdraw game not found
          THEN Error(s)
          ELSE SubBal([s EXCEPT !.db.credits[ck] = <<t, vin, b>>,
                                !.db.game = IF IsGame(op) THEN Put(@, gk, TRUE) ELSE @,
                                !.db.debits = Put(@, <<t, vin, b>>, ck),
                                !.db.unspent = Del(@, {uk})],
                      WalletOf(op), OutOf(op).val)

updateMinedBalance(s, rec, b) ==
    Fold(s, rec.ins, LAMBDA acc, vin : SpendInput(acc, rec.tx, vin, b))

(* Mutant: the spent marks of a mined or removed transaction stay. *)
keepUnminedInputs(s, t) == s

deleteUnminedInputs(s, t) == [s EXCEPT !.db.unminedInputs = Del(@, Range(TxIns[t]))]

(* removeUnminedGameHistory leaves history.vout at zero, so it deletes the *)
(* record of the first output whichever output is a staking or binding.    *)
removeUnminedGameHistory(s, t) ==
    [s EXCEPT !.db.unminedGame = @ \ {<<WalletOf(op), t, 1>> :
                                        op \in {o \in Outs(t) : IsGame(o) /\ Managed(s.db, o)}}]

(* The spenders unminedInputs lists for an outpoint; readRawUnmined can    *)
(* only decode values that insertMemPoolTx wrote.                          *)
Spenders(s, op) == Get(s.db.unminedInputs, op, <<>>)

RECURSIVE removeConflict(_, _)
RemoveSpender(s, t) ==
    IF t \notin DOMAIN s.db.unmined THEN s
    ELSE IF s.db.unmined[t] # "msgtx" THEN Error(s)
    ELSE removeConflict(s, t)

removeConflict(s, t) ==
    LET Uncredit(acc, op) ==
            Then(Fold(acc, Spenders(acc, op), RemoveSpender),
                 LAMBDA r : [r EXCEPT !.db.unminedCredits = @ \ {op}])
        Forget(r) == [r EXCEPT !.db.unmined = Del(@, {t})]
    IN  Then(Fold(s, [i \in DOMAIN TxOuts[t] |-> <<t, i>>], Uncredit),
             LAMBDA r : Forget(removeUnminedGameHistory(deleteUnminedInputs(r, t), t)))

removeDoubleSpends(s, rec) ==
    Then(Fold(s, rec.ins, LAMBDA acc, vin :
              Fold(acc, Spenders(acc, TxIns[rec.tx][vin]), RemoveSpender)),
         LAMBDA r : deleteUnminedInputs(r, rec.tx))

PutBlockRecord(db, t, b) ==
    LET h == Height[b] IN
    [db EXCEPT !.blocks = Put(@, h, IF h \in DOMAIN @ THEN [@[h] EXCEPT !.txs = Append(@, t)]
                                                     ELSE [blk |-> b, txs |-> <<t>>]),
               !.txRecords = @ \cup {<<t, b>>}]

deleteUnminedCredits(s, t) == [s EXCEPT !.db.unminedCredits = @ \ Outs(t)]

insertMinedTx(s, rec, b) ==
    LET t == rec.tx
        Confirm(r) == IF t \notin DOMAIN r.db.unmined THEN r
                      ELSE [deleteUnminedCredits(r, t) EXCEPT !.db.unmined = Del(@, {t})]
    IN  IF <<t, b>> \in s.db.txRecords THEN s
        ELSE Then(updateMinedBalance([s EXCEPT !.db = PutBlockRecord(@, t, b)], rec, b),
                  LAMBDA r : removeDoubleSpends(Confirm(r), rec))

insertMinedTxForImporting(s, rec, b) ==
    LET t == rec.tx
        h == Height[b]
        exists == <<t, b>> \in s.db.txRecords
    IN  IF IF h \in DOMAIN s.db.blocks THEN s.db.blocks[h].blk # b  \* ErrChainReorg
                                       ELSE exists
          THEN Error(s)
          ELSE updateMinedBalance(
                 [s EXCEPT !.db = IF exists THEN @ ELSE PutBlockRecord(@, t, b)], rec, b)

insertUnminedInputs(s, rec) ==
    Fold(s, rec.ins, LAMBDA acc, vin :
         LET op == TxIns[rec.tx][vin] IN
         [acc EXCEPT !.db.unminedInputs = Put(@, op, Append(Spenders(acc, op), rec.tx))])

insertMemPoolTx(s, rec) ==
    IF rec.tx \in Coinbase THEN Error(s)
    ELSE IF rec.tx \in DOMAIN s.db.unmined THEN s
    ELSE insertUnminedInputs([s EXCEPT !.db.unmined = Put(@, rec.tx, "msgtx")], rec)

-----------------------------------------------------------------------------
(* AddCredits, one relevant output of a mined transaction. *)
AddCredit(s, op, b) ==
    LET ck == CreditKey(op, b)
        ak == AddressKey(op)
    IN  IF ck \in DOMAIN s.db.credits THEN Error(s)     \* duplicated credit
        ELSE AddBal([s EXCEPT
                       !.db.addresses = IF Get(@, ak, 0) = 0 THEN Put(@, ak, Height[b]) ELSE @,
                       !.db.credits = Put(@, ck, NoSpender),
                       !.db.unspent = Put(@, UnspentKey(op), b)],
                    WalletOf(op), OutOf(op).val)

RecordGame(s, op, b) ==
    IF ~IsGame(op) THEN s
    ELSE [s EXCEPT !.db.unminedGame = @ \ {UnminedGameKey(op)},
                   !.db.game = Put(@, GameKey(op, b), FALSE)]

RelevantOuts(rec) == [i \in DOMAIN rec.outs |-> <<rec.tx, rec.outs[i]>>]

AddCredits(s, rec, b) ==
    LET s1 == Fold(s, RelevantOuts(rec), LAMBDA acc, op : AddCredit(acc, op, b))
    IN  Fold(s1, RelevantOuts(rec), LAMBDA acc, op : RecordGame(acc, op, b))

addUnminedCredits(s, rec) ==
    LET s1 == Fold(s, RelevantOuts(rec), LAMBDA acc, op :
                 IF op \in acc.db.unminedCredits \/ UnspentKey(op) \in DOMAIN acc.db.unspent
                   THEN Error(acc)
                   ELSE [acc EXCEPT !.db.unminedCredits = @ \cup {op}])
    IN  Fold(s1, RelevantOuts(rec), LAMBDA acc, op :
             IF IsGame(op) THEN [acc EXCEPT !.db.unminedGame = @ \cup {UnminedGameKey(op)}]
                           ELSE acc)

AddRelevantTx(s, rec, b) ==
    Then(insertMinedTx(s, rec, b), LAMBDA r : AddCredits(r, rec, b))

AddRelevantUnminedTx(s, rec) ==
    Then(insertMemPoolTx(s, rec), LAMBDA r : addUnminedCredits(r, rec))

AddRelevantTxForImporting(s, rec, b) ==
    Then(insertMinedTxForImporting(s, rec, b), LAMBDA r : AddCredits(r, rec, b))
-----------------------------------------------------------------------------
(* TxStore.Rollback.  An output of a rolled-back transaction leaves the    *)
(* credits; if its address is still managed, also the unspent outputs and  *)
(* the balance, and the address record goes if this block introduced it.   *)
DropCredit(s, op, b) ==
    LET uk == UnspentKey(op)
        ak == AddressKey(op)
        s1 == [s EXCEPT !.db.credits = Del(@, {CreditKey(op, b)})]
        s2 == IF uk \notin DOMAIN s.db.unspent THEN s1
              ELSE SubBal([s1 EXCEPT !.db.unspent = Del(@, {uk})], WalletOf(op), OutOf(op).val)
    IN  IF CreditKey(op, b) \notin DOMAIN s.db.credits THEN s
        ELSE IF ~Managed(s.db, op) \/ Failed(s2) THEN IF Managed(s.db, op) THEN s2 ELSE s1
        ELSE [s2 EXCEPT !.db.addresses =
                 IF Get(@, ak, 0) = Height[b] /\ Height[b] > 0 THEN Del(@, {ak}) ELSE @]

RollbackOutput(s, op, b) ==
    LET s1 == DropCredit(s, op, b)
        s2 == [s1 EXCEPT !.db.unminedCredits = @ \cup {op}]
    IN  IF CreditKey(op, b) \notin DOMAIN s.db.credits \/ Failed(s1) THEN s1
        ELSE IF ~Managed(s.db, op) \/ ~IsGame(op) THEN s2
        ELSE [s2 EXCEPT !.db.game = IF Get(@, GameKey(op, b), TRUE) THEN @
                                    ELSE Del(@, {GameKey(op, b)}),
                        !.db.unminedGame = @ \cup {UnminedGameKey(op)}]

(* An input: the unmined-input index is rebuilt; a debit is undone. *)
RollbackInput(s, t, vin, b) ==
    LET op == TxIns[t][vin]
        dk == <<t, vin, b>>
        ck == s.db.debits[dk]
        gk == GameKey(op, ck[3])
        s1 == [s EXCEPT !.db.unminedInputs = Put(@, op, Append(Spenders(s, op), t))]
        s2 == [s1 EXCEPT !.db.debits = Del(@, {dk}), !.db.credits[ck] = NoSpender]
        s3 == AddBal([s2 EXCEPT !.db.unspent = Put(@, UnspentKey(op), ck[3])],
                     WalletOf(op), OutOf(op).val)
    IN  IF dk \notin DOMAIN s.db.debits THEN s1
        ELSE IF ck \notin DOMAIN s.db.credits THEN Error(s)
        ELSE IF ~Managed(s.db, op) THEN s2
        ELSE IF ~IsGame(op) THEN s3
        ELSE IF ~Get(s.db.game, gk, FALSE) THEN Error(s)    \* unwithdraw game not found
        ELSE [s3 EXCEPT !.db.game = Put(@, gk, FALSE)]

(* The value moved to the unmined bucket is the transaction record, which  *)
(* is the location of the transaction in the block files.                  *)
RollbackTx(s, t, b) ==
    LET s1 == [s EXCEPT !.db.txRecords = @ \ {<<t, b>>}]
        ops == [i \in DOMAIN TxOuts[t] |-> <<t, i>>]
    IN  IF <<t, b>> \notin s.db.txRecords THEN s
        ELSE IF t \in Coinbase THEN Fold(s1, ops, LAMBDA acc, op : DropCredit(acc, op, b))
        ELSE Fold(Fold([s1 EXCEPT !.db.unmined = Put(@, t, "location")],
                       [i \in DOMAIN TxIns[t] |-> i],
                       LAMBDA acc, vin : RollbackInput(acc, t, vin, b)),
                  ops, LAMBDA acc, op : RollbackOutput(acc, op, b))

RollbackBlock(s, h) ==
    IF h \notin DOMAIN s.db.blocks THEN s
    ELSE LET r == s.db.blocks[h] IN Fold(s, Reverse(r.txs), LAMBDA acc, t : RollbackTx(acc, t, r.blk))

(* The outputs of coinbase transactions that this rollback un-credited. *)
CoinbaseCredits(old, new) ==
    {<<k[1], k[2]>> : k \in {c \in DOMAIN old.credits \ DOMAIN new.credits : c[1] \in Coinbase}}

Rollback(db, height) ==
    LET top == db.syncedTo
        hs == [i \in 1..(top - height + 1) |-> top - i + 1]
        RemoveSpenders(s, op) == Fold(s, Spenders(s, op), RemoveSpender)
        Cleaned(s) == [s EXCEPT !.db.blocks = Del(@, Range(hs))]
    IN  Then(Fold([err |-> NoErr, db |-> db, bal |-> db.balance], hs, RollbackBlock), LAMBDA s1 :
        Then(Fold(Cleaned(s1), SetToSeq(CoinbaseCredits(db, s1.db)), RemoveSpenders), LAMBDA s2 :
             [s2 EXCEPT !.db.balance = s2.bal]))

-----------------------------------------------------------------------------
(* Mutant: the unspent outputs of every wallet go. *)
RemoveAllUnspent(db, w) ==
    [db EXCEPT !.unspent = EmptyBucket,
               !.addresses = RestrictDomain(@, LAMBDA k : Owner[k[1]] # w),
               !.game = RestrictDomain(@, LAMBDA k : k[1] # w),
               !.unminedGame = {k \in @ : k[1] # w},
               !.balance = Del(@, {w})]

(* Removing a wallet.  Phase one of asyncRemove: the buckets keyed by the  *)
(* wallet.                                                                 *)
RemoveByWallet(db, w) ==
    [db EXCEPT !.unspent = RestrictDomain(@, LAMBDA k : k[1] # w),
               !.addresses = RestrictDomain(@, LAMBDA k : Owner[k[1]] # w),
               !.game = RestrictDomain(@, LAMBDA k : k[1] # w),
               !.unminedGame = {k \in @ : k[1] # w},
               !.balance = Del(@, {w})]

Pays(op, w) == OutOf(op).addr \in Addr /\ WalletOf(op) = w

(* removableTxForRemoveWallet: no output pays another managed wallet. *)
Removable(db, t, w) == \A op \in Outs(t) : Managed(db, op) => WalletOf(op) = w

(* Mutant: one batch is taken for all. *)
OneBatch(db, w) ==
    LET all == SetToSeq({k \in DOMAIN db.credits : Pays(<<k[1], k[2]>>, w)})
    IN  [keys |-> {all[i] : i \in {j \in 1..Len(all) : j <= CreditBatch}}, finish |-> TRUE]

(* removeRelevantCredit walks the credits in key order; it stops at the    *)
(* batch limit or when a transaction shows up at a second height.          *)
CreditsToRemove(db, w) ==
    LET all == SetToSeq({k \in DOMAIN db.credits : Pays(<<k[1], k[2]>>, w)})
        fits(i) == /\ i <= CreditBatch
                   /\ \A j \in 1..(i - 1) : all[j][1] = all[i][1] =>
                          Height[all[j][3]] = Height[all[i][3]]
        stops == {i \in 1..Len(all) : ~fits(i)}
        n == IF stops = {} THEN Len(all) ELSE (CHOOSE i \in stops : \A j \in stops : i <= j) - 1
    IN  [keys |-> {all[i] : i \in 1..n}, finish |-> stops = {}]

(* checkBlockRecordAfterTxRemoved *)
ForgetTxs(db, recs) ==
    LET keep(h) == SelectSeq(db.blocks[h].txs, LAMBDA t : ~\E r \in recs : r[1] = t /\ Height[r[2]] = h)
    IN  [db EXCEPT !.txRecords = @ \ recs,
                   !.blocks = [h \in {x \in DOMAIN @ : keep(x) # <<>>} |->
                                  [@[h] EXCEPT !.txs = keep(h)]]]

(* The credits go with the spent marks of their outputs: [db, txs]. *)
removeRelevantUnminedCredit(db, w) ==
    LET ops == {op \in db.unminedCredits : Pays(op, w)}
    IN  [db |-> [db EXCEPT !.unminedCredits = @ \ ops, !.unminedInputs = Del(@, ops)],
         txs |-> {op[1] : op \in ops}]

(* TxStore.RemoveRelevantTx, one batch: [err, db, finish, removed]. *)
RemoveRelevantTx(db, w) ==
    LET u == removeRelevantUnminedCredit(db, w)
        utxs == u.txs \cap DOMAIN db.unmined
        ugone == {t \in utxs : Removable(db, t, w)}
        db1 == [u.db EXCEPT !.unmined = Del(@, ugone)]
        c == CreditsToRemove(db1, w)
        db2 == [db1 EXCEPT !.credits = Del(@, c.keys),
                           !.unminedInputs = Del(@, {<<k[1], k[2]>> : k \in c.keys}),
                           !.debits = Del(@, {db1.credits[k] : k \in c.keys})]
        recs == {r \in db2.txRecords : /\ \E k \in c.keys : k[1] = r[1] /\ Height[k[3]] = Height[r[2]]
                                       /\ Removable(db, r[1], w)}
    IN  IF {a \in db.keys : Owner[a] = w} = {}
          THEN [err |-> NoErr, db |-> db, finish |-> TRUE, removed |-> {}]
          ELSE [err |-> IF \E t \in utxs : db.unmined[t] # "msgtx" THEN OtherErr ELSE NoErr,
                db |-> ForgetTxs(db2, recs),
                finish |-> c.finish,
                removed |-> ugone \cup {r[1] : r \in recs}]

=============================================================================
