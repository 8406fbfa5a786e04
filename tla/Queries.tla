------------------------------ MODULE Queries ------------------------------
(***************************************************************************)
(* What the wallet answers from its ledger: balances, unspent outputs,     *)
(* staking and binding histories, and the look-ups that the construction   *)
(* and the signing of a transaction start from.  A query reads buckets     *)
(* that different operations keep (unspent outputs, credits, transaction   *)
(* records, histories, the balance), each of which a reorganisation undoes *)
(* on its own.  Here a query sees one committed state; Spending.tla is     *)
(* about a query that a block overtakes.                                   *)
(***************************************************************************)
EXTENDS NtfnsHandler

CONSTANTS
    CoinbaseMaturity,   \* consensus.CoinbaseMaturity
    FrozenPeriod,       \* of every staking output
    BindingLocked,      \* consensus.MASSIP0002BindingLockedPeriod
    MinConfs            \* confirmations a caller of the balance asks for

ASSUME QueriesAssumption ==
    {CoinbaseMaturity, FrozenPeriod, BindingLocked} \cup MinConfs \subseteq Nat

ErrNotFound == "ErrNotFound"
ErrUnexpected == "unexpected error"
NoPeriod == 0

(* PkScript.Maturity; AddCredits takes CoinbaseMaturity for a coinbase. *)
Maturity(op) ==
    CASE op[1] \in Coinbase -> CoinbaseMaturity
      [] OutOf(op).class = "staking" -> FrozenPeriod + 1
      [] OutOf(op).class = "binding" -> BindingLocked
      [] OTHER -> NoPeriod

(* The node's pool, as CheckPoolOutPointSpend sees it. *)
PoolSpends(op) == \E t \in sent \ TxsOf(Branch[tip]) : op \in Range(TxIns[t])

-----------------------------------------------------------------------------
(* The rows ScriptAddressBalance and ScriptAddressUnspents go through: the *)
(* unspent outputs of the wallet in use whose credit exists, is worth      *)
(* something and pays one of the addresses.                                *)
UnspentRows(w, addrs) ==
    {r \in {[op |-> <<k[2], k[3]>>, blk |-> db.unspent[k]] :
               k \in {x \in DOMAIN db.unspent : x[1] = w}} :
        /\ CreditKey(r.op, r.blk) \in DOMAIN db.credits
        /\ OutOf(r.op).val # 0
        /\ OutOf(r.op).addr \in addrs}

Confirmations(r) == db.syncedTo - Height[r.blk] + 1
IsMature(r) == Confirmations(r) >= Maturity(r.op)
SumOf(rows) == FoldLeft(LAMBDA acc, r : acc + OutOf(r.op).val, 0, SetToSeq(rows))

Detailed(rows, unpooled) ==
    LET free(c) == {r \in unpooled : IsMature(r) /\ OutOf(r.op).class = c}
    IN  [Total |-> SumOf(rows), Spendable |-> SumOf(free(Std)),
         WithdrawableStaking |-> SumOf(free("staking")),
         WithdrawableBinding |-> SumOf(free("binding"))]

(* Mutant: what the node's pool already spends is still spendable. *)
DetailIgnoringPool(rows) == Detailed(rows, rows)

BalanceDetail(rows) == Detailed(rows, {r \in rows : ~PoolSpends(r.op)})

(* The balance of each address asked for. *)
ScriptAddressBalance(w, addrs, minConf) ==
    [a \in addrs |-> BalanceDetail({r \in UnspentRows(w, {a}) : Confirmations(r) >= minConf})]

(* UtxoStore.WalletBalance *)
AddUp(balances, field) ==
    FoldLeft(LAMBDA acc, a : acc + balances[a][field], 0, SetToSeq(DOMAIN balances))
AddressesTogether(balances) ==
    [f \in {"Total", "Spendable", "WithdrawableStaking", "WithdrawableBinding"} |-> AddUp(balances, f)]
SumBalance(w, minConf) == AddressesTogether(ScriptAddressBalance(w, AddrsOf(w), minConf))

GrossBalance(w) == IF w \in DOMAIN db.balance THEN db.balance[w] ELSE ErrNotFound

(* WalletManager.WalletBalance: the details of every address, with the     *)
(* total replaced by the balance kept with each block.                     *)
WalletBalance(w, minConf) ==
    [SumBalance(w, minConf) EXCEPT !.Total = GrossBalance(w)]

(* getUtxos, for GetUtxo and GetAddressBinding.  The credit's own spent    *)
(* flag is read too.  unminedInputs is looked up with the key of the       *)
(* unspent bucket, which has the wallet's name in front of the outpoint,   *)
(* so SpentByUnmined is never set.                                         *)
getUtxos(w, addrs) ==
    {[op |-> r.op, blk |-> r.blk, confirmations |-> Confirmations(r), maturity |-> Maturity(r.op),
      spentByUnmined |-> UnspentKey(r.op) \in DOMAIN db.unminedInputs] :
        r \in {x \in UnspentRows(w, addrs) :
                 db.credits[CreditKey(x.op, x.blk)] = NoSpender /\ ~PoolSpends(x.op)}}

-----------------------------------------------------------------------------
(* The staking and binding histories.  getRawGameHistoryByWalletId: the    *)
(* withdrawn bit is part of the key, so a prefix can leave those out.      *)
MinedGame(w, class, excludeWithdrawn) ==
    {k \in DOMAIN db.game : /\ k[1] = w /\ OutOf(<<k[2], k[3]>>).class = class
                            /\ excludeWithdrawn => ~db.game[k]
                            /\ k[4] # 0}
UnminedGame(w, class) == {k \in db.unminedGame : k[1] = w /\ OutOf(<<k[2], k[3]>>).class = class}

(* getCreditsByTxHashHeight: credits are found by height, not by block. *)
CreditsAt(op, h) == {c \in DOMAIN db.credits : <<c[1], c[2]>> = op /\ Height[c[3]] = h}

Detail(op, h, c) ==
    [op |-> op, height |-> h, spent |-> db.credits[c] # NoSpender,
     spentByUnmined |-> db.credits[c] = NoSpender /\ op \in DOMAIN db.unminedInputs]

MinedDetails(keys) ==
    UNION {{Detail(<<k[2], k[3]>>, k[4], c) : c \in CreditsAt(<<k[2], k[3]>>, k[4])} : k \in keys}

GetUnminedStakingHistoryDetail(w) ==
    {<<k[2], k[3]>> : k \in UnminedGame(w, "staking")} \cap db.unminedCredits

GetStakingHistoryDetail(w, excludeWithdrawn) ==
    MinedDetails(MinedGame(w, "staking", excludeWithdrawn))

(* A binding's details need the transaction itself.  readRawUnmined fails  *)
(* on what a rollback left in the unmined bucket, and the query with it.   *)
BindingQueryFails(w) ==
    \E k \in UnminedGame(w, "binding") : Get(db.unmined, k[2], "msgtx") # "msgtx"

GetUnminedBindingHistoryDetail(w) ==
    {<<k[2], k[3]>> : k \in {x \in UnminedGame(w, "binding") : x[2] \in DOMAIN db.unmined}}
      \cap db.unminedCredits

(* fetchRawTxRecordByTxHashHeight and FetchTxByLoc: an entry whose         *)
(* transaction is not in the node's block at that height is skipped.       *)
Located(t, h) == /\ \E r \in db.txRecords : r[1] = t /\ Height[r[2]] = h
                 /\ h <= Height[tip] /\ t \in Range(BlockTxs[NodeBlock(h)])

GetBindingHistoryDetail(w, excludeWithdrawn) ==
    MinedDetails({k \in MinedGame(w, "binding", excludeWithdrawn) : Located(k[2], k[4])})

-----------------------------------------------------------------------------
(* The look-ups of one output of the wallet in use.  ExistsTx: the block   *)
(* of the transaction, from the unspent outputs or from any credit.        *)
CreditsOf(op) == {c \in DOMAIN db.credits : <<c[1], c[2]>> = op}

ExistsTx(w, op) ==
    LET uk == <<w, op[1], op[2]>>
        blocks == IF uk \in DOMAIN db.unspent THEN {db.unspent[uk]} ELSE {c[3] : c \in CreditsOf(op)}
    IN  {IF <<op[1], b>> \notin db.txRecords THEN ErrUnexpected
         ELSE IF ~Located(op[1], Height[b]) THEN ErrNotFound
         ELSE b : b \in blocks}

ExistUnminedTx(t) == Get(db.unmined, t, ErrNotFound)

(* ExistsUtxo: the flags of an output, or the error.  The unmined credits  *)
(* are looked at only if the transaction has no mined one.                 *)
Flags(spent, op, unmined) ==
    [err |-> NoErr, spent |-> spent, spentByUnmined |-> UnspentKey(op) \in DOMAIN db.unminedInputs,
     isUnmined |-> unmined]
NoFlags(err) == [err |-> err]

ExistsUtxo(w, op) ==
    LET uk == <<w, op[1], op[2]>>
        credited == CreditsOf(op)
    IN  IF uk \in DOMAIN db.unspent
          THEN IF Get(db.credits, CreditKey(op, db.unspent[uk]), <<"absent">>) = NoSpender
                 THEN Flags(FALSE, op, FALSE) ELSE NoFlags(ErrUnexpected)
        ELSE IF credited # {}
          THEN IF \E c \in credited : db.credits[c] = NoSpender
                 THEN NoFlags(ErrUnexpected) ELSE Flags(TRUE, op, FALSE)
        ELSE IF ~ExistCreditFromTx(db, op[1]) /\ op \in db.unminedCredits
          THEN Flags(FALSE, op, TRUE)
        ELSE NoFlags(ErrNotFound)

-----------------------------------------------------------------------------
GamesOn(w, class) ==
    {<<x[1], Height[x[2]], x[1] \in SpentOn(db)>> :
        x \in {y \in OutputsOn(db, w) : OutOf(y[1]).class = class}}
Shown(details) == {<<d.op, d.height, d.spent>> : d \in details}

(* The answers about a ready wallet agree with each other and with the     *)
(* synced chain, whatever blocks, reorganisations and crashes came before: *)
(* the sum of the unspent outputs is the balance kept with each block      *)
(* (the "unequal wallet balance" WalletBalance warns of does not happen);  *)
(* the histories list each staking and binding of the chain once, at its   *)
(* height, spent iff the chain spends it; none is shown both as mined and  *)
(* as unconfirmed, with the exceptions of UnminedCurrent; and the open     *)
(* ones are those the listing still has or a pooled transaction spends.    *)
AnswersAgree ==
    \A w \in SettledWallets :
      LET listed == getUtxos(w, AddrsOf(w))
          staking == GetStakingHistoryDetail(w, FALSE)
          binding == GetBindingHistoryDetail(w, FALSE)
      IN  /\ \A conf \in MinConfs :
                conf <= 1 => SumBalance(w, conf).Total = WalletBalance(w, conf).Total
          /\ Shown(staking) = GamesOn(w, "staking")
          /\ FollowsNode => Shown(binding) = GamesOn(w, "binding")
          /\ FollowsNode =>
                \A d \in staking : d.op \notin GetUnminedStakingHistoryDetail(w) \/ d.op[1] \in RecordedLate
          /\ FollowsNode /\ ~BindingQueryFails(w) =>
                \A d \in binding : d.op \notin GetUnminedBindingHistoryDetail(w) \/ d.op[1] \in RecordedLate
          /\ \A d \in GetStakingHistoryDetail(w, TRUE) :
                PoolSpends(d.op) \/ \E r \in listed : r.op = d.op

(* The look-ups that building and signing a transaction start from answer  *)
(* for the chain the wallet is on: an output of the chain is found in its  *)
(* block, spent iff the chain spends it; never the "unexpected error" of   *)
(* the double checks, of an unspent output without credit or a spent one   *)
(* among the unspent; and one the chain does not have is unconfirmed or    *)
(* not found.                                                              *)
LookupsAgree ==
    \A w \in SettledWallets : \A op \in {o \in UNION {Outs(t) : t \in Tx} : Pays(o, w)} :
      LET on == {x \in OutputsOn(db, w) : x[1] = op}
          flags == ExistsUtxo(w, op)
      IN  /\ flags.err # ErrUnexpected
          /\ on # {} =>
                /\ flags.err = NoErr /\ ~flags.isUnmined
                /\ flags.spent = (op \in SpentOn(db))
                /\ FollowsNode => ExistsTx(w, op) = {x[2] : x \in on}
          /\ on = {} =>
                \/ flags.err = ErrNotFound
                \/ flags.isUnmined /\ ExistUnminedTx(op[1]) # ErrNotFound
=============================================================================
