---------------------------- MODULE ApiQueries ----------------------------
(***************************************************************************)
(* The queries as the API answers them: balances and unspent outputs per   *)
(* address, the addresses of a wallet, and the staking and binding         *)
(* histories with the status that a user is shown.  The wallet's part of   *)
(* an answer is about its synced chain, and the API adds what the node     *)
(* knows: its best height, and the transactions of its chain.              *)
(* Amounts.tla is about the amounts' text; the staking weights, which are  *)
(* the node's, are left out.                                               *)
(***************************************************************************)
EXTENDS Queries

CONSTANTS
    RewardStart,    \* consensus.StakingTxRewardStart
    Uint64          \* 2^64, scaled down

ASSUME ApiQueriesAssumption == RewardStart \in Nat /\ Uint64 \in Nat \ {0}

ErrAPIQueryDataFailed == "ErrAPIQueryDataFailed"
ErrAPIInvalidParameter == "ErrAPIInvalidParameter"
ErrNoAddress == "address not found"

-----------------------------------------------------------------------------
(* Without addresses in the request, every address of the wallet in use.   *)
AskedFor(w, addrs) == IF addrs = {} THEN AddrsOf(w) ELSE addrs

AddressBalance(w, addrs, confs) ==
    IF AskedFor(w, addrs) \subseteq AddrsOf(w)
      THEN ScriptAddressBalance(w, AskedFor(w, addrs), confs) ELSE ErrNoAddress

GetAddressBalance(w, addrs, confs) ==
    IF confs < 0 THEN ErrAPIInvalidParameter ELSE AddressBalance(w, addrs, confs)

GetWalletBalance(w, confs) ==
    IF confs < 0 THEN ErrAPIInvalidParameter ELSE WalletBalance(w, confs)

(* An address without unspent outputs is not a key of the answer. *)
GetUtxo(w, addrs) ==
    LET rows == getUtxos(w, AskedFor(w, addrs))
    IN  [a \in {OutOf(r.op).addr : r \in rows} |-> {r \in rows : OutOf(r.op).addr = a}]

AddressUtxos(w, addrs) ==
    LET m == GetUtxo(w, addrs) IN {[address |-> a, utxos |-> m[a]] : a \in DOMAIN m}

-----------------------------------------------------------------------------
(* WalletManager.GetAddresses.  An address has a row per class; a staking  *)
(* row stands for the standard address of the same key too: it makes that  *)
(* one used, or listed if it has no row, or, with neither used, hides it.  *)
AddressRows(w, class) == {k \in DOMAIN db.addresses : Owner[k[1]] = w /\ k[2] = class}
UsedRow(k) == db.addresses[k] > 0

StakingAddresses(w) ==
    {[address |-> k[1], used |-> UsedRow(k)] : k \in AddressRows(w, "staking")}

StdAddresses(w) ==
    LET std == {k[1] : k \in AddressRows(w, Std)}
        usedStd == {k[1] : k \in {x \in AddressRows(w, Std) : UsedRow(x)}}
        staked(u) == {s.address : s \in {x \in StakingAddresses(w) : x.used = u}}
        shown == (std \ (staked(FALSE) \ usedStd)) \cup staked(TRUE)
    IN  {[address |-> a, used |-> a \in usedStd \cup staked(TRUE)] : a \in shown}

GetAddresses(w, class) == IF class = "staking" THEN StakingAddresses(w) ELSE StdAddresses(w)

-----------------------------------------------------------------------------
(* The API's staking history.  The age is counted from the node's best     *)
(* height, not from the wallet's, and is unsigned.                         *)
StakingStatus(d, newest) ==
    LET confs == (newest - d.height) % Uint64
        locked == confs < RewardStart \/ confs <= FrozenPeriod
    IN  CASE d.height = 0 -> "pending"
          [] d.height # 0 /\ confs < RewardStart -> "immature"
          [] d.height # 0 /\ locked /\ confs >= RewardStart -> "mature"
          [] d.height # 0 /\ ~locked /\ d.spent -> "withdrawn"
          [] d.height # 0 /\ ~locked /\ ~d.spent /\ d.spentByUnmined -> "withdrawing"
          [] OTHER -> "expired"

Pending(op) == [op |-> op, height |-> 0, spent |-> FALSE, spentByUnmined |-> FALSE]

(* WalletManager.GetStakingHistory: the unconfirmed ones, then the mined.  *)
StakingDetails(w, excludeWithdrawn) ==
    {Pending(op) : op \in GetUnminedStakingHistoryDetail(w)}
      \cup GetStakingHistoryDetail(w, excludeWithdrawn)

GetStakingHistory(w, all) ==
    {[op |-> d.op, height |-> d.height, status |-> StakingStatus(d, Height[tip])] :
        d \in StakingDetails(w, ~all)}

-----------------------------------------------------------------------------
(* The API's binding history.  Who deposited is looked up in the node's    *)
(* database, which has the transactions of its chain: an unconfirmed       *)
(* binding that spends an unconfirmed output fails the whole query.        *)
BindingStatus(d) ==
    CASE d.height = 0 -> "pending"
      [] d.height # 0 /\ d.spent -> "withdrawn"
      [] d.height # 0 /\ ~d.spent /\ d.spentByUnmined -> "withdrawing"
      [] OTHER -> "confirmed"

DepositorsKnown(t) == \A op \in Range(TxIns[t]) : op[1] \in TxsOf(Branch[tip])

(* WalletManager.GetBindingHistory *)
BindingDetails(w, excludeWithdrawn) ==
    {Pending(op) : op \in GetUnminedBindingHistoryDetail(w)}
      \cup GetBindingHistoryDetail(w, excludeWithdrawn)

GetBindingHistory(w, all) ==
    LET details == BindingDetails(w, ~all)
    IN  IF BindingQueryFails(w) \/ \E d \in details : ~DepositorsKnown(d.op[1])
          THEN [err |-> ErrAPIQueryDataFailed, histories |-> {}]
          ELSE [err |-> NoErr, histories |->
                {[op |-> d.op, height |-> d.height, status |-> BindingStatus(d)] : d \in details}]

-----------------------------------------------------------------------------
(* What the balance of an address calls spendable or withdrawable is what  *)
(* the unspent listing offers of it as mature, and the wallet's balance is *)
(* what the listing of all addresses offers.                               *)
AddressAnswersAgree(w) ==
    LET list == AddressUtxos(w, {})
        offered(as, conf) ==
            SumOf({r \in UNION {l.utxos : l \in {x \in list : x.address \in as}} :
                     r.confirmations >= r.maturity /\ r.confirmations >= conf})
        free(b) == b.Spendable + b.WithdrawableStaking + b.WithdrawableBinding
    IN  \A conf \in MinConfs :
          LET each == GetAddressBalance(w, {}, conf) IN
          /\ \A a \in AddrsOf(w) : free(each[a]) = offered({a}, conf)
          /\ free(GetWalletBalance(w, conf)) = offered(AddrsOf(w), conf)

(* An address is listed as used exactly if the synced chain pays it,       *)
(* through all the blocks and reorganisations that set and cleared its row.*)
AddressListAgrees(w) ==
    LET paid(classes) == {OutOf(x[1]).addr : x \in {y \in OutputsOn(db, w) : OutOf(y[1]).class \in classes}}
        used(class) == {a.address : a \in {x \in GetAddresses(w, class) : x.used}}
    IN  /\ used(Std) = paid({Std, "staking", "binding"})
        /\ used("staking") = paid({"staking"})

(* When the wallet has caught up with the node, the statuses are those of  *)
(* the chain: withdrawn only what the chain spends, pending only what it   *)
(* does not have; expired or confirmed is in the unspent listing, unless   *)
(* the pool spends it; and a staking that can be withdrawn is shown as     *)
(* expired or withdrawing one block later at the latest.                   *)
StatusesAgree(w) ==
    LET listed == getUtxos(w, AddrsOf(w))
        open(op) == PoolSpends(op) \/ \E r \in listed : r.op = op /\ r.confirmations >= r.maturity
        mined == {x[1] : x \in OutputsOn(db, w)}
        unconfirmed(x) == x.op \notin mined \/ (x.height = 0 /\ x.op[1] \in RecordedLate)
        stakings == GetStakingHistory(w, TRUE)
        bindings == GetBindingHistory(w, TRUE)
    IN  /\ \A s \in stakings :
              /\ s.status = "withdrawn" => s.op \in SpentOn(db)
              /\ (s.status = "pending") = unconfirmed(s)
              /\ s.status = "expired" => open(s.op)
              /\ /\ s.op \in {r.op : r \in {x \in listed : x.confirmations >= x.maturity}}
                 /\ Height[tip] - s.height > FrozenPeriod
                 => s.status \in {"expired", "withdrawing"}
        /\ \A b \in bindings.histories :
              /\ (b.status = "withdrawn") = (b.op \in SpentOn(db) /\ ~unconfirmed(b))
              /\ (b.status = "pending") = unconfirmed(b)
              /\ b.status = "confirmed" => PoolSpends(b.op) \/ \E r \in listed : r.op = b.op
        /\ bindings.err # NoErr => UnminedGame(w, "binding") # {}

ApiAgrees ==
    \A w \in SettledWallets :
        /\ AddressAnswersAgree(w)
        /\ AddressListAgrees(w)
        /\ best = tip => StatusesAgree(w)

(* Every query about a ready wallet answers for its synced chain: the      *)
(* wallet's answers agree with each other and with the chain, its look-ups *)
(* find what the chain has, and the API shows the status the chain gives.  *)
QueriesAgree == AnswersAgree /\ LookupsAgree /\ ApiAgrees
=============================================================================
