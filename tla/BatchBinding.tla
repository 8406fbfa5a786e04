---------------------------- MODULE BatchBinding ----------------------------
(***************************************************************************)
(* The commands of masswalletcli that send transactions on their own       *)
(* (cmd_binding.go): getbindinglist writes a file of plots, batchbinding    *)
(* binds what is unbound of it in batches, batchbindpoolpk binds a coinbase *)
(* to pool keys.  Several clients call the API of one wallet at a time; the *)
(* node mines, and others bind the same plots meanwhile.                   *)
(*                                                                         *)
(* The API, the wallet's coins and the node are external: they are what    *)
(* the commands see of them.                                               *)
(***************************************************************************)
EXTENDS Naturals, Sequences, FiniteSets, FiniteSetsExt, SequencesExt

CONSTANTS
    Client, Target, PoolKey,
    Disk,           \* the plot files found: a sequence of records, see DiskFile
    Price,          \* GetNetworkBinding: <<type, size>> -> amount
    BatchSize,      \* 500
    MaxRetry,       \* 30
    Fee,
    Coins,          \* bound: amounts of the coins of the paying address
    MaxRuns,        \* bound: commands started
    Contested       \* bound: the targets that others may bind

VARIABLES
    listFile,       \* the file of getbindinglist, a sequence of plots or NoFile
    unboundFile,    \* the file batchbinding -c writes
    cmd,            \* client -> the command it runs
    runs,
    coins,          \* the coins the wallet may pick: id -> amount
    pool,           \* transactions in the node's pool
    chain,          \* transactions of the best chain
    buried,         \* those of them with enough confirmations
    bound,          \* targets bound on the chain
    coinbaseOf      \* pool key -> [nonce, coinbase] on the chain

batchVars == <<listFile, unboundFile, cmd, runs, coins, pool, chain, buried, bound, coinbaseOf>>
nodeVars == <<pool, chain, buried, bound, coinbaseOf>>

DiskFile == [name : {"massdb", "plot", "other"}, readable : BOOLEAN, plotted : BOOLEAN,
             owned : BOOLEAN, target : Target, size : Nat]
ASSUME DiskAssumption == Disk \in Seq(DiskFile)
ASSUME BatchAssumption == BatchSize \in Nat \ {0} /\ "none" \notin PoolKey

NoFile == <<>>
Plot(target, type, size) == [target |-> target, type |-> type, size |-> size]

-----------------------------------------------------------------------------
(* getbindinglist *)

(* The k-th smallest of a set of places, and the elements of s at them. *)
Nth(S, k) == CHOOSE i \in S : Cardinality({j \in S : j <= i}) = k
At(s, S) == [k \in 1..Cardinality(S) |-> s[Nth(S, k)]]

PlotsOf(files, type) == [i \in DOMAIN files |-> Plot(files[i].target, type, files[i].size)]
getOfflineBindingListV1(all) ==
    LET found == {i \in DOMAIN Disk : Disk[i].name = "massdb" /\ Disk[i].readable /\ (Disk[i].plotted \/ all)}
    IN  PlotsOf(At(Disk, found), "m1")
getOfflineBindingListV2(hasKeystore) ==
    LET found == {i \in DOMAIN Disk : Disk[i].name = "plot" /\ Disk[i].readable /\ (hasKeystore => Disk[i].owned)}
    IN  PlotsOf(At(Disk, found), "m2")

(* external: massutil.BindingList.RemoveDuplicate, the first of every target *)
RemoveDuplicate(plots) ==
    At(plots, {i \in DOMAIN plots : \A j \in 1..(i - 1) : plots[j].target # plots[i].target})

(* An interrupted search gives no plots and no error. *)
getOfflineBindingList(type, flag, interrupted) ==
    IF interrupted THEN <<>>
    ELSE IF type = "m1" THEN getOfflineBindingListV1(flag) ELSE getOfflineBindingListV2(flag)

GetBindingList(type, flag, overwrite, interrupted) ==
    LET list == RemoveDuplicate(getOfflineBindingList(type, flag, interrupted))
    IN  /\ listFile = NoFile \/ overwrite
        /\ runs < MaxRuns
        /\ IF list = <<>> THEN UNCHANGED <<listFile, runs>> ELSE listFile' = list /\ runs' = runs + 1
        /\ UNCHANGED <<unboundFile, cmd, coins, nodeVars>>

-----------------------------------------------------------------------------
(* batchbinding: the plots, the targets found unbound, the outputs of the   *)
(* next transaction and the transactions sent.                              *)

NoCoins == <<>>     \* a function with no ids in its domain
NoCmd == [pc |-> "idle", isCheck |-> FALSE, password |-> TRUE, plots |-> <<>>, filtered |-> 0,
          unbound |-> <<>>, taken |-> 0, outputs |-> <<>>, unsigned |-> NoCoins, retry |-> 0,
          txids |-> {}, sent |-> {}, total |-> 0, run |-> 0,
          coinbase |-> "none", nonces |-> <<>>, keys |-> {}]
Over == {"idle", "none", "checked", "insufficient", "partial", "done", "failed"}
(* A process that ends leaves its report behind, and after "done" what the  *)
(* report is about.                                                         *)
Left(rec) ==
    IF rec.pc = "done"
    THEN [NoCmd EXCEPT !.pc = "done", !.plots = rec.plots, !.sent = rec.sent, !.total = rec.total,
                       !.nonces = rec.nonces, !.coinbase = rec.coinbase]
    ELSE IF rec.pc \in Over THEN [NoCmd EXCEPT !.pc = rec.pc] ELSE rec
Set(c, rec) == cmd' = [cmd EXCEPT ![c] = Left(rec)]

StartBatch(c, isCheck, password) ==
    /\ cmd[c].pc \in Over /\ runs < MaxRuns /\ listFile # NoFile
    /\ runs' = runs + 1
    /\ Set(c, [NoCmd EXCEPT !.pc = "filter", !.run = runs, !.isCheck = isCheck, !.password = password,
                            !.plots = RemoveDuplicate(listFile)])
    /\ UNCHANGED <<listFile, unboundFile, coins, nodeVars>>

(* The API's answers, from the chain and not from the pool: the amount that *)
(* is bound to a target, and the nonce and coinbase of a pool key.          *)
CheckTargetBinding(targets) == [t \in targets |-> IF t \in bound THEN 1 ELSE 0]
CheckPoolPkCoinbase(keys) == [p \in keys |-> coinbaseOf[p]]

filterUnboundTargets(targets) ==
    LET amount == CheckTargetBinding(targets) IN SetToSeq({t \in targets : amount[t] = 0})

Filter(c) ==
    LET k == cmd[c]
        to == IF k.filtered + BatchSize < Len(k.plots) THEN k.filtered + BatchSize ELSE Len(k.plots)
        ub == k.unbound \o filterUnboundTargets({k.plots[i].target : i \in (k.filtered + 1)..to})
        last == to = Len(k.plots)
        pc == IF ~last THEN "filter"
              ELSE IF ub = <<>> THEN "none" ELSE IF k.isCheck THEN "checked" ELSE "price"
    IN  /\ k.pc = "filter"
        /\ Set(c, [k EXCEPT !.filtered = to, !.unbound = ub, !.pc = pc])
        /\ unboundFile' = IF pc = "checked" THEN ub ELSE unboundFile
        /\ UNCHANGED <<listFile, runs, coins, nodeVars>>

PlotOf(k, t) == k.plots[CHOOSE i \in DOMAIN k.plots : k.plots[i].target = t]
getPrice(k, t) == <<PlotOf(k, t).type, PlotOf(k, t).size>>
Required(k, outputs) == FoldLeft(LAMBDA n, t : n + Price[getPrice(k, t)], 0, outputs)
Worth(cs) == FoldFunction(+, 0, cs)

(* Prices, the balance of the sender, and the check that it is enough *)
CheckBalance(c) ==
    LET k == cmd[c]
        priced == \A i \in DOMAIN k.unbound : getPrice(k, k.unbound[i]) \in DOMAIN Price
    IN  /\ k.pc = "price"
        /\ Set(c, [k EXCEPT !.pc = IF ~priced THEN "failed"
                                   ELSE IF Worth(coins) < Required(k, k.unbound) THEN "insufficient"
                                   ELSE "prepare"])
        /\ UNCHANGED <<listFile, unboundFile, runs, coins, nodeVars>>

(* The loop fills outputs up to the batch size; what is left after it, even *)
(* nothing, makes the last transaction.                                     *)
Prepare(c) ==
    LET k == cmd[c]
        to == IF k.taken + BatchSize <= Len(k.unbound) THEN k.taken + BatchSize ELSE Len(k.unbound)
    IN  /\ k.pc = "prepare"
        /\ Set(c, [k EXCEPT !.outputs = SubSeq(k.unbound, k.taken + 1, to), !.taken = to,
                            !.retry = 0, !.pc = "create"])
        /\ UNCHANGED <<listFile, unboundFile, runs, coins, nodeVars>>

(* CreateBindingTransaction: no outputs are an error; the wallet marks the  *)
(* coins it picks.  Without coins the client sleeps and tries again.        *)
Enough(cs, need) == Worth(cs) >= need + Fee
Picks(need) ==
    {ids \in SUBSET DOMAIN coins :
        /\ Enough(Restrict(coins, ids), need)
        /\ \A i \in ids : ~Enough(Restrict(coins, ids \ {i}), need)}
Pick(c, k, need, pc) ==
    \E ids \in Picks(need) :
        /\ Set(c, [k EXCEPT !.unsigned = Restrict(coins, ids), !.pc = pc])
        /\ coins' = Restrict(coins, DOMAIN coins \ ids)
Create(c) ==
    LET k == cmd[c]
        need == Required(k, k.outputs)
    IN  /\ k.pc = "create"
        /\ \/ /\ k.outputs = <<>>
              /\ Set(c, [k EXCEPT !.pc = "failed"])
              /\ UNCHANGED coins
           \/ k.outputs # <<>> /\ Pick(c, k, need, "send")
           \/ /\ k.outputs # <<>> /\ Picks(need) = {}
              /\ Set(c, IF k.retry < MaxRetry THEN [k EXCEPT !.retry = @ + 1] ELSE [k EXCEPT !.pc = "failed"])
              /\ UNCHANGED coins
        /\ UNCHANGED <<listFile, unboundFile, runs, nodeVars>>

(* The change comes back as the first of the coins. *)
Change(cs, spent) ==
    LET id == CHOOSE i \in DOMAIN cs : \A j \in DOMAIN cs : i <= j
    IN  [i \in {id} |-> Worth(cs) - spent - Fee]
BindingTx(c, k) ==
    [by |-> c, run |-> k.run, ins |-> k.unsigned, change |-> Change(k.unsigned, Required(k, k.outputs)),
     targets |-> ToSet(k.outputs), key |-> "none", nonce |-> 0, coinbase |-> "none"]
AlreadyBound(targets) == \E t \in targets : t \in bound \/ \E x \in pool : t \in x.targets

CountSent(k, ok, tx) ==
    IF ok THEN [k EXCEPT !.txids = @ \cup {tx}, !.sent = @ \cup {tx}, !.total = @ + Len(k.outputs)] ELSE k

(* signSendTx: a wrong passphrase ends the command; the node's answer "plot *)
(* pk already bound" is no error, and the batch is left out.  Either way    *)
(* the wallet takes its marks off the coins.                                *)
SignSend(c) ==
    LET k == cmd[c]
        tx == BindingTx(c, k)
        ok == k.password /\ ~AlreadyBound(tx.targets)
        more == Len(k.outputs) = BatchSize
        next == IF more THEN "prepare" ELSE "wait"
    IN  /\ k.pc = "send"
        /\ Set(c, IF k.password THEN [CountSent(k, ok, tx) EXCEPT !.unsigned = NoCoins, !.pc = next]
                  ELSE [k EXCEPT !.unsigned = NoCoins, !.pc = "failed"])
        /\ pool' = IF ok THEN pool \cup {tx} ELSE pool
        /\ coins' = IF ok THEN coins ELSE coins @@ k.unsigned
        /\ UNCHANGED <<listFile, unboundFile, runs, chain, buried, bound, coinbaseOf>>

(* Mutant form: a missing transaction is waited for as well. *)
NotConfirmed(tx) == tx \notin buried

(* waitConfirmed: a transaction that is confirmed or missing is waited for  *)
(* no longer.                                                               *)
Packing(tx) == tx \in pool \/ tx \in chain \ buried
PollStatus(c) ==
    LET k == cmd[c]
    IN  /\ k.pc = "wait"
        /\ \E tx \in k.txids : ~Packing(tx) /\ Set(c, [k EXCEPT !.txids = @ \ {tx}])
        /\ UNCHANGED <<listFile, unboundFile, runs, coins, nodeVars>>
Report(c) ==
    LET k == cmd[c]
    IN  /\ k.pc = "wait" /\ k.txids = {}
        /\ Set(c, [k EXCEPT !.pc = IF k.total < Len(k.unbound) THEN "partial" ELSE "done"])
        /\ UNCHANGED <<listFile, unboundFile, runs, coins, nodeVars>>

-----------------------------------------------------------------------------
(* batchbindpoolpk: the nonces are asked for once, then a transaction is    *)
(* made, signed and sent for every key.                                     *)
StartPoolPk(c, coinbase, password) ==
    /\ cmd[c].pc \in Over /\ runs < MaxRuns
    /\ runs' = runs + 1
    /\ Set(c, [NoCmd EXCEPT !.pc = "pkNonce", !.run = runs, !.coinbase = coinbase, !.password = password])
    /\ UNCHANGED <<listFile, unboundFile, coins, nodeVars>>
PoolPkNonce(c) ==
    LET k == cmd[c]
    IN  /\ k.pc = "pkNonce"
        /\ Set(c, [k EXCEPT !.pc = "pkCreate", !.keys = PoolKey,
                            !.nonces = [p \in PoolKey |-> CheckPoolPkCoinbase(PoolKey)[p].nonce + 1]])
        /\ UNCHANGED <<listFile, unboundFile, runs, coins, nodeVars>>
PoolPkCreate(c) ==
    LET k == cmd[c]
    IN  /\ k.pc = "pkCreate"
        /\ \/ Pick(c, k, 0, "pkSend")
           \/ Picks(0) = {} /\ Set(c, [k EXCEPT !.pc = "insufficient"]) /\ UNCHANGED coins
        /\ UNCHANGED <<listFile, unboundFile, runs, nodeVars>>
(* The node takes the next nonce of a key only. *)
PoolPkSend(c) ==
    LET k == cmd[c]
        tx(p) == [by |-> c, run |-> k.run, ins |-> k.unsigned, change |-> Change(k.unsigned, 0),
                  targets |-> {}, key |-> p, nonce |-> k.nonces[p], coinbase |-> k.coinbase]
        ok(p) == /\ k.password /\ k.nonces[p] = coinbaseOf[p].nonce + 1
                 /\ \A x \in pool : x.key # p
    IN  /\ k.pc = "pkSend"
        /\ \E p \in k.keys :
            /\ Set(c, IF ok(p)
                      THEN [k EXCEPT !.txids = @ \cup {tx(p)}, !.sent = @ \cup {tx(p)}, !.unsigned = NoCoins,
                                     !.keys = @ \ {p}, !.pc = IF k.keys = {p} THEN "wait" ELSE "pkCreate"]
                      ELSE [k EXCEPT !.unsigned = NoCoins, !.pc = "failed"])
            /\ pool' = IF ok(p) THEN pool \cup {tx(p)} ELSE pool
            /\ coins' = IF ok(p) THEN coins ELSE coins @@ k.unsigned
        /\ UNCHANGED <<listFile, unboundFile, runs, chain, buried, bound, coinbaseOf>>

-----------------------------------------------------------------------------
(* external: the node *)
NodePacks ==
    /\ \E tx \in pool :
        /\ pool' = pool \ {tx} /\ chain' = chain \cup {tx}
        /\ bound' = bound \cup tx.targets
        /\ coinbaseOf' = [p \in PoolKey |-> IF p = tx.key THEN [nonce |-> tx.nonce, coinbase |-> tx.coinbase]
                                            ELSE coinbaseOf[p]]
        /\ coins' = coins @@ tx.change
    /\ UNCHANGED <<listFile, unboundFile, cmd, runs, buried>>
NodeBuries ==
    /\ \E tx \in chain \ buried : buried' = buried \cup {tx}
    /\ UNCHANGED <<listFile, unboundFile, cmd, runs, coins, pool, chain, bound, coinbaseOf>>
(* Another wallet binds a target; a transaction in conflict leaves the pool *)
(* and its coins are free again.                                            *)
OtherBinds ==
    /\ \E t \in Contested :
        LET lost == {tx \in pool : t \in tx.targets}
        IN  /\ t \notin bound
            /\ bound' = bound \cup {t}
            /\ pool' = pool \ lost
            /\ coins' = IF lost = {} THEN coins ELSE coins @@ (CHOOSE tx \in lost : TRUE).ins
    /\ UNCHANGED <<listFile, unboundFile, cmd, runs, chain, buried, coinbaseOf>>

BatchInit ==
    /\ listFile = NoFile /\ unboundFile = NoFile
    /\ cmd = [c \in Client |-> NoCmd]
    /\ runs = 0 /\ coins = Coins
    /\ pool = {} /\ chain = {} /\ buried = {}
    /\ bound = {}
    /\ coinbaseOf = [p \in PoolKey |-> [nonce |-> 0, coinbase |-> "none"]]

ClientSteps(c) ==
    \/ Filter(c) \/ CheckBalance(c) \/ Prepare(c) \/ Create(c) \/ SignSend(c)
    \/ PoolPkNonce(c) \/ PoolPkCreate(c) \/ PoolPkSend(c)
    \/ PollStatus(c) \/ Report(c)
BatchNext ==
    \/ \E type \in {"m1", "m2"}, flag, overwrite, interrupted \in BOOLEAN :
          GetBindingList(type, flag, overwrite, interrupted)
    \/ \E c \in Client :
          \/ ClientSteps(c)
          \/ StartBatch(c, TRUE, TRUE)
          \/ \E password \in BOOLEAN : StartBatch(c, FALSE, password) \/ StartPoolPk(c, c, password)
    \/ NodePacks \/ NodeBuries \/ OtherBinds

BatchSpec == BatchInit /\ [][BatchNext]_batchVars

(* A client process runs until it ends, and the node packs what it can.     *)
BatchFairness ==
    /\ \A c \in Client : WF_batchVars(ClientSteps(c))
    /\ WF_batchVars(NodePacks) /\ WF_batchVars(NodeBuries)

-----------------------------------------------------------------------------
Lost(tx) == tx \notin pool \cup chain

(* What the command counts is what it has sent: no target in two of its     *)
(* transactions, as many as it reports.  When it says done, every target of *)
(* the file is bound on the chain, by it or by others, unless one of its    *)
(* transactions was lost; and every pool key has the coinbase it was given  *)
(* or a later one.                                                          *)
CountsWhatIsBound ==
    \A c \in Client :
        LET k == cmd[c]
        IN  /\ k.total = Cardinality(UNION {tx.targets : tx \in k.sent})
            /\ \A tx, ty \in k.sent : tx # ty => tx.targets \cap ty.targets = {}
            /\ k.pc = "done" =>
                /\ \A i \in DOMAIN k.plots :
                      \/ k.plots[i].target \in bound
                      \/ \E tx \in k.sent : Lost(tx) /\ k.plots[i].target \in tx.targets
                /\ \A p \in DOMAIN k.nonces :
                      \/ coinbaseOf[p] = [nonce |-> k.nonces[p], coinbase |-> k.coinbase]
                      \/ coinbaseOf[p].nonce > k.nonces[p]

(* And it ends, whatever other clients and the node do: it gives up waiting *)
(* for coins, and a transaction it waits for is packed or lost.             *)
BatchEndsCounted ==
    /\ []CountsWhatIsBound
    /\ \A c \in Client : cmd[c].pc \notin Over ~> cmd[c].pc \in Over
=============================================================================
