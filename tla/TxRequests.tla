----------------------------- MODULE TxRequests -----------------------------
(***************************************************************************)
(* The requests of the API that make a transaction and show one            *)
(* (api/tx_service.go, api/util.go and below them wallet.go, tx.go and     *)
(* common.go): what is checked, which outputs, inputs, sequence numbers    *)
(* and fees come of it, and what DecodeRawTransaction, GetRawTransaction   *)
(* and GetTxStatus say of the result.                                      *)
(*                                                                         *)
(* One request at a time; their interleavings are in Spending.  Addresses  *)
(* are decoded: a kind and a script hash.  The order of the outputs, the   *)
(* witnesses and the bytes of a payload are left out.                      *)
(***************************************************************************)
EXTENDS CoinSelection, Amounts, Functions

CONSTANTS
    Purse,          \* the outputs in the wallet's buckets, see PurseType
    Own,            \* hashes of the addresses of the wallet in use
    Addresses,      \* bound: the address strings tried as holders, targets, stakers
    Recipients,     \* bound: the address strings tried elsewhere
    InputLists,     \* bound: the inputs callers name
    AmountStrings,  \* bound
    FeeStrings,     \* bound
    FrozenPeriods,  \* bound
    LockTimes,      \* bound
    MaxLockTime,    \* math.MaxInt64
    MinStaking,     \* external: wire.IsValidStakingValue
    MinFrozen,      \* external: the frozen periods PayToStakingAddrScript takes
    WarmUpHeight,   \* external: forks.EnforceMASSIP0002WarmUp
    BindingLockedPeriod,
    MaxSequence,    \* wire.MaxTxInSequenceNum
    FeeLimit,       \* config: max_tx_fee, a string
    PoolPkFee,      \* consensus.MASSIP0002SetPoolPkCoinbaseFee
    PoolPkValue,    \* what the pool transaction pays to its sender
    TransactionMaturity,
    MaxConfirmations    \* bound

VARIABLES
    asked,      \* the last request, or the error it was refused with
    txn,        \* the transaction handed out last, or NoTx
    marked,     \* usedCache
    inPool, minedAt, nodeTip    \* external: where the node has the transaction
reqVars == <<asked, txn, marked, inPool, minedAt, nodeTip>>

Address(kind, h) == [kind |-> kind, hash |-> h]
NoAddress == Address("none", 0)

(* A transaction output: class std, staking (frozen) or binding (target) *)
StdScript(h) == [class |-> "std", hash |-> h, frozen |-> 0, target |-> NoAddress]
StakingScript(h, frozen) == [StdScript(h) EXCEPT !.class = "staking", !.frozen = frozen]
BindingScript(h, target) == [StdScript(h) EXCEPT !.class = "binding", !.target = target]
TxOut(value, script) == [value |-> value, script |-> script]

(* height 0: not mined *)
PurseType == \A c \in DOMAIN Purse : Purse[c].value > 0 /\ Purse[c].height >= 0
ASSUME PurseAssumption == PurseType

Nothing == [kind |-> "nothing"]
NoTx == [ins |-> <<>>, outs |-> <<>>, lockTime |-> 0, payload |-> FALSE]

-----------------------------------------------------------------------------
(* ParsePkScript, and what the API shows of a script *)
IsStaking(s) == s.class = "staking"
IsBinding(s) == s.class = "binding"
ScriptMaturity(s) == s.frozen + 1
extractAddressInfos(s) ==
    [type |-> s.class,
     recipient |-> Address("std", s.hash),
     staking |-> IF IsStaking(s) THEN Address("staking", s.hash) ELSE NoAddress,
     binding |-> s.target]

(* The first check that fails, as <<failed, error>>, or "none" *)
FirstError(checks) ==
    LET bad == {i \in DOMAIN checks : checks[i][1]}
    IN  IF bad = {} THEN "none" ELSE checks[CHOOSE i \in bad : \A j \in bad : i <= j][2]

isEmpty(param) == DOMAIN param = {}
NoWitnessAddress(a, staking) == a.kind # (IF staking THEN "staking" ELSE "std")
NoBindingTarget(a) == a.kind # "target"
BadFrom(a) == a # NoAddress /\ NoWitnessAddress(a, FALSE)
checkParseAmount(s) == StringToAmount(s)
BadAmount(s) == checkParseAmount(s) = NotAmount
checkLocktime(n) == n > MaxLockTime

PayToWitnessV0Address(a) ==
    IF a.kind = "bad" THEN "ErrFailedDecodeAddress"
    ELSE IF a.kind # "std" THEN "ErrInvalidAddress" ELSE "none"

(* The codes the API answers with *)
Converted ==
    [ErrNoAddressInWallet |-> "ErrAPINoAddressInWallet",
     ErrAddressNotFound |-> "ErrAPIInvalidAddress",
     ErrInsufficientFunds |-> "ErrAPIInsufficientWalletBalance",
     ErrNotEnoughInputs |-> "ErrAPINotEnoughInputs",
     ErrOverfullUtxo |-> "ErrAPIOverfullInputs",
     ErrInvalidAmount |-> "ErrAPIInvalidAmount",
     ErrDustChange |-> "ErrAPIDustChange",
     ErrDustAmount |-> "ErrAPIDustAmount",
     ErrUnknownSubfeefrom |-> "ErrAPIUnknownSubfeefrom",
     ErrInvalidParameter |-> "ErrAPIInvalidParameter",
     ErrFrozenPeriod |-> "ErrAPIInvalidParameter",
     ErrFailedDecodeAddress |-> "ErrAPIInvalidAddress",
     ErrInvalidAddress |-> "ErrAPIInvalidAddress"]
(* The handlers answer ErrAPIAbnormalData for apiUnknownError. *)
convertResponseError(e) ==
    IF e \in DOMAIN Converted THEN Converted[e] ELSE "ErrAPIAbnormalData"

Refused(code) == [err |-> code, tx |-> NoTx, fee |-> 0, marks |-> {}]
Fails(e) == Refused(convertResponseError(e))

(* checkTxFeeLimit comes after MarkUsedUTXO. *)
checkTxFeeLimit(r, limit) ==
    IF r.err = "none" /\ r.fee > limit THEN [Refused("ErrAPIBigTransactionFee") EXCEPT !.marks = r.marks]
    ELSE r

-----------------------------------------------------------------------------
(* Inputs.  addTxIn and constructTxIn set the sequence number alike.        *)

(* Mutant form: the frozen period itself. *)
SequenceFrozen(coin, lockTime) ==
    IF IsStaking(coin.script) THEN coin.script.frozen
    ELSE IF IsBinding(coin.script) /\ coin.height >= WarmUpHeight THEN BindingLockedPeriod
    ELSE IF lockTime # 0 THEN MaxSequence - 1 ELSE MaxSequence

SequenceOf(coin, lockTime) ==
    IF IsStaking(coin.script) THEN ScriptMaturity(coin.script)
    ELSE IF IsBinding(coin.script) /\ coin.height >= WarmUpHeight THEN BindingLockedPeriod
    ELSE IF lockTime # 0 THEN MaxSequence - 1 ELSE MaxSequence

addTxIn(coins, lockTime) ==
    [i \in DOMAIN coins |-> [coin |-> coins[i], sequence |-> SequenceOf(Purse[coins[i]], lockTime)]]

prepareFromAddresses(from) == IF from = NoAddress THEN Own ELSE {from.hash} \cap Own

(* Inputs and change, which goes to change or else to the first sender. *)
Drafted(r, outs, lockTime, change, payload) ==
    LET ids == [i \in DOMAIN r.coins |-> r.coins[i].id]
        changeHash == IF change = NoAddress THEN Purse[ids[1]].script.hash ELSE change.hash
    IN  IF r.err # "none" THEN Fails(r.err)
        ELSE [err |-> "none", fee |-> r.fee, marks |-> {},
              tx |-> [ins |-> addTxIn(ids, lockTime),
                      outs |-> outs \o (IF r.change = 0 THEN <<>> ELSE <<TxOut(r.change, StdScript(changeHash))>>),
                      lockTime |-> 0, payload |-> payload]]

(* EstimateTxFee, EstimateStakingTxFee and EstimateBindingTxFee: bad is     *)
(* the error of their outputs.                                              *)
EstimateTxFee(outs, bad, lockTime, userTxFee, from, change, payload) ==
    LET addrs == prepareFromAddresses(from)
        coins == SetToSeq({c \in DOMAIN Purse \ marked :
                    /\ Purse[c].script.class = "std" /\ Purse[c].height > 0
                    /\ Purse[c].script.hash \in addrs})
    IN  IF addrs = {} THEN Fails(IF from = NoAddress THEN "ErrNoAddressInWallet" ELSE "ErrAddressNotFound")
        ELSE IF \E i \in DOMAIN outs : outs[i].value = 0 THEN Fails("ErrInvalidAmount")
        ELSE IF bad # "none" THEN Fails(bad)
        ELSE Drafted(autoConstructTxInAndChangeTxOut(
                         [i \in DOMAIN coins |-> [id |-> coins[i], amount |-> Purse[coins[i]].value]],
                         [i \in DOMAIN outs |-> outs[i].value], userTxFee),
                     outs, lockTime, change, payload)

(* The last steps of every creation: the lock time, and MarkUsedUTXO *)
Finished(r, lockTime) ==
    IF r.err # "none" THEN r
    ELSE [r EXCEPT !.tx.lockTime = lockTime, !.marks = {i.coin : i \in ToSet(r.tx.ins)}]

-----------------------------------------------------------------------------
(* The methods of the wallet.  amounts: a function from address strings.    *)

ToAddress(a) == StdScript(a.hash)
Outs(amounts, scripts) ==
    LET as == SetToSeq(DOMAIN amounts)
    IN  [i \in DOMAIN as |-> TxOut(checkParseAmount(amounts[as[i]]), scripts[as[i]])]
AnyBad(amounts) == \E a \in DOMAIN amounts : BadAmount(amounts[a])
ScriptError(amounts) ==
    LET bad == {PayToWitnessV0Address(a) : a \in DOMAIN amounts} \ {"none"}
    IN  IF bad = {} THEN "none" ELSE CHOOSE e \in bad : TRUE

AutoCreateRawTransaction(amounts, lockTime, userTxFee, from, change, payload) ==
    Finished(EstimateTxFee(Outs(amounts, [a \in DOMAIN amounts |-> ToAddress(a)]), ScriptError(amounts),
                           lockTime, userTxFee, from, change, payload), lockTime)

constructStakingTxOut(out) == TxOut(out.amount, StakingScript(out.staking.hash, out.frozen))
StakingTransaction(from, out, lockTime, userTxFee) ==
    Finished(EstimateTxFee(<<constructStakingTxOut(out)>>,
                           IF out.frozen < MinFrozen THEN "ErrFrozenPeriod" ELSE "none",
                           lockTime, userTxFee, from, NoAddress, FALSE), lockTime)

(* outputs: a sequence of [holder, target, amount] *)
BindingTransaction(from, txFee, outputs) ==
    Finished(EstimateTxFee([i \in DOMAIN outputs |-> TxOut(checkParseAmount(outputs[i].amount),
                                BindingScript(outputs[i].holder.hash, outputs[i].target))],
                           "none", 0, txFee, from, NoAddress, FALSE), 0)

-----------------------------------------------------------------------------
(* The handlers *)

AutoCreateTransaction(in) ==
    LET check == FirstError(<<
            <<checkLocktime(in.lockTime), "ErrAPIInvalidLockTime">>,
            <<isEmpty(in.amounts), "ErrAPIInvalidParameter">>,
            <<AnyBad(in.amounts), "ErrAPIInvalidAmount">>,
            <<BadAmount(in.fee), "ErrAPIUserTxFee">>,
            <<BadFrom(in.from) \/ BadFrom(in.change), "ErrAPIInvalidAddress">>>>)
    IN  IF check # "none" THEN Refused(check)
        ELSE checkTxFeeLimit(
                AutoCreateRawTransaction(in.amounts, in.lockTime, checkParseAmount(in.fee), in.from, in.change, FALSE),
                checkParseAmount(FeeLimit))

CreateStakingTransaction(in) ==
    LET val == checkParseAmount(in.amount)
        check == FirstError(<<
            <<BadAmount(in.amount), "ErrAPIInvalidAmount">>,
            <<val < MinStaking, "ErrAPIInvalidAmount">>,
            <<BadAmount(in.fee), "ErrAPIUserTxFee">>,
            <<BadFrom(in.from), "ErrAPIInvalidAddress">>,
            <<NoWitnessAddress(in.staking, TRUE), "ErrAPIInvalidAddress">>>>)
    IN  IF check # "none" THEN Refused(check)
        ELSE checkTxFeeLimit(
                StakingTransaction(in.from, [amount |-> val, staking |-> in.staking, frozen |-> in.frozen], 0,
                                   checkParseAmount(in.fee)),
                checkParseAmount(FeeLimit))

CreateBindingTransaction(in) ==
    LET some(bad(_)) == \E i \in DOMAIN in.outputs : bad(in.outputs[i])
        check == FirstError(<<
            <<isEmpty(in.outputs), "ErrAPIInvalidParameter">>,
            <<some(LAMBDA o : BadAmount(o.amount)), "ErrAPIInvalidAmount">>,
            <<FoldLeft(LAMBDA n, o : n + checkParseAmount(o.amount), 0, in.outputs) > MaxAmount, "ErrAPIInvalidAmount">>,
            <<BadAmount(in.fee), "ErrAPIUserTxFee">>,
            <<BadFrom(in.from), "ErrAPIInvalidAddress">>,
            <<some(LAMBDA o : NoWitnessAddress(o.holder, FALSE) \/ NoBindingTarget(o.target)), "ErrAPIInvalidAddress">>>>)
    IN  IF check # "none" THEN Refused(check)
        ELSE checkTxFeeLimit(BindingTransaction(in.from, checkParseAmount(in.fee), in.outputs),
                             checkParseAmount(FeeLimit))

(* The payload is signed elsewhere and names the coinbase of a pool key. *)
CreatePoolPkCoinbaseTransaction(in) ==
    IF NoWitnessAddress(in.from, FALSE) THEN Refused("ErrAPIInvalidAddress")
    ELSE IF ~in.payload THEN Refused("ErrAPIInvalidParameter")
    ELSE checkTxFeeLimit(
            AutoCreateRawTransaction([a \in {in.from} |-> AmountToString(PoolPkValue)], 0, PoolPkFee,
                                     in.from, in.from, TRUE),
            checkParseAmount(FeeLimit) + PoolPkFee)

(* inputs: a sequence of coins the caller names.  An unmined binding input  *)
(* and a vout out of range, which panic in the code, are refused here.      *)
constructTxIn(inputs) ==
    IF \E i \in DOMAIN inputs : inputs[i] \notin DOMAIN Purse THEN "ErrInvalidParameter"
    ELSE IF \E i \in DOMAIN inputs : Purse[inputs[i]].script.hash \notin Own THEN "ErrNoAddressInWallet"
    ELSE "none"
(* EstimateManualTxFee asks for mined outputs only. *)
EstimateManualTxFee(inputs, outs) ==
    IF \E i \in DOMAIN inputs : inputs[i] \notin DOMAIN Purse THEN "ErrNotFound"
    ELSE IF \E i \in DOMAIN inputs : Purse[inputs[i]].height = 0 THEN "ErrNotFound"
    ELSE "none"

ManualTransaction(in) ==
    LET as == SetToSeq(DOMAIN in.amounts)
        coins == [i \in DOMAIN in.inputs |-> [id |-> in.inputs[i], amount |-> Purse[in.inputs[i]].value]]
        values == [i \in DOMAIN as |-> checkParseAmount(in.amounts[as[i]])]
        payers == {i \in DOMAIN as : as[i] \in in.subtractfeefrom}
        r == CreateRawTransaction(coins, values, payers)
        hasChange == Total(coins) # TotalAndFee(values, payers, RequiredFee(Len(coins), Len(as)))
        change == IF in.change = NoAddress THEN Address("std", Purse[in.inputs[1]].script.hash) ELSE in.change
        outs == [i \in DOMAIN as |-> TxOut(r.outs[i], ToAddress(as[i]))]
    IN  IF ~(in.subtractfeefrom \subseteq DOMAIN in.amounts) THEN Fails("ErrUnknownSubfeefrom")
        ELSE IF r.err \in {"ErrInvalidAmount", "ErrNotEnoughInputs"} THEN Fails(r.err)
        ELSE IF ScriptError(in.amounts) # "none" THEN Fails(ScriptError(in.amounts))
        ELSE IF hasChange /\ PayToWitnessV0Address(change) # "none"
        THEN Fails(PayToWitnessV0Address(change))
        ELSE IF r.err # "none" THEN Fails(r.err)
        ELSE Finished([err |-> "none", fee |-> r.fee, marks |-> {},
                       tx |-> [ins |-> addTxIn(in.inputs, in.lockTime),
                               outs |-> outs \o (IF r.change = 0 THEN <<>>
                                                 ELSE <<TxOut(r.change, StdScript(change.hash))>>),
                               lockTime |-> 0, payload |-> FALSE]],
                      in.lockTime)

CreateRawTransactionRequest(in) ==
    LET check == FirstError(<<
            <<checkLocktime(in.lockTime), "ErrAPIInvalidLockTime">>,
            <<isEmpty(in.inputs) \/ isEmpty(in.amounts), "ErrAPIInvalidParameter">>,
            <<AnyBad(in.amounts), "ErrAPIInvalidAmount">>>>)
    IN  IF check # "none" THEN Refused(check)
        ELSE IF constructTxIn(in.inputs) # "none" THEN Fails(constructTxIn(in.inputs))
        ELSE IF EstimateManualTxFee(in.inputs, 1) # "none" THEN Fails(EstimateManualTxFee(in.inputs, 1))
        ELSE checkTxFeeLimit(ManualTransaction(in), checkParseAmount(FeeLimit))

(* GetTransactionFee without inputs: the outputs are taken for staking or   *)
(* binding outputs of a stand-in address.                                   *)
Stake(a) == StakingScript(0, MinFrozen)
Bind(a) == BindingScript(a.hash, Address("target", 0))
GetTransactionFee(in) ==
    LET check == FirstError(<<
            <<isEmpty(in.amounts), "ErrAPIInvalidParameter">>,
            <<in.hasBinding /\ \E a \in DOMAIN in.amounts : NoWitnessAddress(a, FALSE), "ErrAPIInvalidAddress">>,
            <<AnyBad(in.amounts), "ErrAPIInvalidAmount">>>>)
    IN  IF check # "none" THEN Refused(check)
        ELSE IF in.hasBinding
        THEN EstimateTxFee(Outs(in.amounts, [a \in DOMAIN in.amounts |-> Bind(a)]), "none", 0, 0, NoAddress, NoAddress, FALSE)
        ELSE EstimateTxFee(Outs(in.amounts, [a \in DOMAIN in.amounts |-> Stake(a)]), "none", 0, 0, NoAddress, NoAddress, FALSE)
ManualFee(in) == RequiredFee(Len(in.inputs), Cardinality(DOMAIN in.amounts))

-----------------------------------------------------------------------------
(* What is shown of a transaction *)
createVoutList(tx) ==
    [i \in DOMAIN tx.outs |-> [value |-> AmountToString(tx.outs[i].value),
                               infos |-> extractAddressInfos(tx.outs[i].script)]]
createVinList(tx) ==
    [i \in DOMAIN tx.ins |-> [value |-> AmountToString(Purse[tx.ins[i].coin].value),
                              sequence |-> tx.ins[i].sequence,
                              infos |-> extractAddressInfos(Purse[tx.ins[i].coin].script)]]
buildDecodeRawTxResponse(tx) ==
    [vout |-> createVoutList(tx), lockTime |-> tx.lockTime,
     sequences |-> [i \in DOMAIN tx.ins |-> tx.ins[i].sequence]]

DecodeRawTransaction(tx) ==
    IF tx = NoTx THEN [err |-> "ErrAPIInvalidTxHex"] ELSE buildDecodeRawTxResponse(tx)

totalIn(tx) == FoldLeft(LAMBDA n, i : n + Purse[i.coin].value, 0, tx.ins)
totalOut(tx) == FoldLeft(LAMBDA n, o : n + o.value, 0, tx.outs)

getStatus ==
    IF minedAt = 0 THEN IF inPool THEN "packing" ELSE "missing"
    ELSE IF 1 + nodeTip - minedAt >= TransactionMaturity THEN "confirmed" ELSE "confirming"

createTxRawResult(tx) ==
    [vout |-> createVoutList(tx), vin |-> createVinList(tx),
     fee |-> AmountToString(totalIn(tx) - totalOut(tx)), status |-> getStatus,
     confirmations |-> IF ~inPool /\ minedAt # 0 THEN 1 + nodeTip - minedAt ELSE 0]
GetRawTransaction(tx) ==
    IF inPool \/ minedAt # 0 THEN createTxRawResult(tx) ELSE [err |-> "ErrAPINoTxInfo"]

(* The same transaction in the answer to GetBlockByHeight: 1 staking, 2     *)
(* binding, 3 ordinary, by the first output of one of the two kinds, or     *)
(* else by the first such input.                                            *)
getTxType(tx) ==
    LET special == SelectSeq([i \in DOMAIN tx.outs |-> tx.outs[i].script]
                               \o [i \in DOMAIN tx.ins |-> Purse[tx.ins[i].coin].script],
                             LAMBDA s : IsStaking(s) \/ IsBinding(s))
    IN  IF special = <<>> THEN 3 ELSE IF IsStaking(special[1]) THEN 1 ELSE 2

createBlockTx(tx, blkHeight, chainHeight) ==
    [type |-> getTxType(tx), vout |-> createVoutList(tx), vin |-> createVinList(tx),
     fee |-> AmountToString(totalIn(tx) - totalOut(tx)), status |-> getStatus,
     confirmations |-> 1 + chainHeight - blkHeight]

(* The transaction is given the height of its own block for the best one. *)
marshalGetBlockResponse(tx) ==
    [height |-> minedAt, confirmations |-> nodeTip + 1 - minedAt,
     nextHash |-> minedAt < nodeTip, rawTx |-> createBlockTx(tx, minedAt, minedAt)]

-----------------------------------------------------------------------------
Answer(kind, in, r) ==
    /\ asked' = IF r.err = "none" THEN [kind |-> kind, in |-> in, fee |-> r.fee]
                ELSE [kind |-> r.err]
    /\ txn' = r.tx
    /\ marked' = marked \cup r.marks
    /\ UNCHANGED <<inPool, minedAt, nodeTip>>

(* The user drops the transaction; its coins stay marked. *)
Drop ==
    /\ asked # Nothing /\ ~inPool /\ minedAt = 0
    /\ asked' = Nothing /\ txn' = NoTx
    /\ UNCHANGED <<marked, inPool, minedAt, nodeTip>>

NodeAccept == txn # NoTx /\ ~inPool /\ minedAt = 0 /\ inPool' = TRUE /\ UNCHANGED <<asked, txn, marked, minedAt, nodeTip>>
NodeMines == inPool /\ minedAt = 0 /\ minedAt' = nodeTip + 1 /\ nodeTip' = nodeTip + 1 /\ UNCHANGED <<asked, txn, marked, inPool>>
NodeForgets == inPool /\ minedAt # 0 /\ inPool' = FALSE /\ UNCHANGED <<asked, txn, marked, minedAt, nodeTip>>
NodeGrows ==
    /\ minedAt # 0 /\ nodeTip - minedAt < MaxConfirmations
    /\ nodeTip' = nodeTip + 1
    /\ UNCHANGED <<asked, txn, marked, inPool, minedAt>>

FromAddresses == {NoAddress} \cup Recipients
AmountMaps == UNION {[S -> AmountStrings] : S \in {T \in SUBSET Recipients : Cardinality(T) <= 2}}

ReqInit ==
    /\ asked = Nothing /\ txn = NoTx /\ marked = {}
    /\ inPool = FALSE /\ minedAt = 0 /\ nodeTip = WarmUpHeight

Requests ==
    \/ \E amounts \in AmountMaps, lock \in LockTimes, change \in FromAddresses :
        \/ \E fee \in FeeStrings, from \in FromAddresses :
             LET in == [amounts |-> amounts, lockTime |-> lock, fee |-> fee, from |-> from, change |-> change]
             IN  Answer("auto", in, AutoCreateTransaction(in))
        \/ \E inputs \in InputLists, sub \in {S \in SUBSET Recipients : Cardinality(S) <= 1} :
             LET in == [amounts |-> amounts, lockTime |-> lock, inputs |-> inputs, change |-> change, subtractfeefrom |-> sub]
             IN  Answer("raw", in, CreateRawTransactionRequest(in))
    \/ \E fee \in FeeStrings, from \in FromAddresses, amount \in AmountStrings :
        \/ \E staking \in Addresses, frozen \in FrozenPeriods :
             LET in == [amount |-> amount, fee |-> fee, from |-> from, staking |-> staking, frozen |-> frozen]
             IN  Answer("staking", in, CreateStakingTransaction(in))
        \/ \E holder, target \in Addresses, n \in 0..2 :
             LET in == [outputs |-> [i \in 1..n |-> [holder |-> holder, target |-> target, amount |-> amount]],
                        fee |-> fee, from |-> from]
             IN  Answer("binding", in, CreateBindingTransaction(in))
    \/ \E from \in Recipients, payload \in BOOLEAN :
         LET in == [from |-> from, payload |-> payload]
         IN  Answer("pool", in, CreatePoolPkCoinbaseTransaction(in))

ReqNext ==
    \/ asked = Nothing /\ Requests
    \/ Drop \/ NodeAccept \/ NodeMines \/ NodeForgets \/ NodeGrows

-----------------------------------------------------------------------------
(* What the request asks for, in the words of the API *)
AskedFor(in, kind) ==
    CASE kind \in {"auto", "raw"} -> {<<Address("std", a.hash), NoAddress, NoAddress, in.amounts[a]>> : a \in DOMAIN in.amounts}
      [] kind = "staking" -> {<<Address("std", in.staking.hash), in.staking, NoAddress, in.amount>>}
      [] kind = "binding" -> {<<o.holder, NoAddress, o.target, o.amount>> : o \in ToSet(in.outputs)}
      [] kind = "pool" -> {<<in.from, NoAddress, NoAddress, AmountToString(PoolPkValue)>>}
AskedOuts(in, kind) ==
    CASE kind \in {"auto", "raw"} -> Cardinality(DOMAIN in.amounts)
      [] kind = "binding" -> Len(in.outputs)
      [] OTHER -> 1
Pays(v, w) ==
    /\ v.infos.recipient = w[1] /\ v.infos.staking = w[2] /\ v.infos.binding = w[3]
    /\ IF asked.kind = "raw" /\ w[1] \in asked.in.subtractfeefrom
       THEN StringToAmount(v.value) < StringToAmount(w[4])
       ELSE StringToAmount(v.value) = StringToAmount(w[4])

ChangeTo(in, kind) ==
    IF kind \in {"auto", "raw"} /\ in.change # NoAddress THEN {in.change}
    ELSE IF kind # "raw" /\ in.from # NoAddress THEN {in.from}
    ELSE {Address("std", h) : h \in Own}

(* The relative lock an input has to declare for the node to take it *)
Locked(coin) ==
    IF IsStaking(coin.script) THEN coin.script.frozen + 1
    ELSE IF IsBinding(coin.script) /\ coin.height >= WarmUpHeight THEN BindingLockedPeriod
    ELSE 0

Special(v) == v.infos.staking # NoAddress \/ v.infos.binding # NoAddress
ShownInBlock(reply, shown) ==
    LET tx == reply.rawTx
    IN  /\ \A f \in {"vin", "vout", "fee", "status"} : tx[f] = shown[f]
        /\ reply.confirmations = shown.confirmations \/ inPool
        /\ (tx.type = 3) = ~\E v \in ToSet(shown.vin) \cup ToSet(shown.vout) : Special(v)

Honest(in, kind, shown) ==
    LET n == AskedOuts(in, kind)
        fee == StringToAmount(shown.fee)
    IN  /\ Len(shown.vout) \in {n, n + 1}
        /\ \A i \in 1..n : \E w \in AskedFor(in, kind) : Pays(shown.vout[i], w)
        /\ \A w \in AskedFor(in, kind) : \E i \in 1..n : Pays(shown.vout[i], w)
        /\ \A i \in (n + 1)..Len(shown.vout) :
              shown.vout[i].infos.type = "std" /\ shown.vout[i].infos.recipient \in ChangeTo(in, kind)
        /\ fee = asked.fee
        /\ kind # "raw" => \A v \in ToSet(shown.vin) :
              v.infos.type = "std" /\ (in.from # NoAddress => v.infos.recipient = in.from)
        /\ kind \in {"auto", "staking", "binding"} => fee >= StringToAmount(in.fee)
        /\ kind = "raw" => ManualFee(in) <= fee
        /\ fee <= StringToAmount(FeeLimit) + (IF kind = "pool" THEN PoolPkFee ELSE 0)

FeeNamed(r, e) == r.err = "none" => e.err = "none" /\ e.fee = r.fee

(* What the user asked for in strings is what the transaction does, as the  *)
(* API itself shows it: it pays the recipients, and nobody else but the     *)
(* change, the amounts named (less what those who pay the fee are charged), *)
(* spends only coins of the sender named, costs what was announced, at      *)
(* least the fee asked for and at most the limit, and every input declares  *)
(* the relative lock of the output it spends and lets a lock time count.    *)
(* Whatever a request that was refused has left marked, GetTransactionFee   *)
(* then names the fee that an automatic transaction of the same amounts is  *)
(* charged; confirmations and status agree; and the block that has the      *)
(* transaction shows the same of it (but for its confirmations, always 1),  *)
(* as ordinary exactly if no address shown is a staking or binding one.     *)
RequestHonoured ==
    /\ txn # NoTx =>
        /\ Honest(asked.in, asked.kind, createTxRawResult(txn))
        /\ \A i \in ToSet(txn.ins) :
            IF Locked(Purse[i.coin]) # 0 THEN i.sequence = Locked(Purse[i.coin])
            ELSE txn.lockTime # 0 => i.sequence < MaxSequence
        /\ DecodeRawTransaction(txn).vout = createTxRawResult(txn).vout
        /\ DecodeRawTransaction(txn).lockTime = (IF asked.kind \in {"auto", "raw"} THEN asked.in.lockTime ELSE 0)
        /\ minedAt # 0 /\ ~inPool =>
            (getStatus = "confirmed" <=> GetRawTransaction(txn).confirmations >= TransactionMaturity)
        /\ minedAt # 0 => ShownInBlock(marshalGetBlockResponse(txn), GetRawTransaction(txn))
    /\ asked # Nothing /\ txn = NoTx => \A amounts \in AmountMaps :
        FeeNamed(AutoCreateTransaction([amounts |-> amounts, lockTime |-> 0, fee |-> AmountToString(0),
                                        from |-> NoAddress, change |-> NoAddress]),
                 GetTransactionFee([amounts |-> amounts, hasBinding |-> FALSE]))
=============================================================================
