------------------------------ MODULE Spending ------------------------------
(***************************************************************************)
(* Creating, signing and sending transactions of the wallet in use         *)
(* (wallet.go, tx.go, api/tx_service.go, api/wallet_service.go) while      *)
(* blocks arrive: coin selection, the five-minute marks of usedCache, the  *)
(* node's transaction pool and restarts.                                   *)
(*                                                                         *)
(* Creations hold the read lock of w.mu or none, so they overlap.  Each    *)
(* scan reads the synced height first and the unspent rows later; a read   *)
(* transaction is no snapshot.  Reorganisations are in NtfnsHandler.       *)
(***************************************************************************)
EXTENDS CoinSelection, TxHistory

CONSTANTS
    Coin,           \* outputs of the wallet in use
    Amount,         \* Coin -> Nat
    Class,          \* Coin -> "std", "staking" or "binding"
    Maturity,       \* Coin -> confirmations before it may be spent
    InitialCoins,   \* coins the wallet starts with, mined in the first block
    Request,        \* user sessions, each with one transaction at a time
    AutoOuts,       \* bound: outputs of automatic transactions
    ManualIns,      \* bound: sets of coins callers name
    MaxTxFee,       \* config: the largest fee the API hands out
    MaxHeight,      \* bound
    MaxRestart      \* bound

ConfWrap == 1000        \* stands for the 2^32 that uint32(...) wraps at
Height1 == 1

ASSUME SpendingAssumption ==
    /\ IsFiniteSet(Coin) /\ InitialCoins \subseteq Coin
    /\ \A c \in Coin : Amount[c] \in Nat /\ Maturity[c] \in 1..(ConfWrap - MaxHeight)
    /\ \A outs \in AutoOuts : outs \in Seq(Nat)

VARIABLES
    height,         \* SyncStore.SyncedTo
    credits,        \* coin -> height of its block, for every coin received
    spent,          \* coins spent by connected blocks: they have no unspent row
    unminedInputs,  \* keys of nsUnminedInputs: outpoints spent by unconfirmed ones
    blocks,         \* external: mined by the node, not yet connected by the wallet
    pool,           \* external: sets of coins, the transactions in the node's pool
    used,           \* w.usedCache
    req,            \* request -> what it is doing
    lapsed,         \* coins that were once no longer protected while promised
    restarts

vars == <<height, credits, spent, unminedInputs, blocks, pool, used, req, lapsed, restarts>>
walletVars == <<height, credits, spent, unminedInputs>>

Idle == [pc |-> "idle", auto |-> FALSE, outs |-> <<>>, seen |-> 0,
         target |-> 0, adj |-> 0, coins |-> {}]

Set(r, q) == req' = [req EXCEPT ![r] = q]

Live(r) == req[r].pc \in {"mark", "draft", "signed"}
InPool(c) == c \in UNION pool
InQueue(c) == \E i \in DOMAIN blocks : c \in blocks[i].spends

-----------------------------------------------------------------------------
(* ScriptAddressUnspents and the filter of getUtxosExcludeBindingAndStaking *)

(* uint32(syncHeight - block.Height + 1) *)
Confirmations(seen, c) == (seen - credits[c] + 1) % ConfWrap

(* Mutant form: a coin is taken one confirmation early. *)
MatureSoon(seen, c) == Confirmations(seen, c) + 1 >= Maturity[c]

Mature(seen, c) == Confirmations(seen, c) >= Maturity[c]

(* The rows are keyed by outpoint, the lookup has the wallet in front. *)
UnspentKey(c) == <<"wallet", c>>
SpentByUnmined(c) == UnspentKey(c) \in unminedInputs

(* Mutant form: CheckPoolOutPointSpend is not asked. *)
FreeUnlessMarked(c) == ~SpentByUnmined(c) /\ c \notin used

Free(c) == ~SpentByUnmined(c) /\ c \notin used /\ ~InPool(c)

Selectable(seen) ==
    {c \in DOMAIN credits \ spent :
        Amount[c] # 0 /\ Mature(seen, c) /\ Class[c] = "std" /\ Free(c)}

AsCredits(S) == LET s == SetToSeq(S) IN [i \in DOMAIN s |-> [id |-> s[i], amount |-> Amount[s[i]]]]
Ids(coins) == {coins[i].id : i \in DOMAIN coins}

(* The turns of autoConstructTxInAndChangeTxOut, as a table that TLC       *)
(* computes once.                                                          *)
MostInputs == Cardinality(Coin)

MostOutputs == Max({Len(outs) : outs \in AutoOuts}) + 1

Targets == {FirstTarget(fee) : fee \in UserFees} \cup
           {RequiredFee(i, o) : i \in 1..MostInputs, o \in 1..MostOutputs}

Turns == {<<S, outs, target, adj, Attempt(AsCredits(S), outs, target, adj)>> :
             S \in SUBSET Coin, outs \in AutoOuts, target \in Targets, adj \in {0, MinRelayTxFee}}

-----------------------------------------------------------------------------
(* AutoCreateTransaction, CreateStakingTransaction, CreateBindingTransaction *)
(* and CreatePoolPkCoinbaseTransaction differ in the outputs only.           *)
AutoCreate(r, outs, userTxFee) ==
    /\ req[r].pc = "idle"
    /\ Set(r, [Idle EXCEPT !.pc = "read", !.auto = TRUE, !.outs = outs,
                           !.target = FirstTarget(userTxFee)])
    /\ UNCHANGED <<walletVars, blocks, pool, used, lapsed, restarts>>

ReadHeight(r) ==
    /\ req[r].pc = "read"
    /\ Set(r, [req[r] EXCEPT !.pc = "scan", !.seen = height])
    /\ UNCHANGED <<walletVars, blocks, pool, used, lapsed, restarts>>

(* Mutant form: the next turn does not ask for more. *)
ForgetAdj(q, a) == [q EXCEPT !.pc = "read", !.target = a.target]

Again(q, a) == [q EXCEPT !.pc = "read", !.target = a.target, !.adj = a.adj]

Scan(r) ==
    /\ req[r].pc = "scan"
    /\ \E S \in {Selectable(req[r].seen)}, q \in {req[r]} : \E t \in Turns :
        /\ t[1] = S /\ t[2] = q.outs /\ t[3] = q.target /\ t[4] = q.adj
        /\ Set(r, CASE t[5].err = "retry" -> Again(q, t[5])
                    [] t[5].err = "none" -> [q EXCEPT !.pc = "mark", !.coins = Ids(t[5].coins)]
                    [] OTHER -> Idle)
    /\ UNCHANGED <<walletVars, blocks, pool, used, lapsed, restarts>>

(* MarkUsedUTXO, then checkTxFeeLimit.  A coin that another creation has   *)
(* picked and not yet marked is promised twice.                            *)
Raced(r) == {c \in req[r].coins : \E s \in Request \ {r} : req[s].pc = "mark" /\ c \in req[s].coins}

MarkUsedUTXO(r) ==
    /\ req[r].pc = "mark"
    /\ used' = used \cup req[r].coins
    /\ lapsed' = lapsed \cup Raced(r)
    /\ Set(r, IF req[r].target <= MaxTxFee
              THEN [Idle EXCEPT !.pc = "draft", !.auto = TRUE, !.seen = req[r].seen, !.coins = req[r].coins]
              ELSE Idle)
    /\ UNCHANGED <<walletVars, blocks, pool, restarts>>

(* CreateRawTransaction: any coins of the wallet, marked or not, spent or  *)
(* not, whatever their class and age.                                      *)
ManualCreate(r, S, outs, from) ==
    LET made == CreateRawTransaction(AsCredits(S), outs, from)
    IN  /\ req[r].pc = "idle"
        /\ S \subseteq DOMAIN credits
        /\ made.err = "none"
        /\ used' = used \cup S
        /\ lapsed' = lapsed \cup S
        /\ Set(r, IF made.fee <= MaxTxFee
                  THEN [Idle EXCEPT !.pc = "draft", !.coins = S]
                  ELSE Idle)
        /\ UNCHANGED <<walletVars, blocks, pool, restarts>>

(* ClearUsedUTXOMark, and who relied on the marks *)
Promised(c) == InQueue(c) \/ \E r \in Request : Live(r) /\ c \in req[r].coins
Unmark(S) ==
    /\ used' = used \ S
    /\ lapsed' = lapsed \cup {c \in S : Promised(c)}

(* SignRawTransaction: a failure clears the marks; the user still has the  *)
(* transaction and may try again.                                          *)
Sign(r, right) ==
    /\ req[r].pc = "draft"
    /\ IF right /\ req[r].coins \cap spent = {}
       THEN Set(r, [req[r] EXCEPT !.pc = "signed"]) /\ UNCHANGED <<used, lapsed>>
       ELSE Unmark(req[r].coins) /\ UNCHANGED req
    /\ UNCHANGED <<walletVars, blocks, pool, restarts>>

(* external: what ProcessTx checks of the inputs.  It may also refuse a    *)
(* transaction for other reasons.                                          *)
Acceptable(S) ==
    \A c \in S : /\ c \notin spent /\ ~InQueue(c) /\ ~InPool(c)
                 /\ height + Len(blocks) + 1 - credits[c] >= Maturity[c]

(* SendRawTransaction.  The handler hears of the transaction and stores    *)
(* its inputs.                                                             *)
Send(r, accepted) ==
    /\ req[r].pc = "signed"
    /\ IF accepted
       THEN /\ Acceptable(req[r].coins)
            /\ pool' = pool \cup {req[r].coins}
            /\ unminedInputs' = unminedInputs \cup req[r].coins
            /\ UNCHANGED <<used, lapsed>>
       ELSE Unmark(req[r].coins) /\ UNCHANGED <<pool, unminedInputs>>
    /\ Set(r, Idle)
    /\ UNCHANGED <<height, credits, spent, blocks, restarts>>

(* The user forgets the transaction. *)
Abandon(r) ==
    /\ req[r].pc \in {"draft", "signed"}
    /\ Set(r, Idle)
    /\ UNCHANGED <<walletVars, blocks, pool, used, lapsed, restarts>>

(* The cache drops an entry after five minutes. *)
Expire(c) ==
    /\ c \in used
    /\ Unmark({c})
    /\ UNCHANGED <<walletVars, blocks, pool, req, restarts>>

-----------------------------------------------------------------------------
(* The node mines some transactions of its pool and may pay the wallet.    *)
NodeMine(T, N) ==
    /\ height + Len(blocks) < MaxHeight
    /\ \A i \in DOMAIN blocks : blocks[i].coins \cap N = {}
    /\ blocks' = Append(blocks, [spends |-> UNION T, coins |-> N])
    /\ pool' = pool \ T
    /\ lapsed' = lapsed \cup ((UNION T) \ used)
    /\ UNCHANGED <<walletVars, used, req, restarts>>

ConnectBlock ==
    /\ blocks # <<>>
    /\ LET b == Head(blocks) IN
          /\ height' = height + 1
          /\ credits' = [c \in DOMAIN credits \cup b.coins |->
                           IF c \in b.coins THEN height + 1 ELSE credits[c]]
          /\ spent' = spent \cup b.spends
          /\ unminedInputs' = unminedInputs \ b.spends
    /\ blocks' = Tail(blocks)
    /\ UNCHANGED <<pool, used, req, lapsed, restarts>>

(* The cache and the pool are in memory; drafts are with the users. *)
Restart ==
    /\ restarts < MaxRestart
    /\ restarts' = restarts + 1
    /\ used' = {} /\ pool' = {}
    /\ lapsed' = lapsed \cup (UNION pool) \cup {c \in used : Promised(c)}
    /\ req' = [r \in Request |-> IF req[r].pc \in {"draft", "signed"} THEN req[r] ELSE Idle]
    /\ UNCHANGED <<walletVars, blocks>>

Init ==
    /\ height = Height1
    /\ credits = [c \in InitialCoins |-> Height1]
    /\ spent = {} /\ unminedInputs = {}
    /\ blocks = <<>> /\ pool = {}
    /\ used = {} /\ lapsed = {}
    /\ req = [r \in Request |-> Idle]
    /\ restarts = 0

Next ==
    \/ \E r \in Request :
        \/ \E outs \in AutoOuts, fee \in UserFees : AutoCreate(r, outs, fee)
        \/ \E S \in ManualIns, outs \in AutoOuts, from \in {{}, {1}} : ManualCreate(r, S, outs, from)
        \/ ReadHeight(r) \/ Scan(r) \/ MarkUsedUTXO(r) \/ Abandon(r)
        \/ \E b \in BOOLEAN : Sign(r, b) \/ Send(r, b)
    \/ \E c \in Coin : Expire(c)
    \/ \E T \in SUBSET pool, N \in SUBSET (Coin \ DOMAIN credits) : NodeMine(T, N)
    \/ ConnectBlock \/ Restart

Spec == Init /\ [][Next]_vars

(* The goroutine of a request goes on until it answers. *)
Fairness == \A r \in Request : WF_vars(ReadHeight(r) \/ Scan(r) \/ MarkUsedUTXO(r))

FairSpec == Spec /\ Fairness

-----------------------------------------------------------------------------
(* An automatic transaction spends standard coins only, and none that is    *)
(* younger than its maturity: the height is read before the rows, so the    *)
(* confirmations are never overestimated, unless two blocks or more were    *)
(* connected in between and the subtraction of ScriptAddressUnspents wraps. *)
PickedMature ==
    \A r \in Request : Live(r) /\ req[r].auto =>
        \A c \in req[r].coins :
            /\ Class[c] = "std"
            /\ \/ height - credits[c] + 1 >= Maturity[c]
               \/ credits[c] >= req[r].seen + 2

(* A coin is promised to two transactions, drafts, pooled or just mined,    *)
(* only if its mark was lost meanwhile (it expired, a failed signature or   *)
(* submission cleared it, the process restarted), if two creations overlap  *)
(* between scan and mark, or if a caller named it.                          *)
PromisedOnce ==
    \A r \in Request : Live(r) =>
        \A c \in req[r].coins :
            \/ c \in lapsed
            \/ /\ ~InPool(c) /\ ~InQueue(c)
               /\ \A s \in Request \ {r} : req[s].pc \in {"draft", "signed"} => c \notin req[s].coins

(* The coins of an automatic transaction were well selected: the selection  *)
(* gives up on no amount that some K coins of the wallet cover, never       *)
(* exceeds the inputs a standard transaction holds, names no coin twice,    *)
(* and leaves no coin in that the amount does not need.                     *)
SelectionOptimal == (\E r \in Request : Live(r) /\ req[r].auto) => Misselected = {}

(* Whichever way a transaction is made, its inputs are its outputs, its     *)
(* change and its fee, and the fee pays for its final size, the change      *)
(* output included.  An automatic one honours the caller's fee, never       *)
(* returns dust as change, and is refused only when no K coins hold the     *)
(* payment, the largest fee it can need and a change that is not dust.  In  *)
(* a manual one the receivers named pay the fee: the sender spends what was *)
(* asked for, to the unit, and nobody is left with dust.                    *)
CreatedBalanced == (\E r \in Request : Live(r)) => Unbalanced = {}

(* GetTxHistory, asked once a block is connected: the batches it reads back *)
(* from the best block meet without a gap or an overlap and stop at the     *)
(* wanted number, so the history is the wanted number of the chain's newest *)
(* related transactions, or all of them when there are fewer.               *)
HistoryNewest == height > 0 => WrongHistories = {}

(* Whatever blocks and marks change between its scans, a creation comes to  *)
(* an end: asking for a larger change and raising the fee cannot go on.     *)
CreationEnds ==
    \A r \in Request : req[r].pc \in {"read", "scan", "mark"} ~> req[r].pc \in {"idle", "draft"}
=============================================================================
